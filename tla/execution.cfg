SPECIFICATION ResendSpec
CONSTANTS
    Entries <- MCEntries
    Node <- MCNode
    Texts <- MCTexts
    Parse <- MCParse
    Unparsable = {"noise"}
    StatementKeys = {"SelectStmt", "CreateFunctionStmt", "CreateTrigStmt", "DropStmt", "RenameStmt", "IndexStmt", "GrantStmt"}
    Statements = {"SelectStmt", "CreateFunctionStmt", "CreateTrigStmt", "DropStmt", "RenameStmt", "IndexStmt"}
    Objects = {"OBJECT_FUNCTION"}
    Alterations = {"AT_AddColumn"}
    Builtins = {"lower"}
    Reserved = {"lower", "pg_read_file"}
    Schema = "islet"
    MaxNesting = 2
    Fields <- MCFields
    Default <- MCDefault
    Least <- MCLeast
    Headers <- MCHeaders
    Values = {0, 2}
    Length <- MCLength
    Batches <- MCBatches
    Configs <- MCConfigs
    Catalogs = {{}, {"f"}, {"lower"}}
INVARIANTS TypeOK PolicySound NestingBounded RefusalGrounded ExecutedAllowed LimitsExact ErrorLocated DecisionOrdered
