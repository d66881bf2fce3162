SPECIFICATION Spec
CONSTANTS
    None = None
    Free = Free
    Habits = {}
    Symbols <- MCSymbols
    Scripts <- MCScripts
    FirstOf <- FirstWord
    OpensFunction <- StartsFunction
    Segments <- parse_chain
    Pipeline <- parse_line
    Closed <- HasCloser
    Braced <- HasBody
    CloserIn <- CloseOf
    TreeIn <- Tree
    NameOf <- FunctionName
    BodyOf <- FunctionBody
    StatementIn <- StatementAt
    AliasSlots = 2
    FunctionSlots = 2
    MaxCallDepth = 3
    Builtins <- MCBuiltins
    Programs <- MCPrograms
    Directory <- MCDirectory
    TestFiles <- MCTestFiles
    Defaults <- MCDefaults
    Variables <- MCVariables
INVARIANTS TypeOK EachStatementAsWritten ReadsOwnFile TypeTellsTruth TestAsDocumented
PROPERTY NamesRefined
