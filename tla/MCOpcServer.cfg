SPECIFICATION Spec
CONSTANTS
  Names <- MCNames
INVARIANTS TypeOK FreedNotUsed ReferencesBalance TablesAgree
\* After an unhandled exception the process is gone.
CHECK_DEADLOCK FALSE
