\* One commit of a chain is deleted while clients and jobs go on.
SPECIFICATION Spec
CONSTANTS
  MaxCommit = 3
  Deletes = 1
PROPERTIES
  SurvivorsDetached
CHECK_DEADLOCK FALSE
