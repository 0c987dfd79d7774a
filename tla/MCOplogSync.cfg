SPECIFICATION FairSpec
CONSTANTS
  a = a
  b = b
  Node = {a, b}
  Logs = {1, 3, 7, 9}
  PreLog <- MCPreLog
  CreateTS = 1
  Hour = 2
  Day = 4
  Now = 12
  MaxSyncOplogAck = 2
  MaxSyncObjectAck = 1
  MaxQueue = 2
  MaxDrops = 1
PROPERTIES
    
    Converges
CHECK_DEADLOCK FALSE
