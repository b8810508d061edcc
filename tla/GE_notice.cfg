SPECIFICATION GenerationSpec
CONSTANTS
  chat1 = chat1
  chat2 = chat2
  contexts = contexts
  maintenance = maintenance
  stream = stream
  author = author
  visitor = visitor
  e1 = e1
  t1 = t1
  w1 = w1
  w2 = w2
  api = api
  None = None
  Chat = {1, 2}
  Meeting = {3}
  Event = {e1}
  Task = {t1}
  ChatLoop = {chat1, chat2}
  ContextLoop = {contexts}
  MaintenanceLoop = {maintenance}
  Stream = {stream}
  Author = {author}
  Visitor = {visitor}
  Process = {w1, w2, api}
  Home <- MCHome
  MaxConn = 2
  Scene <- MCScene
  Cast <- MCCast
  MaxVersion = 2
  MaxTry = 2
PROPERTY OneNoticePerRequest
CHECK_DEADLOCK FALSE
