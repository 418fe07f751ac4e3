SPECIFICATION FairSpec
CONSTANTS
  panel = panel button = button box = box
  Widget = {panel, button, box}
  Area <- Boxes
  Clickable = {button}
  QuitButton = button
  NoWidget = NoWidget
  CtrlC <- KeyC
  Unknown <- OtherKey
  Input <- Inputs
  Capacity = 2
  MaxTyped = 3
CHECK_DEADLOCK FALSE
INVARIANTS DescriptorsOutliveHandler OneFocus
PROPERTIES EndsWhenAsked
