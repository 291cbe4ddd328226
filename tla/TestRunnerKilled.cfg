SPECIFICATION Spec
CONSTANTS
  root = root
  basics = basics
  utils = utils
  deep = deep
  Lists <- MCLists
  Root = root
  Content <- MCContent
  Modes <- MCModes
  ThreadMode = 4
  Statuses <- MCStatuses
  Threshold = 2
PROPERTY NoTestAfterKilled
