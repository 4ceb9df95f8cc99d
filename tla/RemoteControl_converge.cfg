SPECIFICATION FairSpec
CONSTANTS
 Handle = h
 NoHandle = noh
 Server = s
 NoDevice = nod
 Keys = {}
 MayReset = {"keypad","led"}
 KeypadQueue = 2
 LedQueue = 3
PROPERTY BoardsConverge
