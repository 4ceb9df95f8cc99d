SPECIFICATION Spec
CONSTANTS
 Handle = h
 NoHandle = noh
 Server = s
 NoDevice = nod
 Keys = {"PD11"}
 MayReset = {"keypad","led"}
 KeypadQueue = 2
 LedQueue = 3
INVARIANT SubscriptionAgrees
PROPERTY ValuesMirrored
