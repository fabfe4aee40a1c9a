\* Two dispatches or tests race against two webhooks that come and go, with every
\* failure; endpoints may never answer.
SPECIFICATION HandlerSpec
CONSTANTS
  Hooks = {h1, h2}
  Events = {"otp.verified"}
  Dispatches = {d1, d2}
  Failures = {"select", "log", "crash"}
INVARIANTS DueIsLogged DeliveredWasAccepted
PROPERTIES OnlySilentEndpointsHold
CHECK_DEADLOCK FALSE
