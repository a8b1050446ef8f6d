SPECIFICATION Spec
CONSTANTS
  web = web
  agent = agent
  ask = ask
  odd = odd
  gone = gone
  h1 = h1
  h2 = h2
  s1 = s1
  s2 = s2
  MaxRequests = 2
  Callers <- MCCallers
  Mcps = {web, agent, ask, odd, gone}
  Handles = {h1, h2}
  Subjects = {s1, s2}
  Manifest <- MCManifest
  Rule <- MCRule
  Owner <- MCOwner
  Telling = {h2}
  Programs <- MCPrograms
  Answers <- MCAnswers
  HookConfig <- MCHooks
INVARIANT HandleReachesOneCall
INVARIANT HookEventsAudited
INVARIANT FieldsRedacted
PROPERTY RequestsEnd
CHECK_DEADLOCK FALSE
