\* Three calls among a ban, a kick and an unban; ban rows are retired.
SPECIFICATION Spec
CONSTANTS
  NoBot = NoBot
  b1 = b1
  w1 = w1
  w2 = w2
  ban = ban
  kick = kick
  unban = unban
  Bots = {b1}
  Workers = {w1, w2}
  Bans = {ban}
  Kicks = {kick}
  Unbans = {unban}
  MaxAttempts = 1
  MaxStalls = 0
  MaxEnqueues = 0
  MaxImmediates = 3
  MaxOutages = 0
  MaxCrashes = 1
  MaxClears = 1
CHECK_DEADLOCK FALSE
SYMMETRY Symmetry
INVARIANTS MemberExclusion BanIsFinal
PROPERTIES FanoutKeepsNewerBans
