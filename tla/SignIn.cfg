\* Two requests of any kind interleave, with crashes and failing calls.
SPECIFICATION Spec
CONSTANTS
  Requests = {r1, r2}
  Account = alice
  Names = {alice, bob}
  Sources = {here}
  NameLimit = 1
  SourceLimit = 1
  TableSize = 1
  CodeCount = 2
  MaxSetups = 2
  MaxChallenges = 1
  Faults = {"crash", "db"}
SYMMETRY Symmetry
INVARIANTS GuessesBounded BothFactors FactorAsSetUp
