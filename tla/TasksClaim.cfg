SPECIFICATION TaskSpec
CONSTANTS
  Agents = {a1, a2, a3}
  Nobody = Nobody
INVARIANTS
  OneWinner
  RecordFollowsMarker
