SPECIFICATION FairSpec
CONSTANTS
  Faults = {f1}
  Kinds = {"new_message", "incident_open", "incident_update", "incident_resolved", "mute", "unmute", "dnd_on", "dnd_off", "maintenance"}
  MaxPerWindow = 1
  MaxChanges = 2
  MaxNights = 1
  MaxCalls = 1
  MaxBreaks = 2
INVARIANTS
  
  ResolvedShown
PROPERTIES
  
  LeftoversFlushed
