SPECIFICATION FairSpec
CONSTANTS
  Agents = {"a1", "a2"}
  Hostnames = {"h1"}
  HostOf <- Shared
  Settings = {"active", "paused", "stopped"}
INVARIANTS
  TypeOK
  AgentsAndNodesAgree
  OnlineTracksMesos
PROPERTIES
  ForgottenWhenGone
  AgentGetsNode
