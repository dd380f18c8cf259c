SPECIFICATION Spec
CONSTANTS
  MaxCalls = 2
  ClientMethods = {"start", "stop", "purge_state", "does_state_exist",
    "get_peer_id", "wallet_get_balance", "wallet_get_known_addresses",
    "wallet_get_notes", "leader_claim", "get_block", "get_transaction",
    "get_chain_id", "generate_key"}
  ZoneMethods = {"get_cryptarchia_info", "get_channel_state", "get_block",
    "submit_signed_transaction", "get_blocks"}
INVARIANTS
  ToldWhatHappened
  SureOfOutcome
PROPERTY Resolves
CHECK_DEADLOCK FALSE
