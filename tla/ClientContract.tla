--------------------------- MODULE ClientContract ---------------------------
(***************************************************************************)
(* The methods of the generated Rust client and those of the module.  A    *)
(* call is a method and a list of arguments in the client's order; the     *)
(* module takes them in its own.  Each table gives a method the names of   *)
(* its parameters.  Every method of the client has two forms, which send   *)
(* the same: one that blocks and one that takes a callback.                *)
(***************************************************************************)
EXTENDS TLC

\* Lifecycle and state.
LifecycleCalls ==
  [start |-> <<"config_path", "deployment">>, stop |-> <<>>,
   does_state_exist |-> <<>>, purge_state |-> <<>>]

\* The configuration.
ConfigCalls ==
  [generate_user_config |-> <<"json_args">>,
   update_user_config |-> <<"user_config_path", "keystore_path">>,
   migrate_user_config |-> <<"output_path", "keystore_path">>,
   migrate_user_config_0_1_2 |-> <<"new_config_path", "old_config_path",
       "keystore_path">>,
   participate |-> <<"config_path", "keystore_path", "output_dir",
       "external_address">>,
   show_config |-> <<"config_path">>]

\* The keystore and the identity.
KeyCalls ==
  [generate_key |-> <<"user_config_path", "keystore_path", "key_type",
       "key_title">>,
   add_key |-> <<"user_config_path", "keystore_path", "key_type", "key_hex",
       "key_title">>,
   remove_key |-> <<"user_config_path", "keystore_path", "key_title">>,
   get_peer_id |-> <<"config_path">>]

\* The wallet.
WalletCalls ==
  [wallet_get_balance |-> <<"address_hex">>,
   wallet_transfer_funds |-> <<"change_public_key", "sender_addresses",
       "recipient_address", "amount", "optional_tip_hex">>,
   wallet_get_known_addresses |-> <<>>,
   wallet_get_notes |-> <<"wallet_address_hex", "optional_tip_hex">>,
   wallet_get_leader_aged_notes |-> <<"optional_tip_hex">>]

\* Rewards and transactions.
RewardCalls ==
  [leader_claim |-> <<>>, wallet_get_claimable_vouchers |-> <<>>,
   wallet_fund_tx |-> <<"request_json">>,
   submit_signed_transaction |-> <<"signed_tx_json">>]

\* Channels.
ChannelCalls ==
  [channel_deposit |-> <<"channel_id_hex", "funding_public_key_hex", "amount",
       "metadata_hex", "optional_tip_hex">>,
   channel_deposit_with_notes |-> <<"channel_id_hex", "input_note_id_hexes",
       "metadata_hex", "change_public_key_hex", "funding_public_key_hexes",
       "max_tx_fee", "optional_tip_hex">>,
   get_channel_state |-> <<"channel_id_hex">>]

\* Blend and the network.
NetworkCalls ==
  [blend_join_as_core_node |-> <<"locator", "optional_service_note_id_hex">>,
   blend_info |-> <<>>, get_chain_id |-> <<>>, get_network_info |-> <<>>]

\* The chain.
ChainCalls ==
  [get_block |-> <<"header_id_hex">>,
   get_blocks |-> <<"from_slot", "to_slot">>,
   get_transaction |-> <<"tx_hash_hex">>, get_cryptarchia_info |-> <<>>,
   get_block_events |-> <<"header_id_hex">>, get_time_info |-> <<>>]

\* Proof of work.
PowCalls ==
  [pow_start_mining |-> <<>>, pow_stop_mining |-> <<>>,
   pow_start_auto_claim |-> <<>>, pow_stop_auto_claim |-> <<>>,
   pow_claim |-> <<"claim_address_hex">>, pow_claimable_rewards |-> <<>>]

Client ==
  LifecycleCalls @@ ConfigCalls @@ KeyCalls @@ WalletCalls @@ RewardCalls
    @@ ChannelCalls @@ NetworkCalls @@ ChainCalls @@ PowCalls

\* The module's own list, where it is not the client's.
OwnCalls ==
  [subscribe_to_new_blocks |-> <<>>,
   subscribe_to_processed_blocks |-> <<>>,
   subscribe_to_lib_blocks |-> <<>>,
   participate |-> <<"config_path", "output_dir", "external_address",
       "external_port">>,
   generate_key |-> <<"keystore_path", "key_type", "key_title">>,
   add_key |-> <<"keystore_path", "key_type", "key_hex", "key_title">>,
   remove_key |-> <<"keystore_path", "key_title">>,
   collectOpenMetricsText |-> <<>>,
   pow_status |-> <<>>,
   pow_configure |-> <<"config_path", "config_json">>,
   read_accounts |-> <<"config_path">>,
   read_pow_config |-> <<"config_path">>]

\* Methods that the client still has and the module has no more.
Gone ==
  {"update_user_config", "migrate_user_config", "migrate_user_config_0_1_2"}

\* All other methods have the same parameters in both lists.
ModuleCalls == OwnCalls @@ [m \in DOMAIN Client \ Gone |-> Client[m]]
=============================================================================
