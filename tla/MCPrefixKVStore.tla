---------------------------- MODULE MCPrefixKVStore ----------------------------
(* PrefixKVStore for TLC: prompts that extend, repeat and diverge from one     *)
(* another, and a budget that holds one or two of them.                        *)
EXTENDS PrefixKVStore

MCPrompts == {<<1>>, <<1, 2>>, <<1, 2, 1>>, <<2, 2>>}
=============================================================================
