----------------------------- MODULE MC_TxnHooks -----------------------------
(* One transaction through handle_remap and its hooks.  The state space is
   small, so every combination of remap_run result, path flags, Cookie
   header, global cache setting, cache status and Set-Cookie is explored. *)
EXTENDS TxnHooks, TLC

====
