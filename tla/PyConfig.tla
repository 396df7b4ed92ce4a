------------------------------- MODULE PyConfig -------------------------------
(***************************************************************************)
(* How a Python client is made: config.py, and the choice of a credential  *)
(* mode in client.py.  Settings are [url, id, secret, config, provider]:   *)
(* url, id and secret are arguments ("absent", "None" or "given"; a url    *)
(* also "relative"), config is a set of at most one AxoniumConfig.  The    *)
(* environment is [url, id, secret], of "absent", "given" or "relative".   *)
(***************************************************************************)

\* AxoniumConfig.__init__: an explicit None is dropped, so that it does not shadow the
\* environment; an argument comes first, then the environment.
Resolve(argument, environment) ==
  IF argument \notin {"absent", "None"} THEN argument ELSE environment

\* The config the arguments make, or none: _require_absolute_url. A missing url has a default.
Config(s, env) ==
  IF Resolve(s.url, env.url) = "relative" THEN {}
  ELSE {[id |-> Resolve(s.id, env.id) = "given", secret |-> Resolve(s.secret, env.secret) = "given"]}

\* _credentials_were_explicit: a config object with credentials counts as asking, and so does an
\* argument, even a None.
Explicit(s) ==
  IF s.config # {} THEN \E k \in s.config : k.id \/ k.secret
  ELSE s.id # "absent" \/ s.secret # "absent"

\* Mutant: the unused credentials are ignored and not dropped.
SelectIgnoring(k, provider, explicit) ==
  CASE provider /\ (k.id \/ k.secret) /\ explicit -> {}
    [] provider /\ ~((k.id \/ k.secret) /\ explicit) -> {[mode |-> "governed", config |-> k]}
    [] ~provider -> IF k.id /\ k.secret THEN {[mode |-> "autonomous", config |-> k]} ELSE {}

\* _select_auth: none is a ConfigurationError. Credentials that were only in the environment are
\* dropped from the config when there is a provider.
Select(k, provider, explicit) ==
  CASE provider /\ (k.id \/ k.secret) /\ explicit -> {}
    [] provider /\ ~((k.id \/ k.secret) /\ explicit) ->
         {[mode |-> "governed", config |-> [id |-> FALSE, secret |-> FALSE]]}
    [] ~provider -> IF k.id /\ k.secret THEN {[mode |-> "autonomous", config |-> k]} ELSE {}

\* Axonium.__init__: the client, or none.
Client(s, env) ==
  UNION {Select(k, s.provider, Explicit(s)) :
           k \in IF s.config # {} THEN s.config ELSE Config(s, env)}
===============================================================================
