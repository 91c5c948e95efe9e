----------------------------- MODULE MCStartup -----------------------------
(* A process that is given a URL, one that is given a secret or both, and   *)
(* an operator's documents: one for each way to name an authority, one that *)
(* names the placeholder beside a secret (config.example.yaml with the      *)
(* secret of the README's hands-on check), one that leaves everything to    *)
(* the defaults and one that is refused.  No property of the run is about   *)
(* liveness, so processes may be interchanged.                              *)
EXTENDS Startup, TLC

Flags(url, secret) == [jwks_url |-> url, shared_secret |-> secret, admin_listen |-> ""]

MCFlagSets == {Flags("url", ""), Flags("", "secret"), Flags("url", "secret")}

Bare ==
  [jwks_url |-> "", dev_hs256_secret |-> "", jwks_file |-> "", allowed_algs |-> Nil,
   admin_bind |-> "", admin_token |-> "", max_envelopes_per_push |-> 0,
   pull_limit_default |-> 0, pull_limit_max |-> 0]

MCDocuments ==
  {Bare,
   [Bare EXCEPT !.jwks_file = "keys", !.pull_limit_max = 2, !.pull_limit_default = 2],
   [Bare EXCEPT !.dev_hs256_secret = "other", !.allowed_algs = {"HS256"}],
   [Bare EXCEPT !.jwks_url = Placeholder, !.dev_hs256_secret = "third",
                !.allowed_algs = {"ES256", "RS256", "HS256"}],
   [Bare EXCEPT !.pull_limit_default = -1]}

Symmetry == Permutations(Procs)
=============================================================================
