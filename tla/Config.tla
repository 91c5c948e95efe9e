------------------------------- MODULE Config -------------------------------
(***************************************************************************)
(* The configuration document: what applyDefaults fills in, what validate  *)
(* refuses, what Seed writes on a first run, and what the result means to  *)
(* the parts that read it: whose tokens the verifier trusts and how many   *)
(* rows a pull may ask for.  Fields nothing here depends on are left out;  *)
(* each is filled from the defaults when it is zero.                       *)
(*                                                                         *)
(* A text is "" or its value, a list that is absent is Nil, and an address *)
(* is "loopback", "network" or "malformed".                                *)
(***************************************************************************)
EXTENDS Integers

CONSTANTS
  Placeholder, \* the jwks_url of defaults.yaml
  Nil,         \* an absent list
  Refused      \* the answer to a pull is 400

ASSUME ConfigAssumption == Nil # {"ES256", "RS256", "HS256"}

\* The fields of the Config struct that matter here.
DocumentType ==
  [jwks_url : STRING, dev_hs256_secret : STRING, jwks_file : STRING,
   allowed_algs : {Nil} \cup SUBSET STRING, admin_bind : STRING, admin_token : STRING,
   max_envelopes_per_push : Int, pull_limit_default : Int, pull_limit_max : Int]

Defaults ==
  [jwks_url |-> Placeholder, allowed_algs |-> {"ES256", "RS256"}, admin_bind |-> "loopback",
   max_envelopes_per_push |-> 500, pull_limit_default |-> 100, pull_limit_max |-> 500]

MaxEnvelopesPerPushCeiling == 500

Filled(value, zero, default) == IF value = zero THEN default ELSE value

\* Deviation of JwksURL: other authorities are not looked at.
JwksURLAlways(c) == Filled(c.jwks_url, "", Defaults.jwks_url)

\* The placeholder stands in only for a document that names no authority.
JwksURL(c) ==
  IF c.dev_hs256_secret = "" /\ c.jwks_file = ""
  THEN Filled(c.jwks_url, "", Defaults.jwks_url)
  ELSE c.jwks_url

ApplyDefaults(c) ==
  [c EXCEPT
     !.jwks_url = JwksURL(c),
     !.allowed_algs = Filled(@, Nil, Defaults.allowed_algs),
     !.admin_bind = Filled(@, "", Defaults.admin_bind),
     !.max_envelopes_per_push = Filled(@, 0, Defaults.max_envelopes_per_push),
     !.pull_limit_default = Filled(@, 0, Defaults.pull_limit_default),
     !.pull_limit_max = Filled(@, 0, Defaults.pull_limit_max)]

\* Deviation of Valid: the sign of the default page size is not looked at; the
\* pages of ServesAsConfigured need it.
ValidUnsigned(c) ==
  /\ c.pull_limit_max > 0
  /\ c.pull_limit_default <= c.pull_limit_max
  /\ c.max_envelopes_per_push <= MaxEnvelopesPerPushCeiling
  /\ c.admin_bind # "malformed"
  /\ c.admin_bind = "loopback" \/ c.admin_token # ""

\* validate finds no problem.
Valid(c) ==
  /\ c.pull_limit_default > 0
  /\ c.pull_limit_max > 0
  /\ c.pull_limit_default <= c.pull_limit_max
  /\ c.max_envelopes_per_push <= MaxEnvelopesPerPushCeiling
  /\ c.admin_bind # "malformed"
  /\ c.admin_bind = "loopback" \/ c.admin_token # ""

\* Deviation of SeedAlgs: HS256 is not added for a shared secret.
SeedAlgsDefault(flags) == Defaults.allowed_algs

\* withHS256.
SeedAlgs(flags) ==
  Defaults.allowed_algs \cup IF flags.shared_secret # "" THEN {"HS256"} ELSE {}

\* What a first run is given: one authority, and an address Seed accepts while
\* the token it writes is empty.
Seedable(flags) ==
  /\ (flags.jwks_url = "") # (flags.shared_secret = "")
  /\ flags.admin_listen \in {"", "loopback"}

\* The document Seed builds.
Seed(flags) ==
  [jwks_url |-> flags.jwks_url, dev_hs256_secret |-> flags.shared_secret, jwks_file |-> "",
   allowed_algs |-> SeedAlgs(flags), admin_bind |-> "loopback", admin_token |-> "",
   max_envelopes_per_push |-> Defaults.max_envelopes_per_push,
   pull_limit_default |-> Defaults.pull_limit_default,
   pull_limit_max |-> Defaults.pull_limit_max]
-----------------------------------------------------------------------------
\* Where the verifier takes public keys from: a file goes before a URL.
KeySource(c) == IF c.jwks_file # "" THEN c.jwks_file ELSE c.jwks_url

\* The authorities whose tokens the verifier accepts: keyFunc takes the secret
\* for HS256 and the key set for the other algorithms, and the parser refuses an
\* algorithm that is not allowed.
Trusted(c) ==
  {a \in {c.dev_hs256_secret} : a # "" /\ "HS256" \in c.allowed_algs}
  \cup {a \in {KeySource(c)} : a # "" /\ c.allowed_algs \ {"HS256"} # {}}

\* The number of rows pullHandler takes for limit=asked, or without it for Nil.
PageLimit(c, asked) ==
  LET limit == IF asked = Nil THEN c.pull_limit_default ELSE asked
  IN IF limit = 0 THEN Refused
     ELSE IF limit > c.pull_limit_max THEN c.pull_limit_max
     ELSE limit
=============================================================================
