----------------------------- MODULE MCApiClient -----------------------------
(***************************************************************************)
(* Instances of ApiClient for TLC.                                         *)
(***************************************************************************)
EXTENDS ApiClientProps

CONSTANTS S1, S2

\* A vital git connection without its public key, an object storage, and one that
\* lacks its region.
MCFiles ==
  { [type |-> "git", given |-> {"uri"}, secret |-> Base64(S1), vital |-> TRUE],
    [type |-> "s3", given |-> {"uri", "region", "keyID", "keySecret"},
     secret |-> Base64(S2), vital |-> FALSE],
    [type |-> "s3", given |-> {"uri", "keyID", "keySecret"},
     secret |-> Base64(S2), vital |-> FALSE] }

=============================================================================
