----------------------------- MODULE BanClaims -----------------------------
(* What Documentation.md says of the ban list and the code of              *)
(* BanRepository does not do.                                              *)
EXTENDS BanRepository

(* "An IP counts as banned when it has three failed attempts and the last  *)
(* attempt is not older than 30 minutes" (Documentation.md:16): a ban is   *)
(* over when 30 minutes have passed since the last attempt.                *)
BanOverAfterBanTime ==
  \A ip \in Ips : IsBanned(ip) => now - bans[ip].last <= BAN_TIME

=============================================================================
