-------------------------- MODULE OrganizerRowProofs --------------------------
(***************************************************************************)
(* Facts about the operators of OrganizerRow, for every value of its       *)
(* constants.                                                              *)
(***************************************************************************)
EXTENDS OrganizerRow, TLAPS

(* Every Razorpay status has a platform status: the dictionary lookup in   *)
(* map_provider_status_to_kyc_status never fails.                          *)
LEMMA MapStatusType == ASSUME NEW s \in ProviderStatus PROVE MapStatus[s] \in KYCStatus
BY DEF MapStatus, ProviderStatus, KYCStatus

(* A flush by a session whose copy of the row is current writes exactly    *)
(* the session's row.                                                      *)
LEMMA FlushCurrent ==
  ASSUME NEW r \in Row, NEW n \in Row
  PROVE  Flush(r, r, n) = n
BY DEF Flush, Column, Row

(* A flush leaves a row that is well typed.                                *)
LEMMA FlushType ==
  ASSUME NEW d \in Row, NEW l \in Row, NEW n \in Row
  PROVE  Flush(d, l, n) \in Row
BY DEF Flush, Column, Row

(* Assigning well-typed values to the columns a webhook writes.            *)
LEMMA SetProductColumns ==
  ASSUME NEW r \in Row, NEW st \in ProviderStatus, NEW k \in KYCStatus,
         NEW q \in Requirements \cup {NULL}, NEW at \in Nat, NEW b \in BOOLEAN
  PROVE  [r EXCEPT !.provider_status = st, !.kyc_status = k, !.requirements = q,
                   !.provider_synced_at = at, !.activated = b] \in Row
BY DEF Row

LEMMA SetAccountColumns ==
  ASSUME NEW r \in Row, NEW st \in AccountStatus, NEW at \in Nat
  PROVE  [r EXCEPT !.account_status = st, !.account_synced_at = at] \in Row
BY DEF Row
=============================================================================
