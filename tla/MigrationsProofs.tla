-------------------------- MODULE MigrationsProofs ----------------------------
(***************************************************************************)
(* Theorems about Migrations, for every set of revisions commands may ask  *)
(* for and every number of killed commands.  SchemaAt, defined by          *)
(* recursion, is shown to be the table written out here; the effect of     *)
(* every revision, either way, is a step in that table; and MigrationInv   *)
(* follows a command through its steps.                                    *)
(***************************************************************************)
EXTENDS Migrations, TLAPS

Versions == 0..HeadRevision

(* The schema of each revision, written out.                               *)
Table7721 == {"users", "user_role"}
Table2b73 == Table7721 \cup {"refresh_tokens"}
Table143f == Table2b73 \cup {"otp_verifications", "one code per user"}
Table4f21 == Table143f \cup {"users.is_verified"}
Table9dff == Table2b73 \cup {"users.is_verified", "otp_verifications",
                             "one code per purpose", "otp.purpose", "otppurpose"}
Table89f3 == Table9dff \cup {"otp.attempt_count"}
Organizers == Table89f3 \cup {"organizer_profiles", "events", "ticket_tiers", "kyc_status",
                              "event_status"}
Table6184 == Organizers \cup {"payout_account_id", "payout check on business_name"}
TableEf6c == Organizers \cup {"payout check on business_name", "kyc times",
                              "razorpay_account_id(255)", "kyc_provider_status(50)"}
Kyc       == Organizers \cup {"kyc times", "razorpay_account_id(30)",
                              "kyc_provider_status(30)", "kyc columns", "unique ids",
                              "value checks"}
TableHalf == Kyc \cup {"payout check on business_name", "secrets as varchar"}
KycStates == {"kyc_status.IN_REVIEW", "kyc_status.ACTION_REQUIRED"}
Checked   == Kyc \cup KycStates \cup {"kyc_status index", "payout check on ids",
                                      "status checks"}
TableA2a0 == Checked \cup {"secrets as varchar", "ck_pan_number_format"}
Table442e == Checked \cup {"secrets as text"}
Table1191 == Table442e \cup {"razorpay_webhook_events"}
Table69b6 == Table1191 \cup {"sync times"}

Table ==
  <<{}, Table7721, Table2b73, Table143f, Table4f21, Table9dff, Table89f3, Table89f3,
    Table89f3, Table89f3, Table6184, TableEf6c, TableA2a0, Table442e, Table1191, Table69b6>>

TableAt == [v \in Versions |-> IF v = 0 THEN {} ELSE Table[v]]

(* What revision v makes of a schema, all its parts together.              *)
Reached(v, before) ==
  LET after[k \in 0..Len(Up[v])] ==
        IF k = 0 THEN before ELSE Applied(Up[v][k], after[k - 1])
  IN after[Len(Up[v])]

LEMMA SixteenRevisions == HeadRevision = 16 /\ Versions = 0..16
<1>1. Len(Chain) = 16
  BY DEF Chain
<1> QED
  BY <1>1 DEF HeadRevision, Versions

(* A revision of one part does what its part does.                         *)
LEMMA OnePart ==
  ASSUME NEW v, NEW before, Len(Up[v]) = 1
  PROVE  Reached(v, before) = Applied(Up[v][1], before)
<1> DEFINE body(g) == [k \in 0..1 |-> IF k = 0 THEN before ELSE Applied(Up[v][k], g[k - 1])]
           g0 == [k \in 0..1 |-> IF k = 0 THEN before ELSE Applied(Up[v][1], before)]
           after == CHOOSE g : g = body(g)
<1>1. g0 = body(g0)
  OBVIOUS
<1>2. after = body(after)
  <2> HIDE DEF g0, body
  <2> QED BY <1>1
<1>3. after[0] = before /\ after[1] = Applied(Up[v][1], after[0])
  <2> HIDE DEF after
  <2> QED BY <1>2
<1>4. Reached(v, before) = after[1]
  BY DEF Reached
<1> QED
  BY <1>3, <1>4

LEMMA Positions ==
  /\ At("a7721e7bad93") = 2
  /\ At("618486e2583b") = 11
  /\ At("ef6cfdcf1ade") = 12
  /\ At("a2a0a37d3631") = 13
<1>1. At("a7721e7bad93") = 2
  <2>1. \A i \in 1..16 : Chain[i] = "a7721e7bad93" <=> i = 2
    BY SMT DEF Chain
  <2> QED
    BY <2>1, SixteenRevisions DEF At
<1>2. At("618486e2583b") = 11
  <2>1. \A i \in 1..16 : Chain[i] = "618486e2583b" <=> i = 11
    BY SMT DEF Chain
  <2> QED
    BY <2>1, SixteenRevisions DEF At
<1>3. At("ef6cfdcf1ade") = 12
  <2>1. \A i \in 1..16 : Chain[i] = "ef6cfdcf1ade" <=> i = 12
    BY SMT DEF Chain
  <2> QED
    BY <2>1, SixteenRevisions DEF At
<1>4. At("a2a0a37d3631") = 13
  <2>1. \A i \in 1..16 : Chain[i] = "a2a0a37d3631" <=> i = 13
    BY SMT DEF Chain
  <2> QED
    BY <2>1, SixteenRevisions DEF At
<1> QED
  BY <1>1, <1>2, <1>3, <1>4

(* All revisions but a2a0a37d3631 have one part, on either way.            *)
LEMMA Parts ==
  /\ \A v \in 1..16 : v # 13 => Len(Up[v]) = 1
  /\ Len(Up[13]) = 4
BY DEF Up, EmptyRevision, UpA7721, Up2b73, Up143f, Up4f21, Up9dff, Up89f3, Up6184, UpEf6c,
       UpA2a0, Up442e, Up1191, Up69b6

LEMMA FourParts ==
  ASSUME NEW before
  PROVE  Reached(13, before) =
           Applied(UpA2a0[4], Applied(UpA2a0[3], Applied(UpA2a0[2], Applied(UpA2a0[1], before))))
<1> DEFINE u == UpA2a0
           one == Applied(u[1], before)
           two == Applied(u[2], one)
           three == Applied(u[3], two)
           four == Applied(u[4], three)
           body(g) == [k \in 0..4 |-> IF k = 0 THEN before ELSE Applied(Up[13][k], g[k - 1])]
           g0 == [k \in 0..4 |-> CASE k = 0 -> before [] k = 1 -> one [] k = 2 -> two
                                    [] k = 3 -> three [] k = 4 -> four]
           after == CHOOSE g : g = body(g)
<1>0. Up[13] = u
  BY DEF Up
<1>1. g0 = body(g0)
  <2> HIDE DEF u
  <2>1. \A k \in 0..4 : g0[k] = IF k = 0 THEN before ELSE Applied(u[k], g0[k - 1])
    <3>1. g0[0] = before /\ g0[1] = one /\ g0[2] = two /\ g0[3] = three /\ g0[4] = four
      <4> HIDE DEF one, two, three, four
      <4> QED BY SMT
    <3> HIDE DEF g0
    <3> QED BY <3>1
  <2> QED BY <2>1, <1>0
<1>2. after = body(after)
  <2> HIDE DEF g0, body
  <2> QED BY <1>1
<1>3. after[0] = before /\ \A k \in 1..4 : after[k] = Applied(u[k], after[k - 1])
  <2> HIDE DEF after, u
  <2> QED BY <1>2, <1>0
<1>4. Reached(13, before) = after[4]
  BY Parts DEF Reached
<1>5. after[4] = four
  <2> HIDE DEF after, u
  <2> QED BY <1>3
<1> QED
  BY <1>4, <1>5

(* Table is the schema of each revision: what it says of a revision is     *)
(* what that revision makes of what it says of the one before.             *)
LEMMA TableIsReached ==
  \A v \in 1..16 : TableAt[v] = Reached(v, TableAt[v - 1])
<1>1. TableAt[0] = {}
  BY SixteenRevisions DEF TableAt
<1>2. \A v \in 1..16 : TableAt[v] = Table[v]
  BY SixteenRevisions DEF TableAt
<1>3. \A v \in 1..16 : TableAt[v - 1] = IF v = 1 THEN {} ELSE Table[v - 1]
  BY SixteenRevisions DEF TableAt
<1>4. ASSUME NEW v \in 1..16, v # 13, NEW s, NEW t, Applied(Up[v][1], s) = t
      PROVE  t = Reached(v, s)
  BY <1>4, OnePart, Parts
<1>5. \A s : Applied(EmptyRevision[1], s) = s
  BY DEF Applied, EmptyRevision, Nothing
<1>6. {} = Reached(1, {})
  <2>1. Up[1] = EmptyRevision
    BY DEF Up
  <2> QED BY <2>1, <1>4, <1>5
<1>7. Table7721 = Reached(2, {})
  <2>1. Up[2] = UpA7721
    BY DEF Up
  <2>2. Applied(UpA7721[1], {}) = Table7721
    BY DEF UpA7721, Applied, Adds, Nothing, Table7721
  <2> QED BY <2>1, <2>2, <1>4
<1>8. Table2b73 = Reached(3, Table7721)
  <2>1. Up[3] = Up2b73
    BY DEF Up
  <2>2. Applied(Up2b73[1], Table7721) = Table2b73
    BY DEF Up2b73, Applied, Adds, Nothing, Table7721, Table2b73
  <2> QED BY <2>1, <2>2, <1>4
<1>9. Table143f = Reached(4, Table2b73)
  <2>1. Up[4] = Up143f
    BY DEF Up
  <2>2. Applied(Up143f[1], Table2b73) = Table143f
    BY DEF Up143f, Applied, Adds, Nothing, Table7721, Table2b73, Table143f
  <2> QED BY <2>1, <2>2, <1>4
<1>10. Table4f21 = Reached(5, Table143f)
  <2>1. Up[5] = Up4f21
    BY DEF Up
  <2>2. Applied(Up4f21[1], Table143f) = Table4f21
    BY DEF Up4f21, Applied, Adds, Nothing, Table7721, Table2b73, Table143f, Table4f21
  <2> QED BY <2>1, <2>2, <1>4
<1>11. Table9dff = Reached(6, Table4f21)
  <2>1. Up[6] = Up9dff
    BY DEF Up
  <2>2. Applied(Up9dff[1], Table4f21) = Table9dff
    BY DEF Up9dff, Applied, Swaps, Nothing, Table7721, Table2b73, Table143f, Table4f21, Table9dff
  <2> QED BY <2>1, <2>2, <1>4
<1>12. Table89f3 = Reached(7, Table9dff)
  <2>1. Up[7] = Up89f3
    BY DEF Up
  <2>2. Applied(Up89f3[1], Table9dff) = Table89f3
    BY DEF Up89f3, Applied, Adds, Nothing, Table7721, Table2b73, Table9dff, Table89f3
  <2> QED BY <2>1, <2>2, <1>4
<1>13. Table89f3 = Reached(8, Table89f3)
  <2>1. Up[8] = EmptyRevision
    BY DEF Up
  <2> QED BY <2>1, <1>4, <1>5
<1>14. Table89f3 = Reached(9, Table89f3)
  <2>1. Up[9] = EmptyRevision
    BY DEF Up
  <2> QED BY <2>1, <1>4, <1>5
<1>15. Table89f3 = Reached(10, Table89f3)
  <2>1. Up[10] = EmptyRevision
    BY DEF Up
  <2> QED BY <2>1, <1>4, <1>5
<1>16. Table6184 = Reached(11, Table89f3)
  <2>1. Up[11] = Up6184
    BY DEF Up
  <2>2. Applied(Up6184[1], Table89f3) = Table6184
    BY DEF Up6184, Applied, Adds, Nothing, Table7721, Table2b73, Table9dff, Table89f3, Organizers, Table6184
  <2> QED BY <2>1, <2>2, <1>4
<1>17. TableEf6c = Reached(12, Table6184)
  <2>1. Up[12] = UpEf6c
    BY DEF Up
  <2>2. Applied(UpEf6c[1], Table6184) = TableEf6c
    BY DEF UpEf6c, Applied, Swaps, Nothing, AccountAndStatus, Table7721, Table2b73, Table9dff, Table89f3, Organizers, Table6184, TableEf6c
  <2> QED BY <2>1, <2>2, <1>4
<1>18. Table442e = Reached(14, TableA2a0)
  <2>1. Up[14] = Up442e
    BY DEF Up
  <2>2. Applied(Up442e[1], TableA2a0) = Table442e
    BY DEF Up442e, Applied, Swaps, Nothing, Table7721, Table2b73, Table9dff, Table89f3, Organizers, Kyc, KycStates, Checked, TableA2a0, Table442e
  <2> QED BY <2>1, <2>2, <1>4
<1>19. Table1191 = Reached(15, Table442e)
  <2>1. Up[15] = Up1191
    BY DEF Up
  <2>2. Applied(Up1191[1], Table442e) = Table1191
    BY DEF Up1191, Applied, Adds, Nothing, Table7721, Table2b73, Table9dff, Table89f3, Organizers, Kyc, KycStates, Checked, Table442e, Table1191
  <2> QED BY <2>1, <2>2, <1>4
<1>20. Table69b6 = Reached(16, Table1191)
  <2>1. Up[16] = Up69b6
    BY DEF Up
  <2>2. Applied(Up69b6[1], Table1191) = Table69b6
    BY DEF Up69b6, Applied, Adds, Nothing, Table7721, Table2b73, Table9dff, Table89f3, Organizers, Kyc, KycStates, Checked, Table442e, Table1191, Table69b6
  <2> QED BY <2>1, <2>2, <1>4
<1>21. TableA2a0 = Reached(13, TableEf6c)
  <2>1. Applied(UpA2a0[1], TableEf6c) = TableHalf
    BY DEF UpA2a0, Applied, Swaps, Nothing, AccountAndStatus, KycObjects, TableHalf, TableEf6c,
           Kyc, Organizers, Table89f3, Table9dff, Table2b73, Table7721
  <2>2. Applied(UpA2a0[2], TableHalf) = TableHalf \cup {"kyc_status.IN_REVIEW"}
    BY DEF UpA2a0, Applied, Nothing
  <2>3. Applied(UpA2a0[3], TableHalf \cup {"kyc_status.IN_REVIEW"}) = TableHalf \cup KycStates
    BY DEF UpA2a0, Applied, Nothing, KycStates
  <2>4. Applied(UpA2a0[4], TableHalf \cup KycStates) = TableA2a0
    BY DEF UpA2a0, Applied, Swaps, Nothing, TableHalf, TableA2a0, Kyc, Checked, KycStates,
           StatusObjects, Organizers, Table89f3, Table9dff, Table2b73, Table7721
  <2> QED BY <2>1, <2>2, <2>3, <2>4, FourParts
<1>22. SUFFICES ASSUME NEW v \in 1..16 PROVE TableAt[v] = Reached(v, TableAt[v - 1])
  OBVIOUS
<1> QED
  BY <1>2, <1>3, <1>6, <1>7, <1>8, <1>9, <1>10, <1>11, <1>12, <1>13, <1>14, <1>15, <1>16, <1>17, <1>18, <1>19, <1>20, <1>21 DEF Table

LEMMA SchemaAtTable ==
  \A v \in Versions : SchemaAt[v] = TableAt[v]
<1> DEFINE body(f) == [v \in Versions |-> IF v = 0 THEN {} ELSE Reached(v, f[v - 1])]
           s == CHOOSE f : f = body(f)
<1>1. TableAt = body(TableAt)
  <2>1. TableAt[0] = {}
    BY SixteenRevisions DEF TableAt
  <2>2. \A v \in Versions : TableAt[v] = IF v = 0 THEN {} ELSE Reached(v, TableAt[v - 1])
    BY <2>1, TableIsReached, SixteenRevisions
  <2>3. TableAt = [v \in Versions |-> TableAt[v]]
    BY DEF TableAt
  <2> QED BY <2>2, <2>3
<1>2. s = body(s)
  <2> HIDE DEF body
  <2> QED BY <1>1
<1>3. SchemaAt = s
  BY DEF SchemaAt, Reached, Versions
<1>4. SchemaAt[0] = {} /\ \A v \in 1..16 : SchemaAt[v] = Reached(v, SchemaAt[v - 1])
  <2> HIDE DEF s
  <2> QED BY <1>2, <1>3, SixteenRevisions
<1>5. ASSUME NEW v \in 1..16, SchemaAt[v - 1] = TableAt[v - 1]
      PROVE  SchemaAt[v] = TableAt[v]
  BY <1>4, <1>5, TableIsReached
<1>6. SchemaAt[0] = TableAt[0]
  BY <1>4, SixteenRevisions DEF TableAt
<1>7. SchemaAt[1] = TableAt[1]
  BY <1>5, <1>6
<1>8. SchemaAt[2] = TableAt[2]
  BY <1>5, <1>7
<1>9. SchemaAt[3] = TableAt[3]
  BY <1>5, <1>8
<1>10. SchemaAt[4] = TableAt[4]
  BY <1>5, <1>9
<1>11. SchemaAt[5] = TableAt[5]
  BY <1>5, <1>10
<1>12. SchemaAt[6] = TableAt[6]
  BY <1>5, <1>11
<1>13. SchemaAt[7] = TableAt[7]
  BY <1>5, <1>12
<1>14. SchemaAt[8] = TableAt[8]
  BY <1>5, <1>13
<1>15. SchemaAt[9] = TableAt[9]
  BY <1>5, <1>14
<1>16. SchemaAt[10] = TableAt[10]
  BY <1>5, <1>15
<1>17. SchemaAt[11] = TableAt[11]
  BY <1>5, <1>16
<1>18. SchemaAt[12] = TableAt[12]
  BY <1>5, <1>17
<1>19. SchemaAt[13] = TableAt[13]
  BY <1>5, <1>18
<1>20. SchemaAt[14] = TableAt[14]
  BY <1>5, <1>19
<1>21. SchemaAt[15] = TableAt[15]
  BY <1>5, <1>20
<1>22. SchemaAt[16] = TableAt[16]
  BY <1>5, <1>21
<1> QED
  BY SixteenRevisions, <1>6, <1>7, <1>8, <1>9, <1>10, <1>11, <1>12, <1>13, <1>14, <1>15, <1>16, <1>17, <1>18, <1>19, <1>20, <1>21, <1>22

Landmark ==
  {"users", "user_role", "otp_verifications", "organizer_profiles", "kyc_status",
   "event_status", "razorpay_account_id(255)", "kyc_status.IN_REVIEW",
   "kyc_status.ACTION_REQUIRED", "ck_pan_number_format", "CONSTRAINT_NAME_HERE"}

(* Where the objects the arguments below turn on are there.                *)
LEMMA Landmarks ==
  ASSUME NEW v \in Versions
  PROVE  /\ "users" \in TableAt[v] <=> v >= 2
         /\ "user_role" \in TableAt[v] <=> v >= 2
         /\ "otp_verifications" \in TableAt[v] <=> v >= 4
         /\ "organizer_profiles" \in TableAt[v] <=> v >= 11
         /\ "kyc_status" \in TableAt[v] <=> v >= 11
         /\ "event_status" \in TableAt[v] <=> v >= 11
         /\ "razorpay_account_id(255)" \in TableAt[v] <=> v = 12
         /\ "kyc_status.IN_REVIEW" \in TableAt[v] <=> v >= 13
         /\ "kyc_status.ACTION_REQUIRED" \in TableAt[v] <=> v >= 13
         /\ "ck_pan_number_format" \in TableAt[v] <=> v = 13
         /\ "CONSTRAINT_NAME_HERE" \notin TableAt[v]
<1>0. TableAt[v] = IF v = 0 THEN {} ELSE Table[v]
  BY DEF TableAt
<1>1. CASE v \in {0, 1}
  <2>1. TableAt[v] = {}
    BY <1>0, <1>1 DEF Table
  <2>2. {} \cap Landmark = {}
    BY DEF Landmark
  <2> QED BY <2>1, <2>2, <1>1 DEF Landmark
<1>2. CASE v = 2
  <2>1. TableAt[v] = Table7721
    BY <1>0, <1>2 DEF Table
  <2>2. Table7721 \cap Landmark = {"users", "user_role"}
    BY DEF Landmark, Table7721
  <2> QED BY <2>1, <2>2, <1>2 DEF Landmark
<1>3. CASE v = 3
  <2>1. TableAt[v] = Table2b73
    BY <1>0, <1>3 DEF Table
  <2>2. Table2b73 \cap Landmark = {"users", "user_role"}
    BY DEF Landmark, Table7721, Table2b73
  <2> QED BY <2>1, <2>2, <1>3 DEF Landmark
<1>4. CASE v = 4
  <2>1. TableAt[v] = Table143f
    BY <1>0, <1>4 DEF Table
  <2>2. Table143f \cap Landmark = {"users", "user_role", "otp_verifications"}
    BY DEF Landmark, Table7721, Table2b73, Table143f
  <2> QED BY <2>1, <2>2, <1>4 DEF Landmark
<1>5. CASE v = 5
  <2>1. TableAt[v] = Table4f21
    BY <1>0, <1>5 DEF Table
  <2>2. Table4f21 \cap Landmark = {"users", "user_role", "otp_verifications"}
    BY DEF Landmark, Table7721, Table2b73, Table143f, Table4f21
  <2> QED BY <2>1, <2>2, <1>5 DEF Landmark
<1>6. CASE v = 6
  <2>1. TableAt[v] = Table9dff
    BY <1>0, <1>6 DEF Table
  <2>2. Table9dff \cap Landmark = {"users", "user_role", "otp_verifications"}
    BY DEF Landmark, Table7721, Table2b73, Table9dff
  <2> QED BY <2>1, <2>2, <1>6 DEF Landmark
<1>7. CASE v \in 7..10
  <2>1. TableAt[v] = Table89f3
    BY <1>0, <1>7 DEF Table
  <2>2. Table89f3 \cap Landmark = {"users", "user_role", "otp_verifications"}
    BY DEF Landmark, Table7721, Table2b73, Table9dff, Table89f3
  <2> QED BY <2>1, <2>2, <1>7 DEF Landmark
<1>8. CASE v = 11
  <2>1. TableAt[v] = Table6184
    BY <1>0, <1>8 DEF Table
  <2>2. Table6184 \cap Landmark = {"users", "user_role", "otp_verifications",
           "organizer_profiles", "kyc_status", "event_status"}
    BY DEF Landmark, Table7721, Table2b73, Table9dff, Table89f3, Organizers, Table6184
  <2> QED BY <2>1, <2>2, <1>8 DEF Landmark
<1>9. CASE v = 12
  <2>1. TableAt[v] = TableEf6c
    BY <1>0, <1>9 DEF Table
  <2>2. TableEf6c \cap Landmark = {"users", "user_role", "otp_verifications",
           "organizer_profiles", "kyc_status", "event_status",
           "razorpay_account_id(255)"}
    BY DEF Landmark, Table7721, Table2b73, Table9dff, Table89f3, Organizers, TableEf6c
  <2> QED BY <2>1, <2>2, <1>9 DEF Landmark
<1>10. CASE v = 13
  <2>1. TableAt[v] = TableA2a0
    BY <1>0, <1>10 DEF Table
  <2>2. TableA2a0 \cap Landmark = {"users", "user_role", "otp_verifications",
           "organizer_profiles", "kyc_status", "event_status",
           "kyc_status.IN_REVIEW", "kyc_status.ACTION_REQUIRED",
           "ck_pan_number_format"}
    BY DEF Landmark, Table7721, Table2b73, Table9dff, Table89f3, Organizers, Kyc, KycStates, Checked, TableA2a0
  <2> QED BY <2>1, <2>2, <1>10 DEF Landmark
<1>11. CASE v = 14
  <2>1. TableAt[v] = Table442e
    BY <1>0, <1>11 DEF Table
  <2>2. Table442e \cap Landmark = {"users", "user_role", "otp_verifications",
           "organizer_profiles", "kyc_status", "event_status",
           "kyc_status.IN_REVIEW", "kyc_status.ACTION_REQUIRED"}
    BY DEF Landmark, Table7721, Table2b73, Table9dff, Table89f3, Organizers, Kyc, KycStates, Checked, Table442e
  <2> QED BY <2>1, <2>2, <1>11 DEF Landmark
<1>12. CASE v = 15
  <2>1. TableAt[v] = Table1191
    BY <1>0, <1>12 DEF Table
  <2>2. Table1191 \cap Landmark = {"users", "user_role", "otp_verifications",
           "organizer_profiles", "kyc_status", "event_status",
           "kyc_status.IN_REVIEW", "kyc_status.ACTION_REQUIRED"}
    BY DEF Landmark, Table7721, Table2b73, Table9dff, Table89f3, Organizers, Kyc, KycStates, Checked, Table442e, Table1191
  <2> QED BY <2>1, <2>2, <1>12 DEF Landmark
<1>13. CASE v = 16
  <2>1. TableAt[v] = Table69b6
    BY <1>0, <1>13 DEF Table
  <2>2. Table69b6 \cap Landmark = {"users", "user_role", "otp_verifications",
           "organizer_profiles", "kyc_status", "event_status",
           "kyc_status.IN_REVIEW", "kyc_status.ACTION_REQUIRED"}
    BY DEF Landmark, Table7721, Table2b73, Table9dff, Table89f3, Organizers, Kyc, KycStates, Checked, Table442e, Table1191, Table69b6
  <2> QED BY <2>1, <2>2, <1>13 DEF Landmark
<1> QED
  BY SixteenRevisions, <1>1, <1>2, <1>3, <1>4, <1>5, <1>6, <1>7, <1>8, <1>9, <1>10, <1>11, <1>12, <1>13

(* What lingers at a revision is not of its schema, lingers before it, and *)
(* what lingers before it lingers or is of its schema.                     *)
LEMMA LingeringTypes ==
  /\ \A v \in Versions : TableAt[v] \cap Lingering(v) = {}
  /\ \A v \in 1..16 : /\ Lingering(v) \subseteq Lingering(v - 1)
                      /\ Lingering(v - 1) \subseteq Lingering(v) \cup TableAt[v]
<1>1. \A v \in Versions : TableAt[v] \cap Lingering(v) = {}
  BY Landmarks, Positions, SixteenRevisions DEF Lingering
<1>2. ASSUME NEW v \in 1..16
      PROVE  /\ Lingering(v) \subseteq Lingering(v - 1)
             /\ Lingering(v - 1) \subseteq Lingering(v) \cup TableAt[v]
  <2>1. v \in Versions
    BY SixteenRevisions
  <2> QED BY <2>1, Landmarks, Positions DEF Lingering
<1> QED
  BY <1>1, <1>2

(* A revision's upgrade leads from its predecessor's schema to its own,    *)
(* whatever lingers.                                                       *)
LEMMA UpgradeSchema ==
  ASSUME NEW v \in 1..16, v # 13, NEW s, s \ Lingering(v - 1) = TableAt[v - 1]
  PROVE  Applied(Up[v][1], s) \ Lingering(v) = TableAt[v]
<1>1. TableAt[v] = Applied(Up[v][1], TableAt[v - 1])
  BY TableIsReached, OnePart, Parts
<1>2. v \in Versions
  BY SixteenRevisions
<1> QED
  BY <1>1, <1>2, LingeringTypes DEF Applied

(* A revision's downgrade leaves its predecessor's schema and types that   *)
(* linger; 442eac7b06a4 gives back a check under another name.             *)
LEMMA DowngradeTable ==
  /\ \A v \in 1..16 : v # 14 =>
       /\ TableAt[v - 1] \subseteq Applied(Down[v][1], TableAt[v])
       /\ Applied(Down[v][1], TableAt[v]) \subseteq TableAt[v - 1] \cup Lingering(v - 1)
  /\ Applied(Down[14][1], TableAt[14])
       = (TableAt[13] \ {"ck_pan_number_format"}) \cup {"CONSTRAINT_NAME_HERE"}
<1> DEFINE Undone(v, before, here) ==
             /\ before \subseteq Applied(Down[v][1], here)
             /\ Applied(Down[v][1], here) \subseteq before \cup Lingering(v - 1)
<1>1. \A v \in 1..16 : TableAt[v] = Table[v]
  BY SixteenRevisions DEF TableAt
<1>2. \A v \in 1..16 : TableAt[v - 1] = IF v = 1 THEN {} ELSE Table[v - 1]
  BY SixteenRevisions DEF TableAt
<1>3. \A s : Applied(EmptyRevision[1], s) = s
  BY DEF Applied, EmptyRevision, Nothing
<1>4. Undone(1, {}, {})
  <2>1. Down[1] = EmptyRevision
    BY DEF Down
  <2> QED BY <2>1, <1>3
<1>5. Undone(2, {}, Table7721)
  <2>1. Down[2] = DownA7721
    BY DEF Down
  <2>2. Applied(DownA7721[1], Table7721) = {"user_role"}
    BY DEF DownA7721, Applied, Drops, Nothing, Table7721
  <2>3. Lingering(1) = {"user_role", "kyc_status", "event_status"} \cup KycStates
    BY Positions DEF Lingering, KycStates
  <2> QED BY <2>1, <2>2, <2>3
<1>6. Undone(3, Table7721, Table2b73)
  <2>1. Down[3] = Down2b73
    BY DEF Down
  <2>2. Applied(Down2b73[1], Table2b73) = Table7721
    BY DEF Down2b73, Applied, Drops, Nothing, Table7721, Table2b73
  <2> QED BY <2>1, <2>2
<1>7. Undone(4, Table2b73, Table143f)
  <2>1. Down[4] = Down143f
    BY DEF Down
  <2>2. Applied(Down143f[1], Table143f) = Table2b73
    BY DEF Down143f, Applied, Drops, Nothing, Table7721, Table2b73, Table143f
  <2> QED BY <2>1, <2>2
<1>8. Undone(5, Table143f, Table4f21)
  <2>1. Down[5] = Down4f21
    BY DEF Down
  <2>2. Applied(Down4f21[1], Table4f21) = Table143f
    BY DEF Down4f21, Applied, Drops, Nothing, Table7721, Table2b73, Table143f,
           Table4f21
  <2> QED BY <2>1, <2>2
<1>9. Undone(6, Table4f21, Table9dff)
  <2>1. Down[6] = Down9dff
    BY DEF Down
  <2>2. Applied(Down9dff[1], Table9dff) = Table4f21
    BY DEF Down9dff, Applied, Swaps, Nothing, Table7721, Table2b73, Table143f,
           Table4f21, Table9dff
  <2> QED BY <2>1, <2>2
<1>10. Undone(7, Table9dff, Table89f3)
  <2>1. Down[7] = Down89f3
    BY DEF Down
  <2>2. Applied(Down89f3[1], Table89f3) = Table9dff
    BY DEF Down89f3, Applied, Drops, Nothing, Table7721, Table2b73, Table9dff,
           Table89f3
  <2> QED BY <2>1, <2>2
<1>11. Undone(8, Table89f3, Table89f3)
  <2>1. Down[8] = EmptyRevision
    BY DEF Down
  <2> QED BY <2>1, <1>3
<1>12. Undone(9, Table89f3, Table89f3)
  <2>1. Down[9] = EmptyRevision
    BY DEF Down
  <2> QED BY <2>1, <1>3
<1>13. Undone(10, Table89f3, Table89f3)
  <2>1. Down[10] = EmptyRevision
    BY DEF Down
  <2> QED BY <2>1, <1>3
<1>14. Undone(11, Table89f3, Table6184)
  <2>1. Down[11] = Down6184
    BY DEF Down
  <2>2. Applied(Down6184[1], Table6184) = Table89f3 \cup {"kyc_status", "event_status"}
    BY DEF Down6184, Applied, Drops, Nothing, Table7721, Table2b73, Table9dff,
           Table89f3, Organizers, Table6184
  <2>3. Lingering(10) = {"kyc_status", "event_status"} \cup KycStates
    BY Positions DEF Lingering, KycStates
  <2> QED BY <2>1, <2>2, <2>3
<1>15. Undone(12, Table6184, TableEf6c)
  <2>1. Down[12] = DownEf6c
    BY DEF Down
  <2>2. Applied(DownEf6c[1], TableEf6c) = Table6184
    BY DEF DownEf6c, Applied, Swaps, Nothing, AccountAndStatus, Table7721,
           Table2b73, Table9dff, Table89f3, Organizers, Table6184, TableEf6c
  <2> QED BY <2>1, <2>2
<1>16. Undone(13, TableEf6c, TableA2a0)
  <2>1. Down[13] = DownA2a0
    BY DEF Down
  <2>2. Applied(DownA2a0[1], TableA2a0) = TableEf6c \cup KycStates
    BY DEF DownA2a0, Applied, Swaps, Nothing, AccountAndStatus, StatusObjects,
           KycObjects, Table7721, Table2b73, Table9dff, Table89f3, Organizers,
           TableEf6c, Kyc, KycStates, Checked, TableA2a0
  <2>3. Lingering(12) = KycStates
    BY Positions DEF Lingering, KycStates
  <2> QED BY <2>1, <2>2, <2>3
<1>17. Undone(15, Table442e, Table1191)
  <2>1. Down[15] = Down1191
    BY DEF Down
  <2>2. Applied(Down1191[1], Table1191) = Table442e
    BY DEF Down1191, Applied, Drops, Nothing, Table7721, Table2b73, Table9dff,
           Table89f3, Organizers, Kyc, KycStates, Checked, Table442e, Table1191
  <2> QED BY <2>1, <2>2
<1>18. Undone(16, Table1191, Table69b6)
  <2>1. Down[16] = Down69b6
    BY DEF Down
  <2>2. Applied(Down69b6[1], Table69b6) = Table1191
    BY DEF Down69b6, Applied, Drops, Nothing, Table7721, Table2b73, Table9dff,
           Table89f3, Organizers, Kyc, KycStates, Checked, Table442e, Table1191,
           Table69b6
  <2> QED BY <2>1, <2>2
<1>19. Applied(Down[14][1], Table442e)
          = (TableA2a0 \ {"ck_pan_number_format"}) \cup {"CONSTRAINT_NAME_HERE"}
  <2>1. Down[14] = Down442e
    BY DEF Down
  <2>2. Applied(Down442e[1], Table442e)
          = (TableA2a0 \ {"ck_pan_number_format"}) \cup {"CONSTRAINT_NAME_HERE"}
    BY DEF Down442e, Applied, Swaps, Nothing, Table7721, Table2b73, Table9dff,
           Table89f3, Organizers, Kyc, KycStates, Checked, TableA2a0, Table442e
  <2> QED BY <2>1, <2>2
<1>20. ASSUME NEW v \in 1..16, v # 14
      PROVE  Undone(v, TableAt[v - 1], TableAt[v])
  <2> HIDE DEF Undone
  <2> QED BY <1>1, <1>2, <1>20, <1>4, <1>5, <1>6, <1>7, <1>8, <1>9, <1>10, <1>11, <1>12, <1>13, <1>14, <1>15, <1>16, <1>17, <1>18 DEF Table
<1>21. Table[14] = Table442e /\ Table[13] = TableA2a0
  BY DEF Table
<1> QED
  BY <1>1, <1>19, <1>20, <1>21

LEMMA DowngradeSchema ==
  ASSUME NEW v \in 1..16, v # 14, NEW s, s \ Lingering(v) = TableAt[v]
  PROVE  Applied(Down[v][1], s) \ Lingering(v - 1) = TableAt[v - 1]
<1>1. /\ TableAt[v - 1] \subseteq Applied(Down[v][1], TableAt[v])
      /\ Applied(Down[v][1], TableAt[v]) \subseteq TableAt[v - 1] \cup Lingering(v - 1)
  BY DowngradeTable
<1>2. v - 1 \in Versions
  BY SixteenRevisions
<1>3. TableAt[v - 1] \cap Lingering(v - 1) = {} /\ Lingering(v) \subseteq Lingering(v - 1)
  BY <1>2, LingeringTypes
<1> QED
  BY <1>1, <1>3 DEF Applied

(***************************************************************************)
(* The inductive invariant.                                                *)
(***************************************************************************)

(* Everything there is at some revision or between two.                    *)
Objects ==
  {"CONSTRAINT_NAME_HERE"} \cup TableHalf
    \cup UNION {TableAt[v] \cup Lingering(v) : v \in Versions}

Database == [schema  : SUBSET Objects,
             version : Versions,
             users   : BOOLEAN,
             codes   : SUBSET Purposes,
             profile : Profile \cup {NULL}]

(* The three ways a schema may stand to its version.                       *)
Settled(d) == d.schema \ Lingering(d.version) = SchemaAt[d.version]

Halfway(d) ==
  /\ d.version = At("ef6cfdcf1ade")
  /\ FirstHalf \subseteq d.schema
  /\ d.schema \ Lingering(d.version) = FirstHalf

Renamed(d) ==
  /\ d.version = At("a2a0a37d3631")
  /\ "CONSTRAINT_NAME_HERE" \in d.schema
  /\ d.schema \ {"CONSTRAINT_NAME_HERE"}
       = SchemaAt[At("a2a0a37d3631")] \ {"ck_pan_number_format"}

Follows(d) == Settled(d) \/ Halfway(d) \/ Renamed(d)

(* A command is past the first part of a revision only on its way up       *)
(* through a2a0a37d3631, with what the parts before have added.            *)
BetweenParts ==
  part # 1 =>
    /\ cmd.way = "up" /\ cmd.to > At("ef6cfdcf1ade")
    /\ Halfway(tx)
    /\ part > 2 => "kyc_status.IN_REVIEW" \in tx.schema
    /\ part > 3 => "kyc_status.ACTION_REQUIRED" \in tx.schema

(* A database the constraints and alembic_version tell the truth about.    *)
Sound(d) == d \in Database /\ Placed(d) /\ Fits(d) /\ Follows(d)

(* What is committed and what the running command sees are both sound: the *)
(* second is what the first becomes.                                       *)
MigrationInv ==
  /\ Sound(db) /\ Sound(tx)
  /\ BetweenParts
  /\ cmd \in [way : {"none", "up", "down"}, to : Versions]
  /\ part \in 1..4
  /\ kills \in 0..MaxKills
  /\ cmd = Idle => tx = db

LEMMA FirstHalfTable == SchemaAt[12] = TableEf6c /\ FirstHalf = TableHalf
<1>1. SchemaAt[12] = TableEf6c
  <2>1. TableAt[12] = Table[12]
    BY SixteenRevisions DEF TableAt
  <2> QED BY <2>1, SchemaAtTable, SixteenRevisions DEF Table
<1>2. Applied(UpA2a0[1], TableEf6c) = TableHalf
  BY DEF UpA2a0, Applied, Swaps, Nothing, AccountAndStatus, KycObjects, TableHalf, TableEf6c,
         Kyc, Organizers, Table89f3, Table9dff, Table2b73, Table7721
<1> QED
  BY <1>1, <1>2, Positions DEF FirstHalf

LEMMA ObjectsOfTables ==
  /\ \A v \in Versions : TableAt[v] \cup Lingering(v) \subseteq Objects
  /\ TableHalf \cup {"CONSTRAINT_NAME_HERE"} \subseteq Objects
BY DEF Objects

(* The halves of a2a0a37d3631.                                             *)
LEMMA HalfObjects ==
  /\ "users" \in TableHalf /\ "razorpay_account_id(255)" \notin TableHalf
  /\ TableHalf \cap KycStates = {}
  /\ Lingering(12) = KycStates
<1>1. "users" \in TableHalf
  BY DEF TableHalf, Kyc, Organizers, Table89f3, Table9dff, Table2b73, Table7721
<1>2. /\ "razorpay_account_id(255)" \notin TableHalf
      /\ TableHalf \cap KycStates = {}
  BY DEF TableHalf, Kyc, Organizers, Table89f3, Table9dff, Table2b73, Table7721, KycStates
<1>3. Lingering(12) = KycStates
  BY Positions DEF Lingering, KycStates
<1> QED
  BY <1>1, <1>2, <1>3

LEMMA SettledTable ==
  ASSUME NEW d, d.version \in Versions
  PROVE  Settled(d) <=> d.schema \ Lingering(d.version) = TableAt[d.version]
BY SchemaAtTable DEF Settled

LEMMA HalfwayTable ==
  ASSUME NEW d
  PROVE  Halfway(d) <=> /\ d.version = 12
                        /\ TableHalf \subseteq d.schema
                        /\ d.schema \subseteq TableHalf \cup KycStates
<1>1. Halfway(d) <=> /\ d.version = 12
                     /\ TableHalf \subseteq d.schema
                     /\ d.schema \ Lingering(d.version) = TableHalf
  BY Positions, FirstHalfTable DEF Halfway
<1> QED
  BY <1>1, HalfObjects

LEMMA RenamedTable ==
  ASSUME NEW d
  PROVE  Renamed(d) <=> /\ d.version = 13
                        /\ "CONSTRAINT_NAME_HERE" \in d.schema
                        /\ d.schema \ {"CONSTRAINT_NAME_HERE"}
                             = TableAt[13] \ {"ck_pan_number_format"}
<1>1. SchemaAt[13] = TableAt[13]
  BY SchemaAtTable, SixteenRevisions
<1> QED
  BY <1>1, Positions DEF Renamed

(* The tables a code or a profile is in come with the users they refer to. *)
LEMMA TablesOfRows ==
  ASSUME NEW d, d.version \in Versions, Follows(d)
  PROVE  /\ d.schema \subseteq Objects
         /\ "otp_verifications" \in d.schema => "users" \in d.schema
         /\ "organizer_profiles" \in d.schema => "users" \in d.schema
<1>1. CASE Settled(d)
  <2>1. d.schema \ Lingering(d.version) = TableAt[d.version]
    BY <1>1, SettledTable
  <2>2. {"otp_verifications", "organizer_profiles"} \cap Lingering(d.version) = {}
    BY DEF Lingering
  <2>3. d.schema \subseteq Objects
    BY <2>1, ObjectsOfTables
  <2>4. "otp_verifications" \in d.schema \/ "organizer_profiles" \in d.schema => d.version >= 4
    BY <2>1, <2>2, Landmarks, SixteenRevisions
  <2>5. d.version >= 4 => "users" \in d.schema
    BY <2>1, Landmarks, SixteenRevisions
  <2> QED BY <2>3, <2>4, <2>5
<1>2. CASE Halfway(d)
  <2>1. TableHalf \subseteq d.schema /\ d.schema \subseteq TableHalf \cup KycStates
    BY <1>2, HalfwayTable
  <2>2. KycStates \subseteq Objects
    BY SixteenRevisions, HalfObjects, ObjectsOfTables
  <2>3. TableHalf \subseteq Objects /\ "users" \in TableHalf
    BY HalfObjects, ObjectsOfTables
  <2> QED BY <2>1, <2>2, <2>3
<1>3. CASE Renamed(d)
  <2>1. d.schema \ {"CONSTRAINT_NAME_HERE"} = TableAt[13] \ {"ck_pan_number_format"}
    BY <1>3, RenamedTable
  <2>2. 13 \in Versions
    BY SixteenRevisions
  <2>3. "users" \in TableAt[13] /\ TableAt[13] \subseteq Objects
    BY <2>2, Landmarks, ObjectsOfTables
  <2>4. "CONSTRAINT_NAME_HERE" \in Objects
    BY ObjectsOfTables
  <2> QED BY <2>1, <2>3, <2>4
<1> QED
  BY <1>1, <1>2, <1>3 DEF Follows

(***************************************************************************)
(* Parts of revisions.                                                     *)
(***************************************************************************)

Providers == {"created", "requested", "activated", "rejected", NULL}

(* An UPDATE leaves a provider status behind.                              *)
Stores(p) == \A u \in p.updates : u[2] \in Providers

LEMMA PartsStore ==
  /\ \A v \in 1..16 : Stores(Down[v][1]) /\ (v # 13 => Stores(Up[v][1]))
  /\ \A k \in 1..4 : Stores(Up[13][k])
<1>1. Stores(EmptyRevision[1])
  BY DEF Stores, EmptyRevision, Nothing
<1>2. /\ Stores(UpA7721[1]) /\ Stores(Up2b73[1]) /\ Stores(Up143f[1]) /\ Stores(Up4f21[1])
      /\ Stores(Up9dff[1]) /\ Stores(Up89f3[1]) /\ Stores(Up6184[1]) /\ Stores(UpEf6c[1])
      /\ Stores(Up442e[1]) /\ Stores(Up1191[1]) /\ Stores(Up69b6[1])
  BY DEF Stores, Adds, Swaps, Nothing, UpA7721, Up2b73, Up143f, Up4f21, Up9dff, Up89f3, Up6184,
         UpEf6c, Up442e, Up1191, Up69b6
<1>3. /\ Stores(DownA7721[1]) /\ Stores(Down2b73[1]) /\ Stores(Down143f[1])
      /\ Stores(Down4f21[1]) /\ Stores(Down9dff[1]) /\ Stores(Down89f3[1])
      /\ Stores(Down6184[1]) /\ Stores(DownEf6c[1]) /\ Stores(Down442e[1])
      /\ Stores(Down1191[1]) /\ Stores(Down69b6[1])
  BY DEF Stores, Drops, Swaps, Nothing, DownA7721, Down2b73, Down143f, Down4f21, Down9dff,
         Down89f3, Down6184, DownEf6c, Down442e, Down1191, Down69b6
<1>4. Stores(UpA2a0[1]) /\ Stores(UpA2a0[2]) /\ Stores(UpA2a0[3]) /\ Stores(UpA2a0[4])
  <2>1. UpA2a0[1].updates = {<<"created", "requested">>, <<"rejected", NULL>>}
    BY DEF Swaps, Nothing, UpA2a0
  <2>2. UpA2a0[2].updates = {} /\ UpA2a0[3].updates = {} /\ UpA2a0[4].updates = {}
    BY DEF Swaps, Nothing, UpA2a0
  <2> QED BY <2>1, <2>2 DEF Stores, Providers
<1>5. Stores(DownA2a0[1])
  <2>1. DownA2a0[1].updates = {<<"requested", "created">>}
    BY DEF Swaps, Nothing, DownA2a0
  <2> QED BY <2>1 DEF Stores, Providers
<1>6. \A k \in 1..4 : Stores(Up[13][k])
  BY <1>4 DEF Up
<1>7. ASSUME NEW v \in 1..16, v # 13 PROVE Stores(Up[v][1])
  BY <1>1, <1>2, <1>7 DEF Up
<1>8. ASSUME NEW v \in 1..16 PROVE Stores(Down[v][1])
  BY <1>1, <1>3, <1>5 DEF Down
<1> QED
  BY <1>6, <1>7, <1>8

(* What a part leaves of a database is a database.                         *)
LEMMA AfterPart ==
  ASSUME NEW d \in Database, NEW p, Stores(p)
  PROVE  LET s == Applied(p, d.schema)
         IN /\ Kept(p, s, d.profile) \in Profile \cup {NULL}
            /\ After(p, d)
                 = [schema  |-> s,
                    version |-> d.version,
                    users   |-> d.users /\ "users" \in s,
                    codes   |-> IF "otp_verifications" \in s THEN d.codes ELSE {},
                    profile |-> Kept(p, s, d.profile)]
<1> DEFINE s == Applied(p, d.schema)
<1>1. ASSUME NEW r \in Profile PROVE Kept(p, s, r) \in Profile \cup {NULL}
  <2>1. Updated(p, r.provider) \in Providers
    <3>1. CASE \E u \in p.updates : u[1] = r.provider
      <4>1. PICK u \in p.updates : u = CHOOSE x \in p.updates : x[1] = r.provider
        BY <3>1
      <4> QED BY <3>1, <4>1 DEF Updated, Stores
    <3>2. CASE ~\E u \in p.updates : u[1] = r.provider
      BY <3>2 DEF Updated, Profile, Providers
    <3> QED BY <3>1, <3>2
  <2> HIDE DEF s
  <2> QED BY <2>1 DEF Kept, Profile, Providers
<1>2. Kept(p, s, d.profile) \in Profile \cup {NULL}
  <2>1. d.profile \in Profile \cup {NULL}
    BY DEF Database
  <2>2. CASE d.profile = NULL
    BY <2>2 DEF Kept
  <2> QED BY <1>1, <2>1, <2>2
<1>3. After(p, d)
        = [schema  |-> s,
           version |-> d.version,
           users   |-> d.users /\ "users" \in s,
           codes   |-> IF "otp_verifications" \in s THEN d.codes ELSE {},
           profile |-> Kept(p, s, d.profile)]
  <2> DEFINE u == d.users /\ "users" \in s
             c == IF "otp_verifications" \in s THEN d.codes ELSE {}
             k == Kept(p, s, d.profile)
  <2>1. After(p, d) = [d EXCEPT !.schema = s, !.users = u, !.codes = c, !.profile = k]
    BY DEF After
  <2> HIDE DEF s, u, c, k
  <2> DEFINE l == [d EXCEPT !.schema = s, !.users = u, !.codes = c, !.profile = k]
             r == [schema |-> s, version |-> d.version, users |-> u, codes |-> c, profile |-> k]
  <2>2. DOMAIN l = {"schema", "version", "users", "codes", "profile"} /\ DOMAIN r = DOMAIN l
    BY DEF Database
  <2>3. /\ l.schema = r.schema /\ l.version = r.version /\ l.users = r.users
        /\ l.codes = r.codes /\ l.profile = r.profile
    BY DEF Database
  <2>4. l = [f \in DOMAIN l |-> l[f]] /\ r = [f \in DOMAIN r |-> r[f]]
    BY DEF Database
  <2>5. l = r
    <3> HIDE DEF l, r
    <3> QED BY <2>2, <2>3, <2>4
  <2> QED BY <2>1, <2>5 DEF u, c, k
<1> QED
  BY <1>2, <1>3

Moved(p, d, w) == [After(p, d) EXCEPT !.version = w]

LEMMA MovedRecord ==
  ASSUME NEW d \in Database, NEW p, Stores(p), NEW w
  PROVE  LET s == Applied(p, d.schema)
         IN Moved(p, d, w)
              = [schema  |-> s,
                 version |-> w,
                 users   |-> d.users /\ "users" \in s,
                 codes   |-> IF "otp_verifications" \in s THEN d.codes ELSE {},
                 profile |-> Kept(p, s, d.profile)]
<1> DEFINE s == Applied(p, d.schema)
           u == d.users /\ "users" \in s
           c == IF "otp_verifications" \in s THEN d.codes ELSE {}
           k == Kept(p, s, d.profile)
<1>1. After(p, d)
        = [schema |-> s, version |-> d.version, users |-> u, codes |-> c, profile |-> k]
  BY AfterPart
<1> HIDE DEF s, u, c, k
<1>2. Moved(p, d, w) = [schema |-> s, version |-> w, users |-> u, codes |-> c, profile |-> k]
  BY <1>1 DEF Moved
<1> QED
  BY <1>2 DEF s, u, c, k

(* A part that is possible leaves rows where their tables are.             *)
LEMMA MovedDatabase ==
  ASSUME NEW d \in Database, Placed(d), NEW p, Stores(p), Possible(p, d),
         NEW w \in Versions, NEW e, e = Moved(p, d, w), Follows(e)
  PROVE  e \in Database /\ Placed(e) /\ Fits(e)
<1> DEFINE s == Applied(p, d.schema)
<1>1. /\ e = [schema  |-> s,
              version |-> w,
              users   |-> d.users /\ "users" \in s,
              codes   |-> IF "otp_verifications" \in s THEN d.codes ELSE {},
              profile |-> Kept(p, s, d.profile)]
      /\ Kept(p, s, d.profile) \in Profile \cup {NULL}
  BY AfterPart, MovedRecord
<1>2. /\ e.schema = s /\ e.version = w
      /\ e.users = (d.users /\ "users" \in s)
      /\ e.codes = IF "otp_verifications" \in s THEN d.codes ELSE {}
      /\ e.profile = Kept(p, s, d.profile)
  <2> HIDE DEF s
  <2> QED BY <1>1
<1>3. /\ s \subseteq Objects
      /\ "otp_verifications" \in s => "users" \in s
      /\ "organizer_profiles" \in s => "users" \in s
  BY <1>2, TablesOfRows
<1>4. e \in Database
  <2>1. e = [schema |-> s, version |-> w, users |-> e.users, codes |-> e.codes,
             profile |-> e.profile]
    <3> HIDE DEF s
    <3> QED BY <1>1, <1>2
  <2>2. e.users \in BOOLEAN /\ e.codes \in SUBSET Purposes /\ e.profile \in Profile \cup {NULL}
    <3> HIDE DEF s
    <3> QED BY <1>1, <1>2 DEF Database
  <2> HIDE DEF s
  <2> QED BY <2>1, <2>2, <1>3 DEF Database
<1>5. Placed(e)
  <2>1. e.users => "users" \in e.schema
    BY <1>2
  <2>2. e.codes # {} => "otp_verifications" \in e.schema /\ e.users
    BY <1>2, <1>3 DEF Placed
  <2>3. ASSUME e.profile # NULL
        PROVE  /\ "organizer_profiles" \in e.schema /\ e.users
               /\ e.profile.provider # NULL => "kyc times" \in e.schema
               /\ e.profile.details # "none" => "kyc columns" \in e.schema
    <3>1. d.profile # NULL /\ "organizer_profiles" \in s
      <4> HIDE DEF s
      <4> QED BY <2>3, <1>2 DEF Kept
    <3>2. d.profile \in Profile /\ d.users
      BY <3>1 DEF Database, Placed
    <3>3. /\ e.profile.provider # NULL => "kyc times" \in s
          /\ e.profile.details # "none" => "kyc columns" \in s
      <4> DEFINE r == d.profile
                 provider == IF "kyc times" \in s THEN Updated(p, r.provider) ELSE NULL
                 details == IF "kyc columns" \in s THEN r.details ELSE "none"
      <4>1. e.profile = [r EXCEPT !.provider = provider, !.details = details]
        <5> HIDE DEF s
        <5> QED BY <3>1, <1>2 DEF Kept
      <4> HIDE DEF provider, details, s, r
      <4>2. e.profile.provider = provider /\ e.profile.details = details
        BY <4>1, <3>2 DEF Profile, r
      <4> QED BY <4>2 DEF provider, details
    <3> QED BY <3>1, <3>2, <3>3, <1>2, <1>3
  <2> QED BY <2>1, <2>2, <2>3 DEF Placed
<1>6. Fits(e)
  <2>1. Fits(After(p, d))
    BY DEF Possible
  <2>2. After(p, d)
          = [schema  |-> s,
             version |-> d.version,
             users   |-> d.users /\ "users" \in s,
             codes   |-> IF "otp_verifications" \in s THEN d.codes ELSE {},
             profile |-> Kept(p, s, d.profile)]
    BY AfterPart
  <2>3. /\ After(p, d).schema = s
        /\ After(p, d).codes = e.codes
        /\ After(p, d).profile = e.profile
    <3> HIDE DEF s
    <3> QED BY <2>2, <1>2
  <2> QED BY <2>1, <2>3, <1>2 DEF Fits
<1> QED
  BY <1>4, <1>5, <1>6

(* The two databases that need a hand stay as they are: neither way has a  *)
(* statement that works on them.                                           *)
LEMMA NeedsAHand ==
  ASSUME NEW d
  PROVE  /\ Halfway(d) => /\ d.version = 12
                          /\ ~Possible(Up[13][1], d) /\ ~Possible(Down[12][1], d)
         /\ Renamed(d) => /\ d.version = 13
                          /\ ~Possible(Up[14][1], d) /\ ~Possible(Down[13][1], d)
<1>1. Up[13] = UpA2a0 /\ Down[12] = DownEf6c /\ Up[14] = Up442e /\ Down[13] = DownA2a0
  BY DEF Up, Down
<1>2. "razorpay_account_id(255)" \in UpA2a0[1].drops
  BY DEF UpA2a0, Swaps, Nothing, AccountAndStatus
<1>3. "razorpay_account_id(255)" \in DownEf6c[1].drops
  BY DEF DownEf6c, Swaps, Nothing, AccountAndStatus
<1>4. "ck_pan_number_format" \in Up442e[1].drops
  BY DEF Up442e, Swaps, Nothing
<1>5. "ck_pan_number_format" \in DownA2a0[1].drops
  BY DEF DownA2a0, Swaps, Nothing, StatusObjects
<1>6. ASSUME Halfway(d)
      PROVE  d.version = 12 /\ "razorpay_account_id(255)" \notin d.schema
  <2>1. d.version = 12 /\ d.schema \subseteq TableHalf \cup KycStates
    BY <1>6, HalfwayTable
  <2>2. "razorpay_account_id(255)" \notin KycStates
    BY DEF KycStates
  <2> QED BY <2>1, <2>2, HalfObjects
<1>7. ASSUME Renamed(d)
      PROVE  d.version = 13 /\ "ck_pan_number_format" \notin d.schema
  BY <1>7, RenamedTable
<1> QED
  BY <1>1, <1>2, <1>3, <1>4, <1>5, <1>6, <1>7 DEF Possible, Runs

(***************************************************************************)
(* The steps.                                                              *)
(***************************************************************************)

LEMMA MigrationInit == Init => MigrationInv
<1> SUFFICES ASSUME Init PROVE MigrationInv
  OBVIOUS
<1>1. Empty \in Database /\ Empty.version = 0 /\ Empty.schema = {}
  BY SixteenRevisions DEF Empty, Database
<1>2. Settled(Empty)
  <2>1. TableAt[0] = {}
    BY SixteenRevisions DEF TableAt
  <2>2. 0 \in Versions
    BY SixteenRevisions
  <2> QED BY <1>1, <2>1, <2>2, SettledTable
<1>3. Placed(Empty) /\ Fits(Empty)
  BY DEF Empty, Placed, Fits
<1>4. Sound(Empty)
  BY <1>1, <1>2, <1>3 DEF Sound, Follows
<1>5. /\ db = Empty /\ tx = Empty /\ cmd = Idle /\ part = 1 /\ kills = 0
  BY DEF Init
<1>6. Idle \in [way : {"none", "up", "down"}, to : Versions]
  BY SixteenRevisions DEF Idle
<1> QED
  BY <1>4, <1>5, <1>6, MaxKillsAssumption DEF MigrationInv, BetweenParts

LEMMA MovedSchema ==
  ASSUME NEW d \in Database, NEW p, Stores(p), NEW w \in Versions,
         NEW e, e = Moved(p, d, w)
  PROVE  e.schema = Applied(p, d.schema) /\ e.version = w
<1> DEFINE s == Applied(p, d.schema)
<1>1. e = [schema  |-> s,
           version |-> w,
           users   |-> d.users /\ "users" \in s,
           codes   |-> IF "otp_verifications" \in s THEN d.codes ELSE {},
           profile |-> Kept(p, s, d.profile)]
  BY AfterPart, MovedRecord
<1> QED
  BY <1>1

(* Every part of an upgrade that is possible, by the revision it is of.    *)
LEMMA UpgradePart ==
  ASSUME NEW d, Sound(d), NEW v \in 1..16, d.version = v - 1, v # 13,
         Possible(Up[v][1], d), NEW e, e = Moved(Up[v][1], d, v)
  PROVE  Sound(e)
<1> DEFINE p == Up[v][1]
<1>1. v \in Versions /\ v - 1 \in Versions
  BY SixteenRevisions
<1>2. Settled(d)
  <2>1. ~Halfway(d)
    BY NeedsAHand
  <2>2. ~Renamed(d)
    BY NeedsAHand
  <2> QED BY <2>1, <2>2 DEF Sound, Follows
<1>3. Stores(p)
  BY PartsStore
<1>4. d.schema \ Lingering(v - 1) = TableAt[v - 1]
  BY <1>1, <1>2, SettledTable
<1>5. e.schema = Applied(p, d.schema) /\ e.version = v
  BY <1>1, <1>3, MovedSchema DEF Sound
<1>6. Settled(e)
  <2>1. Applied(p, d.schema) \ Lingering(v) = TableAt[v]
    BY <1>4, UpgradeSchema
  <2> QED BY <2>1, <1>1, <1>5, SettledTable
<1> QED
  BY <1>1, <1>3, <1>6, MovedDatabase DEF Sound, Follows

(* Where the parts of a2a0a37d3631 lead.                                   *)
LEMMA FirstPart ==
  ASSUME NEW d, Sound(d), d.version = 12, Possible(Up[13][1], d),
         NEW e, e = Moved(Up[13][1], d, 12)
  PROVE  Sound(e) /\ Halfway(e)
<1> DEFINE p == Up[13][1]
<1>1. 12 \in Versions
  BY SixteenRevisions
<1>2. Settled(d)
  <2>1. ~Halfway(d)
    BY NeedsAHand
  <2>2. ~Renamed(d)
    BY NeedsAHand
  <2> QED BY <2>1, <2>2 DEF Sound, Follows
<1>3. Stores(p)
  BY PartsStore
<1>4. d.schema \ Lingering(12) = TableEf6c
  BY <1>2, Positions, FirstHalfTable DEF Settled
<1>5. e.schema = Applied(p, d.schema) /\ e.version = 12
  BY <1>1, <1>3, MovedSchema DEF Sound
<1>6. Applied(p, TableEf6c) = TableHalf
  BY Positions, FirstHalfTable DEF FirstHalf, Up
<1>7. TableHalf \subseteq e.schema /\ e.schema \subseteq TableHalf \cup KycStates
  <2> HIDE DEF p
  <2> QED BY <1>4, <1>5, <1>6, HalfObjects DEF Applied
<1>8. Halfway(e)
  BY <1>5, <1>7, HalfwayTable
<1> QED
  BY <1>1, <1>3, <1>8, MovedDatabase DEF Sound, Follows

LEMMA ValuePart ==
  ASSUME NEW d, Sound(d), Halfway(d), NEW k \in {2, 3}, Possible(Up[13][k], d),
         NEW e, e = Moved(Up[13][k], d, 12)
  PROVE  /\ Sound(e) /\ Halfway(e)
         /\ e.schema = d.schema \cup (IF k = 2 THEN {"kyc_status.IN_REVIEW"}
                                               ELSE {"kyc_status.ACTION_REQUIRED"})
<1> DEFINE p == Up[13][k]
           value == IF k = 2 THEN {"kyc_status.IN_REVIEW"} ELSE {"kyc_status.ACTION_REQUIRED"}
<1>1. 12 \in Versions
  BY SixteenRevisions
<1>2. Stores(p)
  BY PartsStore
<1>3. e.schema = Applied(p, d.schema) /\ e.version = 12
  BY <1>1, <1>2, MovedSchema DEF Sound
<1>4. Applied(p, d.schema) = d.schema \cup value
  <2>1. Up[13] = UpA2a0
    BY DEF Up
  <2>2. CASE k = 2
    <3>1. UpA2a0[2] = [Nothing EXCEPT !.ensures = value]
      BY <2>2 DEF UpA2a0
    <3> QED BY <2>1, <2>2, <3>1 DEF Applied, Nothing
  <2>3. CASE k = 3
    <3>1. UpA2a0[3] = [Nothing EXCEPT !.ensures = value]
      BY <2>3 DEF UpA2a0
    <3> QED BY <2>1, <2>3, <3>1 DEF Applied, Nothing
  <2> QED BY <2>2, <2>3
<1>5. value \subseteq KycStates
  BY DEF KycStates
<1>6. Halfway(e)
  <2> HIDE DEF p, value
  <2> QED BY <1>3, <1>4, <1>5, HalfwayTable
<1> QED
  BY <1>1, <1>2, <1>3, <1>4, <1>6, MovedDatabase DEF Sound, Follows

LEMMA LastPart ==
  ASSUME NEW d, Sound(d), Halfway(d), KycStates \subseteq d.schema, Possible(Up[13][4], d),
         NEW e, e = Moved(Up[13][4], d, 13)
  PROVE  Sound(e)
<1> DEFINE p == Up[13][4]
<1>1. 13 \in Versions
  BY SixteenRevisions
<1>2. Stores(p)
  BY PartsStore
<1>3. e.schema = Applied(p, d.schema) /\ e.version = 13
  BY <1>1, <1>2, MovedSchema DEF Sound
<1>4. d.schema = TableHalf \cup KycStates
  BY HalfwayTable
<1>5. Applied(p, TableHalf \cup KycStates) = TableAt[13]
  <2>1. Applied(UpA2a0[4], TableHalf \cup KycStates) = TableA2a0
    BY DEF UpA2a0, Applied, Swaps, Nothing, TableHalf, TableA2a0, Kyc, Checked, KycStates,
           StatusObjects, Organizers, Table89f3, Table9dff, Table2b73, Table7721
  <2>2. TableAt[13] = TableA2a0
    BY <1>1 DEF TableAt, Table
  <2>3. Up[13] = UpA2a0
    BY DEF Up
  <2> QED BY <2>1, <2>2, <2>3
<1>6. Settled(e)
  <2>1. e.schema \ Lingering(13) = TableAt[13]
    BY <1>1, <1>3, <1>4, <1>5, LingeringTypes
  <2> QED BY <2>1, <1>1, <1>3, SettledTable
<1> QED
  BY <1>1, <1>2, <1>6, MovedDatabase DEF Sound, Follows

LEMMA DowngradePart ==
  ASSUME NEW d, Sound(d), NEW v \in 1..16, d.version = v,
         Possible(Down[v][1], d), NEW e, e = Moved(Down[v][1], d, v - 1)
  PROVE  Sound(e)
<1> DEFINE p == Down[v][1]
<1>1. v \in Versions /\ v - 1 \in Versions /\ 13 \in Versions /\ 14 \in Versions
  BY SixteenRevisions
<1>2. Settled(d)
  <2>1. ~Halfway(d)
    BY NeedsAHand
  <2>2. ~Renamed(d)
    BY NeedsAHand
  <2> QED BY <2>1, <2>2 DEF Sound, Follows
<1>3. Stores(p)
  BY PartsStore
<1>4. d.schema \ Lingering(v) = TableAt[v]
  BY <1>1, <1>2, SettledTable
<1>5. e.schema = Applied(p, d.schema) /\ e.version = v - 1
  BY <1>1, <1>3, MovedSchema DEF Sound
<1>6. CASE v # 14
  <2>1. Applied(p, d.schema) \ Lingering(v - 1) = TableAt[v - 1]
    BY <1>4, <1>6, DowngradeSchema
  <2>2. Settled(e)
    BY <2>1, <1>1, <1>5, SettledTable
  <2> QED BY <2>2, <1>1, <1>3, MovedDatabase DEF Sound, Follows
<1>7. CASE v = 14
  <2>1. Lingering(14) = {}
    BY Positions DEF Lingering
  <2>2. d.schema = TableAt[14]
    BY <2>1, <1>4, <1>7
  <2>3. e.schema = (TableAt[13] \ {"ck_pan_number_format"}) \cup {"CONSTRAINT_NAME_HERE"}
    BY <2>2, <1>5, <1>7, DowngradeTable
  <2>4. "CONSTRAINT_NAME_HERE" \notin TableAt[13]
    BY <1>1, Landmarks
  <2>5. e.version = 13
    BY <1>5, <1>7
  <2>6. Renamed(e)
    BY <2>3, <2>4, <2>5, RenamedTable
  <2> QED BY <2>6, <1>1, <1>3, MovedDatabase DEF Sound, Follows
<1> QED
  BY <1>6, <1>7

LEMMA IdleIsCommand == Idle \in [way : {"none", "up", "down"}, to : Versions]
BY SixteenRevisions DEF Idle

LEMMA AbortStep == MigrationInv /\ Abort /\ UNCHANGED kills => MigrationInv'
<1> SUFFICES ASSUME MigrationInv, Abort, UNCHANGED kills PROVE MigrationInv'
  OBVIOUS
<1>1. /\ tx' = db /\ db' = db /\ cmd' = Idle /\ part' = 1 /\ kills' = kills
  BY DEF Abort
<1> QED
  BY <1>1, IdleIsCommand DEF MigrationInv, BetweenParts

LEMMA BeginStep ==
  ASSUME MigrationInv, NEW to \in Targets, Begin(to)
  PROVE  MigrationInv'
<1>1. /\ db' = db /\ tx' = tx /\ part' = part /\ kills' = kills /\ tx = db
  BY DEF Begin, MigrationInv
<1>2. cmd' \in [way : {"none", "up", "down"}, to : Versions]
  BY TargetsAssumption DEF Begin, Versions
<1>3. part = 1
  BY DEF Begin, MigrationInv, BetweenParts, Idle
<1> QED
  BY <1>1, <1>2, <1>3 DEF MigrationInv, BetweenParts

LEMMA CommitStep == MigrationInv /\ Commit => MigrationInv'
<1> SUFFICES ASSUME MigrationInv, Commit PROVE MigrationInv'
  OBVIOUS
<1>1. db' = tx /\ tx' = tx /\ cmd' = Idle /\ part' = part /\ kills' = kills
  BY DEF Commit
<1>2. part = 1
  BY NeedsAHand, Positions DEF Commit, MigrationInv, BetweenParts
<1> QED
  BY <1>1, <1>2, IdleIsCommand DEF MigrationInv, BetweenParts

LEMMA KillStep == MigrationInv /\ Kill => MigrationInv'
<1> SUFFICES ASSUME MigrationInv, Kill PROVE MigrationInv'
  OBVIOUS
<1>1. /\ tx' = db /\ db' = db /\ cmd' = Idle /\ part' = 1
  BY DEF Kill, Abort
<1>2. kills' \in 0..MaxKills
  BY MaxKillsAssumption DEF Kill, MigrationInv
<1> QED
  BY <1>1, <1>2, IdleIsCommand DEF MigrationInv, BetweenParts

LEMMA WriteRowsStep == MigrationInv /\ WriteRows => MigrationInv'
<1> SUFFICES ASSUME MigrationInv, WriteRows PROVE MigrationInv'
  OBVIOUS
<1>1. /\ tx = db /\ tx' = db' /\ cmd' = cmd /\ part' = part /\ kills' = kills
      /\ Placed(db') /\ Fits(db')
  BY DEF WriteRows
<1>2. db' \in Database /\ db'.schema = db.schema /\ db'.version = db.version
  <2>1. db \in Database
    BY DEF MigrationInv, Sound
  <2>2. CASE \E u \in BOOLEAN : db' = [db EXCEPT !.users = u]
    BY <2>1, <2>2 DEF Database
  <2>3. CASE \E c \in SUBSET Purposes : db' = [db EXCEPT !.codes = c]
    BY <2>1, <2>3 DEF Database
  <2>4. CASE \E r \in Profile : db' = [db EXCEPT !.profile = r]
    BY <2>1, <2>4 DEF Database
  <2>5. CASE db' = [db EXCEPT !.profile = NULL]
    BY <2>1, <2>5 DEF Database
  <2> QED BY <2>2, <2>3, <2>4, <2>5 DEF WriteRows
<1>3. Follows(db')
  BY <1>2 DEF MigrationInv, Sound, Follows, Settled, Halfway, Renamed
<1>4. Sound(db')
  BY <1>1, <1>2, <1>3 DEF Sound
<1>5. BetweenParts'
  BY <1>1, <1>2 DEF MigrationInv, BetweenParts, Halfway
<1> QED
  BY <1>1, <1>4, <1>5 DEF MigrationInv

LEMMA DowngradeStep == MigrationInv /\ Downgrade => MigrationInv'
<1> SUFFICES ASSUME MigrationInv, Downgrade PROVE MigrationInv'
  OBVIOUS
<1> DEFINE v == tx.version
           p == Down[v][1]
<1>1. CASE Possible(p, tx)
  <2>1. /\ tx' = Moved(p, tx, v - 1)
        /\ db' = db /\ cmd' = cmd /\ part' = part /\ kills' = kills
    BY <1>1 DEF Downgrade, Moved
  <2>2. v \in 1..16
    BY SixteenRevisions DEF Downgrade, MigrationInv, Sound, Database
  <2>3. Sound(tx')
    BY <1>1, <2>1, <2>2, DowngradePart DEF MigrationInv
  <2>4. part = 1 /\ cmd # Idle
    BY DEF Downgrade, MigrationInv, BetweenParts, Idle
  <2> QED BY <2>1, <2>3, <2>4 DEF MigrationInv, BetweenParts
<1>2. CASE ~Possible(p, tx)
  BY <1>2, AbortStep DEF Downgrade
<1> QED
  BY <1>1, <1>2

LEMMA UpgradeStep == MigrationInv /\ Upgrade => MigrationInv'
<1> SUFFICES ASSUME MigrationInv, Upgrade PROVE MigrationInv'
  OBVIOUS
<1> DEFINE v == tx.version + 1
           p == Up[v][part]
           last == part = Len(Up[v])
<1>1. /\ v \in 1..16 /\ tx.version = v - 1 /\ tx.version \in 0..15 /\ tx.version < cmd.to
      /\ part \in 1..4
      /\ cmd.way = "up" /\ cmd # Idle /\ kills' = kills
      /\ Sound(db) /\ Sound(tx)
  BY SixteenRevisions DEF Upgrade, MigrationInv, Sound, Database, Idle
<1>2. CASE Possible(p, tx)
  <2>1. /\ tx' = [After(p, tx) EXCEPT !.version = IF last THEN v ELSE @]
        /\ part' = IF last THEN 1 ELSE part + 1
        /\ db' = IF last THEN db ELSE tx'
        /\ cmd' = cmd
    BY <1>2 DEF Upgrade
  <2>2. /\ last => tx' = Moved(p, tx, v)
        /\ ~last => tx' = [After(p, tx) EXCEPT !.version = After(p, tx).version]
    BY <2>1 DEF Moved
  <2>3. ASSUME Sound(tx'), last PROVE MigrationInv'
    BY <1>1, <2>1, <2>3 DEF MigrationInv, BetweenParts
  <2>4. CASE v # 13
    <3>1. part = 1
      BY <1>1, <2>4, Positions DEF MigrationInv, BetweenParts, Halfway
    <3>2. last
      BY <1>1, <2>4, <3>1, Parts
    <3>3. Sound(tx')
      BY <1>1, <1>2, <2>2, <2>4, <3>1, <3>2, UpgradePart
    <3> QED BY <2>3, <3>2, <3>3
  <2>5. CASE v = 13
    <3>1. tx.version = 12 /\ Len(Up[13]) = 4 /\ cmd.to > 12 /\ At("ef6cfdcf1ade") = 12
      BY <1>1, <2>5, Parts, Positions
    <3>2. Stores(p) /\ After(p, tx).version = 12
      <4>1. Stores(p)
        BY <1>1, <2>5, PartsStore
      <4> QED BY <1>1, <3>1, <4>1, AfterPart DEF Sound
    <3>3. ~last => tx' = Moved(p, tx, 12)
      BY <2>2, <3>2 DEF Moved
    <3>4. CASE part = 1
      <4>1. Sound(tx') /\ Halfway(tx')
        BY <1>1, <1>2, <2>5, <3>1, <3>3, <3>4, FirstPart
      <4>2. db' = tx' /\ part' = 2 /\ cmd' = cmd
        BY <2>1, <2>5, <3>1, <3>4
      <4> QED BY <1>1, <3>1, <4>1, <4>2 DEF MigrationInv, BetweenParts
    <3>5. CASE part \in {2, 3}
      <4>1. Halfway(tx)
        BY <3>5 DEF MigrationInv, BetweenParts
      <4>2. /\ Sound(tx') /\ Halfway(tx')
            /\ tx'.schema = tx.schema \cup (IF part = 2 THEN {"kyc_status.IN_REVIEW"}
                                                       ELSE {"kyc_status.ACTION_REQUIRED"})
        BY <1>1, <1>2, <2>5, <3>1, <3>3, <3>5, <4>1, ValuePart
      <4>3. db' = tx' /\ part' = part + 1 /\ cmd' = cmd
        BY <2>1, <2>5, <3>1, <3>5
      <4>4. BetweenParts'
        BY <1>1, <3>1, <3>5, <4>2, <4>3 DEF MigrationInv, BetweenParts
      <4> QED BY <1>1, <3>5, <4>2, <4>3, <4>4 DEF MigrationInv
    <3>6. CASE part = 4
      <4>1. Halfway(tx) /\ KycStates \subseteq tx.schema
        BY <3>6 DEF MigrationInv, BetweenParts, KycStates
      <4>2. last
        BY <2>5, <3>1, <3>6
      <4>3. Sound(tx')
        BY <1>1, <1>2, <2>2, <2>5, <3>6, <4>1, <4>2, LastPart
      <4> QED BY <2>3, <4>2, <4>3
    <3> QED BY <1>1, <3>4, <3>5, <3>6
  <2> QED BY <2>4, <2>5
<1>3. CASE ~Possible(p, tx)
  BY <1>3, AbortStep DEF Upgrade
<1> QED
  BY <1>2, <1>3

(***************************************************************************)
(* The theorems.                                                           *)
(***************************************************************************)

(* Every reachable state of Migrations satisfies the inductive invariant.  *)
THEOREM MigrationInvariant == Spec => []MigrationInv
<1>1. Init => MigrationInv
  BY MigrationInit
<1>2. MigrationInv /\ [Next]_vars => MigrationInv'
  <2> SUFFICES ASSUME MigrationInv, [Next]_vars PROVE MigrationInv'
    OBVIOUS
  <2>1. ASSUME NEW to \in Targets, Begin(to) PROVE MigrationInv'
    BY <2>1, BeginStep
  <2>2. CASE Upgrade
    BY <2>2, UpgradeStep
  <2>3. CASE Downgrade
    BY <2>3, DowngradeStep
  <2>4. CASE Commit
    BY <2>4, CommitStep
  <2>5. CASE Kill
    BY <2>5, KillStep
  <2>6. CASE WriteRows
    BY <2>6, WriteRowsStep
  <2>7. CASE UNCHANGED vars
    BY <2>7 DEF vars, MigrationInv, BetweenParts
  <2> QED
    BY <2>1, <2>2, <2>3, <2>4, <2>5, <2>6, <2>7 DEF Next
<1> QED
  BY <1>1, <1>2, PTL DEF Spec

(* The rows a database has are in tables it has and pass its constraints,  *)
(* committed or in the middle of a command.                                *)
THEOREM TypeCorrect == Spec => []TypeOK
<1>1. MigrationInv => TypeOK
  BY DEF MigrationInv, TypeOK, Sound, Database, Versions
<1> QED
  BY <1>1, MigrationInvariant, PTL

(* alembic_version tells what the schema is, but for the databases a       *)
(* failed a2a0a37d3631 and a downgraded 442eac7b06a4 leave.                *)
THEOREM FollowsVersion == Spec => []SchemaFollowsVersion
<1>1. MigrationInv => SchemaFollowsVersion
  BY DEF MigrationInv, Sound, Follows, Settled, Halfway, Renamed, SchemaFollowsVersion,
         HalfUpgraded, Misnamed
<1> QED
  BY <1>1, MigrationInvariant, PTL

(* Objects that are columns, indexes and constraints of a table together;  *)
(* every other stands for itself.                                          *)
Wide == {"users", "users.is_verified", "refresh_tokens", "otp_verifications", "otp.purpose",
         "otp.attempt_count", "organizer_profiles", "kyc times", "kyc columns", "sync times",
         "events", "ticket_tiers", "razorpay_webhook_events"}

SingleOtp == {"otppurpose", "one code per purpose"}

SingleProfile ==
  {"kyc_status", "kyc_status.IN_REVIEW", "kyc_status.ACTION_REQUIRED", "kyc_status index",
   "razorpay_account_id(30)", "kyc_provider_status(30)", "unique ids", "secrets as text",
   "payout check on ids", "status checks"}

Single ==
  {"user_role"} \cup SingleOtp \cup SingleProfile \cup {"event_status"} \cup {"value checks"}

LEMMA ContentOfSingle ==
  UNION {Content(x) : x \in Single} = On("", Single)
<1>1. \A x \in Single : Content(x) = {<<"", x>>}
  BY DEF Single, SingleOtp, SingleProfile, Content, On
<1>2. On("", Single) = {<<"", x>> : x \in Single}
  BY DEF On
<1>3. ASSUME NEW z
      PROVE  z \in UNION {Content(x) : x \in Single} <=> \E x \in Single : z = <<"", x>>
  <2>1. z \in UNION {Content(x) : x \in Single} <=> \E x \in Single : z \in Content(x)
    OBVIOUS
  <2> QED BY <1>1, <2>1
<1>4. ASSUME NEW z
      PROVE  z \in On("", Single) <=> \E x \in Single : z = <<"", x>>
  BY <1>2
<1> QED
  BY <1>3, <1>4

(* The schema the migrations end with, column by column, is the models'.   *)
LEMMA ContentOfHead ==
  UNION {Content(x) : x \in Table69b6} = Declared \cup On("", {"value checks"})
<1> DEFINE All(S) == UNION {Content(x) : x \in S}
           users == Content("users") \cup Content("users.is_verified")
           codes == Content("otp_verifications") \cup Content("otp.purpose")
                      \cup Content("otp.attempt_count")
           profiles == Content("organizer_profiles") \cup Content("kyc times")
                         \cup Content("kyc columns") \cup Content("sync times")
<1>1. Table69b6 = Wide \cup Single
  BY DEF Wide, Single, SingleOtp, SingleProfile, Table69b6, Table1191, Table442e, Checked, Kyc,
         KycStates, Organizers, Table89f3, Table9dff, Table2b73, Table7721
<1>2. All(Table69b6) = All(Wide) \cup On("", Single)
  BY <1>1, ContentOfSingle
<1>3. All(Wide)
        = users \cup Content("refresh_tokens") \cup codes \cup profiles \cup Content("events")
            \cup Content("ticket_tiers") \cup Content("razorpay_webhook_events")
  BY DEF Wide
<1>4. On("", Single)
        = On("", {"user_role"}) \cup On("", SingleOtp) \cup On("", SingleProfile)
            \cup On("", {"event_status"}) \cup On("", {"value checks"})
  BY DEF Single, On
<1>5. users \cup On("", {"user_role"}) = DeclaredUser
  BY DEF Content, DeclaredUser, On
<1>6. Content("refresh_tokens") = DeclaredRefreshToken
  BY DEF Content, DeclaredRefreshToken, On
<1>7. codes \cup On("", SingleOtp) = DeclaredOTPVerification
  <2>1. codes = On("otp_verifications",
                   {"id", "user_id", "ix_otp_verifications_user_id", "email",
                    "ix_otp_verifications_email", "purpose", "otp_hashed", "is_used",
                    "created_at", "attempt_count", "expires_at"})
    BY DEF Content, On
  <2> HIDE DEF codes
  <2> QED BY <2>1 DEF DeclaredOTPVerification, SingleOtp
<1>8. profiles \cup On("", SingleProfile) = DeclaredOrganizerProfile
  <2>1. profiles = On("organizer_profiles",
                      {"id", "user_id", "kyc_status", "razorpay_account_status",
                       "kyc_requirements", "razorpay_reference_code",
                       "razorpay_stakeholder_id", "razorpay_product_id",
                       "legal_business_name", "business_type", "contact_email",
                       "contact_phone", "kyc_submitted_at", "kyc_activated_at",
                       "kyc_provider_status_synced_at", "razorpay_account_status_synced_at",
                       "business_name", "total_events_hosted", "hold_period_days",
                       "risk_flags", "created_at", "updated_at"})
    BY DEF Content, On
  <2>2. SingleProfile
          = {"kyc_status", "kyc_status.IN_REVIEW", "kyc_status.ACTION_REQUIRED",
             "kyc_status index", "razorpay_account_id(30)", "kyc_provider_status(30)",
             "unique ids", "secrets as text", "payout check on ids", "status checks"}
    BY DEF SingleProfile
  <2> HIDE DEF profiles
  <2> QED BY <2>1, <2>2 DEF DeclaredOrganizerProfile
<1>9. Content("events") \cup On("", {"event_status"}) = DeclaredEvent
  BY DEF Content, DeclaredEvent, On
<1>10. Content("ticket_tiers") = DeclaredTicketTier
  BY DEF Content, DeclaredTicketTier, On
<1>11. Content("razorpay_webhook_events") = DeclaredRazorpayWebhookEvent
  BY DEF Content, DeclaredRazorpayWebhookEvent, On
<1> HIDE DEF users, codes, profiles
<1> QED
  BY <1>2, <1>3, <1>4, <1>5, <1>6, <1>7, <1>8, <1>9, <1>10, <1>11 DEF Declared

(* A database at the last revision has the columns, indexes, constraints   *)
(* and types the models declare.                                           *)
THEOREM HeadAsDeclared == Spec => []HeadIsDeclared
<1>1. ASSUME MigrationInv, db.version = HeadRevision
      PROVE  db.schema = Table69b6
  <2>1. db.version = 16 /\ 16 \in Versions
    BY <1>1, SixteenRevisions
  <2>2. Settled(db)
    BY <1>1, <2>1, Positions DEF MigrationInv, Sound, Follows, Halfway, Renamed
  <2>3. db.schema \ Lingering(16) = TableAt[16]
    BY <2>1, <2>2, SettledTable
  <2>4. Lingering(16) = {}
    BY Positions DEF Lingering
  <2>5. TableAt[16] = Table69b6
    BY <2>1 DEF TableAt, Table
  <2> QED BY <2>3, <2>4, <2>5
<1>2. MigrationInv => HeadIsDeclared
  BY <1>1, ContentOfHead DEF HeadIsDeclared
<1> QED
  BY <1>2, MigrationInvariant, PTL

LEMMA StuckNeedsAHand ==
  MigrationInv /\ Stuck => tx = db /\ part = 1 /\ (Halfway(tx) \/ Renamed(tx))
<1> SUFFICES ASSUME MigrationInv, Stuck PROVE Halfway(db) \/ Renamed(db)
  BY DEF Stuck
<1>1. Follows(db) /\ db.version \in Versions
  BY DEF MigrationInv, Sound, Database
<1>2. CASE HalfUpgraded
  <2>1. db.version = 12 /\ TableHalf \subseteq db.schema /\ 12 \in Versions
    BY <1>2, Positions, FirstHalfTable, SixteenRevisions DEF HalfUpgraded
  <2>2. "razorpay_account_id(30)" \in TableHalf
    BY DEF TableHalf, Kyc
  <2>3. "razorpay_account_id(30)" \notin TableEf6c
    BY DEF TableEf6c, Organizers, Table89f3, Table9dff, Table2b73, Table7721
  <2>4. "razorpay_account_id(30)" \notin Lingering(12)
    BY HalfObjects DEF KycStates
  <2>5. ~Settled(db)
    BY <2>1, <2>2, <2>3, <2>4, FirstHalfTable DEF Settled
  <2> QED BY <1>1, <2>5 DEF Follows
<1>3. CASE Misnamed
  <2>1. db.version = 13 /\ "CONSTRAINT_NAME_HERE" \in db.schema /\ 13 \in Versions
    BY <1>3, Positions, SixteenRevisions DEF Misnamed
  <2>2. "CONSTRAINT_NAME_HERE" \notin TableAt[13]
    BY <2>1, Landmarks
  <2>3. "CONSTRAINT_NAME_HERE" \notin Lingering(13)
    BY DEF Lingering
  <2>4. ~Settled(db)
    BY <2>1, <2>2, <2>3, SettledTable
  <2> QED BY <1>1, <2>4 DEF Follows
<1> QED
  BY <1>2, <1>3 DEF Stuck

(* No command leads away from the two databases that need a hand.          *)
THEOREM StuckStays == Spec => OnlyByHand
<1>1. MigrationInv /\ [Next]_vars =>
        [Stuck => Stuck' /\ db'.schema = db.schema /\ db'.version = db.version]_vars
  <2> SUFFICES ASSUME MigrationInv, Stuck, Next
               PROVE  /\ db'.schema = db.schema /\ db'.version = db.version
                      /\ part' = 1 /\ tx' = db'
    BY DEF Stuck, HalfUpgraded, Misnamed
  <2>1. tx = db /\ part = 1 /\ (Halfway(tx) \/ Renamed(tx))
    BY StuckNeedsAHand
  <2>2. CASE Abort
    BY <2>2 DEF Abort
  <2>3. ASSUME NEW to \in Targets, Begin(to)
        PROVE  db' = db /\ tx' = tx /\ part' = part
    BY <2>3 DEF Begin
  <2>4. CASE Upgrade
    <3>1. ~Possible(Up[tx.version + 1][part], tx)
      BY <2>1, NeedsAHand
    <3> QED BY <2>2, <2>4, <3>1 DEF Upgrade
  <2>5. CASE Downgrade
    <3>1. ~Possible(Down[tx.version][1], tx)
      BY <2>1, NeedsAHand
    <3> QED BY <2>2, <2>5, <3>1 DEF Downgrade
  <2>6. CASE Commit
    BY <2>1, <2>6 DEF Commit
  <2>7. CASE Kill
    BY <2>2, <2>7 DEF Kill
  <2>8. CASE WriteRows
    <3>1. db \in Database
      BY DEF MigrationInv, Sound
    <3>2. db'.schema = db.schema /\ db'.version = db.version
      BY <2>8, <3>1 DEF WriteRows, Database
    <3> QED BY <2>1, <2>8, <3>2 DEF WriteRows
  <2> QED
    BY <2>1, <2>3, <2>4, <2>5, <2>6, <2>7, <2>8 DEF Next
<1> QED
  BY <1>1, MigrationInvariant, PTL DEF Spec, OnlyByHand
=============================================================================
