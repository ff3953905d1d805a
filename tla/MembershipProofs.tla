-------------------------- MODULE MembershipProofs --------------------------
(***************************************************************************)
(* What holds of the sponsorships and of the trees of uplines and sponsors *)
(* they hang in. The first part is about Sponsorship, for any sponsors,    *)
(* rows, days and lengths of the window, the term and the notices; the     *)
(* second about DataRights, for any users, requests and workers.           *)
(***************************************************************************)
EXTENDS Sponsorship, DataRights, TLAPS

(* An ACTIVE row has no window, a protected one has, and the window of an  *)
(* ended one is over.                                                      *)
Dated(r) ==
  /\ r.state = "ACTIVE" => r.until = NoDate
  /\ r.state = "MEMBER_GRACE" => r.until # NoDate
  /\ r.state = "ENDED" => r.until # NoDate /\ r.until < day

Over(r) ==
  /\ r.until # NoDate /\ r.until < day
  /\ r.state \in {"MEMBER_GRACE", "CONVERTED", "ENDED"}

Dates == \A i \in DOMAIN row : Dated(row[i])

(* What the passes and the request hold on to: a row the 08:00 pass is     *)
(* about to end is over, and one the 09:00 pass is about to mark is not.   *)
Listed ==
  /\ cascade.todo \subseteq DOMAIN row /\ notices.todo \subseteq DOMAIN row
  /\ convert.at = "mark" => convert.id \in DOMAIN row
  /\ cascade.doing = "end" => \A i \in cascade.todo : Over(row[i])
  /\ \A i \in notices.todo : row[i].until = NoDate \/ row[i].until >= day

SponsorshipInv == SponsorshipTypeOK /\ Dates /\ Listed

-----------------------------------------------------------------------------
LEMMA NumbersFit ==
  ASSUME SponsorshipTypeOK
  PROVE  /\ day \in Int /\ day \in 0..MaxDay /\ day + Grace \in 0..(MaxDay + Grace)
         /\ day + Grace # NoDate /\ day + Term \in 0..(MaxDay + Term)
         /\ \A i \in DOMAIN row : /\ row[i] \in SponsorshipRow
                                  /\ row[i].until \in Int /\ i \in RowIds
<1>1. day \in 0..MaxDay /\ row \in Seq(SponsorshipRow) /\ Len(row) \in 0..MaxRows
  BY DEF SponsorshipTypeOK
<1>2. /\ day \in Int /\ day \in 0..MaxDay /\ day + Grace \in 0..(MaxDay + Grace)
      /\ day + Grace # NoDate /\ day + Term \in 0..(MaxDay + Term)
  BY <1>1, SponsorshipConstants DEF NoDate
<1>3. ASSUME NEW i \in DOMAIN row
      PROVE  row[i] \in SponsorshipRow /\ i \in RowIds
  BY <1>1, <1>3, SponsorshipConstants DEF RowIds
<1>4. ASSUME NEW r \in SponsorshipRow PROVE r.until \in Int
  BY SponsorshipConstants DEF SponsorshipRow, NoDate
<1>5. QED BY <1>2, <1>3, <1>4

LEMMA RowMoves ==
  ASSUME SponsorshipTypeOK, NEW i \in DOMAIN row, NEW r \in SponsorshipRow,
         row' = [row EXCEPT ![i] = r]
  PROVE  /\ row' \in Seq(SponsorshipRow) /\ Len(row') = Len(row)
         /\ DOMAIN row' = DOMAIN row /\ row'[i] = r
         /\ \A j \in DOMAIN row : j # i => row'[j] = row[j]
<1>1. row \in Seq(SponsorshipRow)
  BY DEF SponsorshipTypeOK
<1>2. QED BY <1>1

LEMMA StateMoves ==
  ASSUME NEW r \in SponsorshipRow, NEW s \in States
  PROVE  /\ [r EXCEPT !.state = s] \in SponsorshipRow
         /\ [r EXCEPT !.state = s].state = s /\ [r EXCEPT !.state = s].until = r.until
BY DEF SponsorshipRow

(* A write of one row keeps the invariant when the new row is well dated    *)
(* and fits whatever is still listed of it.                                 *)
LEMMA WriteKeeps ==
  ASSUME SponsorshipInv, NEW i \in DOMAIN row, NEW r \in SponsorshipRow,
         row' = [row EXCEPT ![i] = r],
         Dated(r),
         cascade.doing = "end" /\ i \in cascade'.todo => Over(r),
         i \in notices.todo => r.until = NoDate \/ r.until >= day,
         cascade'.doing = cascade.doing, cascade'.todo \subseteq cascade.todo,
         notices'.todo \subseteq notices.todo,
         convert'.at = "mark" => convert' = convert,
         UNCHANGED day
  PROVE  Dates' /\ Listed'
<1>1. /\ DOMAIN row' = DOMAIN row /\ row'[i] = r
      /\ \A j \in DOMAIN row : j # i => row'[j] = row[j]
  BY RowMoves DEF SponsorshipInv
<1>2. Dates'
  BY <1>1 DEF SponsorshipInv, Dates, Dated
<1>3. Listed'
  BY <1>1 DEF SponsorshipInv, Listed, Over
<1>4. QED BY <1>2, <1>3

(* Nor does what leaves the rows and the day alone. *)
LEMMA SponsoredRowsStay ==
  ASSUME SponsorshipInv, UNCHANGED <<day, row>>,
         cascade'.todo \subseteq cascade.todo, cascade'.todo = {} \/ cascade' = cascade,
         notices'.todo \subseteq notices.todo,
         convert'.at = "mark" => convert'.id \in DOMAIN row
  PROVE  Dates' /\ Listed'
BY DEF SponsorshipInv, Dates, Dated, Listed, Over

-----------------------------------------------------------------------------
LEMMA ProtectKeeps ==
  ASSUME SponsorshipInv, NEW i \in RowIds, Protect(i)
  PROVE  SponsorshipInv'
<1> DEFINE r == [row[i] EXCEPT !.state = "MEMBER_GRACE", !.until = day + Grace]
<1>1. /\ i \in DOMAIN row /\ cascade.doing = "protect" /\ row' = [row EXCEPT ![i] = r]
      /\ cascade' = [cascade EXCEPT !.todo = @ \ {i}]
      /\ UNCHANGED <<day, lapsed, own, paying, notices, convert, flips, deaths>>
  BY DEF Protect, SponsorshipInv, Listed
<1>2. r \in SponsorshipRow /\ r.state = "MEMBER_GRACE" /\ r.until = day + Grace
  BY <1>1, NumbersFit DEF SponsorshipInv, SponsorshipRow, States
<1>3. Dated(r) /\ r.until >= day
  BY <1>2, NumbersFit, SponsorshipConstants DEF SponsorshipInv, Dated
<1> HIDE DEF r
<1>4. /\ cascade' \in [doing : {"idle", "protect", "end"}, todo : SUBSET RowIds]
      /\ cascade'.doing = "protect" /\ cascade'.todo \subseteq cascade.todo
  BY <1>1 DEF SponsorshipInv, SponsorshipTypeOK
<1>5. SponsorshipTypeOK'
  BY <1>1, <1>2, <1>4, RowMoves DEF SponsorshipInv, SponsorshipTypeOK
<1>6. Dates' /\ Listed'
  BY <1>1, <1>2, <1>3, <1>4, WriteKeeps
<1>7. QED BY <1>5, <1>6 DEF SponsorshipInv

LEMMA EndKeeps ==
  ASSUME SponsorshipInv, NEW i \in RowIds, End(i)
  PROVE  SponsorshipInv'
<1> DEFINE r == [row[i] EXCEPT !.state = "ENDED"]
<1>1. /\ i \in DOMAIN row /\ cascade.doing = "end" /\ i \in cascade.todo
      /\ row' = [row EXCEPT ![i] = r]
      /\ cascade' = [cascade EXCEPT !.todo = @ \ {i}]
      /\ UNCHANGED <<day, lapsed, own, paying, notices, convert, flips, deaths>>
  BY DEF End, SponsorshipInv, Listed
<1>2. r \in SponsorshipRow /\ r.state = "ENDED" /\ r.until = row[i].until
  BY <1>1, NumbersFit, StateMoves DEF SponsorshipInv, States
<1>3. Over(row[i]) /\ i \notin notices.todo
  BY <1>1, NumbersFit DEF SponsorshipInv, Listed, Over
<1>4. Dated(r)
  BY <1>2, <1>3 DEF Dated, Over
<1> HIDE DEF r
<1>5. /\ cascade' \in [doing : {"idle", "protect", "end"}, todo : SUBSET RowIds]
      /\ cascade'.doing = "end" /\ cascade'.todo = cascade.todo \ {i}
  BY <1>1 DEF SponsorshipInv, SponsorshipTypeOK
<1>6. SponsorshipTypeOK'
  BY <1>1, <1>2, <1>5, RowMoves DEF SponsorshipInv, SponsorshipTypeOK
<1>7. Dates' /\ Listed'
  BY <1>1, <1>2, <1>3, <1>4, <1>5, WriteKeeps
<1>8. QED BY <1>6, <1>7 DEF SponsorshipInv

LEMMA MarkPendingKeeps ==
  ASSUME SponsorshipInv, NEW i \in RowIds, MarkPending(i)
  PROVE  SponsorshipInv'
<1> DEFINE r == [row[i] EXCEPT !.state = "ANNIVERSARY_PENDING"]
<1>1. /\ i \in DOMAIN row /\ i \in notices.todo
      /\ row' = [row EXCEPT ![i] = r]
      /\ notices' = [notices EXCEPT !.todo = @ \ {i}]
      /\ UNCHANGED <<day, lapsed, own, paying, cascade, convert, flips, deaths>>
  BY DEF MarkPending, SponsorshipInv, Listed
<1>2. r \in SponsorshipRow /\ r.state = "ANNIVERSARY_PENDING" /\ r.until = row[i].until
  BY <1>1, NumbersFit, StateMoves DEF SponsorshipInv, States
<1>3. /\ r.until = NoDate \/ r.until >= day
      /\ Dated(r)
      /\ cascade.doing = "end" => i \notin cascade.todo
  BY <1>1, <1>2, NumbersFit DEF SponsorshipInv, Listed, Over, Dated
<1> HIDE DEF r
<1>4. /\ notices' \in [doing : {"idle", "mark"}, todo : SUBSET RowIds]
      /\ notices'.todo \subseteq notices.todo
  BY <1>1 DEF SponsorshipInv, SponsorshipTypeOK
<1>5. SponsorshipTypeOK'
  BY <1>1, <1>2, <1>4, RowMoves DEF SponsorshipInv, SponsorshipTypeOK
<1>6. Dates' /\ Listed'
  BY <1>1, <1>2, <1>3, <1>4, WriteKeeps
<1>7. QED BY <1>5, <1>6 DEF SponsorshipInv

LEMMA ConvertMarkKeeps ==
  ASSUME SponsorshipInv, ConvertMark
  PROVE  SponsorshipInv'
<1> DEFINE i == convert.id
           r == [row[i] EXCEPT !.state = "CONVERTED"]
<1>1. /\ i \in DOMAIN row /\ row' = [row EXCEPT ![i] = r]
      /\ convert' = [at |-> "checkout", id |-> 0]
      /\ UNCHANGED <<day, lapsed, own, paying, cascade, notices, flips, deaths>>
  BY DEF ConvertMark, SponsorshipInv, Listed
<1>2. r \in SponsorshipRow /\ r.state = "CONVERTED" /\ r.until = row[i].until
  BY <1>1, NumbersFit, StateMoves DEF SponsorshipInv, States
<1>3. /\ Dated(r)
      /\ i \in notices.todo => r.until = NoDate \/ r.until >= day
      /\ cascade.doing = "end" /\ i \in cascade.todo => Over(r)
  BY <1>1, <1>2 DEF SponsorshipInv, Listed, Over, Dated
<1> HIDE DEF r
<1>4. convert' \in [at : {"idle", "mark", "checkout"}, id : 0..MaxRows] /\ convert'.at # "mark"
  BY <1>1, SponsorshipConstants
<1>5. SponsorshipTypeOK'
  BY <1>1, <1>2, <1>4, RowMoves DEF SponsorshipInv, SponsorshipTypeOK
<1>6. Dates' /\ Listed'
  BY <1>1, <1>2, <1>3, <1>4, WriteKeeps
<1>7. QED BY <1>5, <1>6 DEF SponsorshipInv

LEMMA RematchKeeps ==
  ASSUME SponsorshipInv, NEW s \in Sponsors, Rematch(s)
  PROVE  SponsorshipInv'
<1>1. /\ row' = Append(row, NewRow(s)) /\ Len(row) < MaxRows
      /\ UNCHANGED <<day, lapsed, own, paying, cascade, notices, convert, flips, deaths>>
  BY DEF Rematch
<1>2. NewRow(s) \in SponsorshipRow /\ NewRow(s).state = "ACTIVE" /\ NewRow(s).until = NoDate
  BY NumbersFit DEF SponsorshipInv, NewRow, SponsorshipRow, States
<1>3. row \in Seq(SponsorshipRow) /\ Len(row) \in 0..MaxRows
  BY DEF SponsorshipInv, SponsorshipTypeOK
<1>4. /\ row' \in Seq(SponsorshipRow) /\ Len(row') = Len(row) + 1 /\ Len(row') \in 0..MaxRows
      /\ DOMAIN row \subseteq DOMAIN row' /\ DOMAIN row' = DOMAIN row \cup {Len(row) + 1}
      /\ row'[Len(row) + 1] = NewRow(s)
      /\ \A j \in DOMAIN row : row'[j] = row[j]
  BY <1>1, <1>2, <1>3, SponsorshipConstants
<1>5. SponsorshipTypeOK'
  BY <1>1, <1>4 DEF SponsorshipInv, SponsorshipTypeOK
<1>6. Dates'
  BY <1>1, <1>2, <1>4 DEF SponsorshipInv, Dates, Dated
<1>7. Listed'
  BY <1>1, <1>4 DEF SponsorshipInv, Listed, Over
<1>8. QED BY <1>5, <1>6, <1>7 DEF SponsorshipInv

(* The passes list only rows there are, and only when they fit. *)
LEMMA ListingKeeps ==
  ASSUME SponsorshipInv, CascadeList \/ ExpireList \/ NoticeList
  PROVE  SponsorshipInv'
<1>1. InState({"ACTIVE"}) \subseteq RowIds /\ InState({"MEMBER_GRACE"}) \subseteq RowIds
  BY NumbersFit DEF SponsorshipInv, InState
<1>2. CASE CascadeList
  <2>1. /\ cascade'.doing = "protect" /\ cascade'.todo \subseteq InState({"ACTIVE"})
        /\ cascade' \in [doing : {"idle", "protect", "end"}, todo : SUBSET RowIds]
        /\ UNCHANGED <<day, lapsed, row, own, paying, notices, convert, flips, deaths>>
    BY <1>1, <1>2 DEF CascadeList
  <2>2. SponsorshipTypeOK'
    BY <2>1 DEF SponsorshipInv, SponsorshipTypeOK
  <2>3. Dates' /\ Listed'
    BY <2>1 DEF SponsorshipInv, Dates, Dated, Listed, InState
  <2>4. QED BY <2>2, <2>3 DEF SponsorshipInv
<1>3. CASE ExpireList
  <2>1. /\ cascade'.doing = "end"
        /\ cascade'.todo = {i \in InState({"MEMBER_GRACE"}) : day > row[i].until}
        /\ cascade' \in [doing : {"idle", "protect", "end"}, todo : SUBSET RowIds]
        /\ UNCHANGED <<day, lapsed, row, own, paying, notices, convert, flips, deaths>>
    BY <1>1, <1>3 DEF ExpireList
  <2>2. SponsorshipTypeOK'
    BY <2>1 DEF SponsorshipInv, SponsorshipTypeOK
  <2>3. \A i \in cascade'.todo : i \in DOMAIN row /\ Over(row[i])
    BY <2>1, NumbersFit DEF SponsorshipInv, Dates, Dated, Over, InState
  <2>4. Dates' /\ Listed'
    BY <2>1, <2>3 DEF SponsorshipInv, Dates, Dated, Listed, Over
  <2>5. QED BY <2>2, <2>4 DEF SponsorshipInv
<1>4. CASE NoticeList
  <2>1. /\ notices'.todo \subseteq InState({"ACTIVE"})
        /\ notices' \in [doing : {"idle", "mark"}, todo : SUBSET RowIds]
        /\ UNCHANGED <<day, lapsed, row, own, paying, cascade, convert, flips, deaths>>
    BY <1>1, <1>4 DEF NoticeList
  <2>2. SponsorshipTypeOK'
    BY <2>1 DEF SponsorshipInv, SponsorshipTypeOK
  <2>3. Dates' /\ Listed'
    BY <2>1 DEF SponsorshipInv, Dates, Dated, Listed, Over, InState
  <2>4. QED BY <2>2, <2>3 DEF SponsorshipInv
<1>5. QED BY <1>2, <1>3, <1>4

(* The rest leaves the rows alone. *)
LEMMA OthersKeep ==
  ASSUME SponsorshipInv,
         \/ CascadeDone \/ CascadeDies \/ NoticesDone
         \/ ConvertFind \/ CheckoutPaid \/ CheckoutAbandoned \/ OwnLapses
         \/ (\E s \in Sponsors : SponsorChanges(s)) \/ UNCHANGED sponsorshipVars
  PROVE  SponsorshipInv'
<1>1. UNCHANGED <<day, row>>
  BY DEF CascadeDone, CascadeDies, NoticesDone, ConvertFind, CheckoutPaid, CheckoutAbandoned,
         OwnLapses, SponsorChanges, sponsorshipVars
<1>2. /\ cascade' \in {cascade, NoPass} /\ notices' \in {notices, NoPass}
      /\ own' \in {own, "good", "bad"}
      /\ paying' = paying \/ paying' = TRUE
      /\ lapsed' = lapsed \/ lapsed' \subseteq lapsed \cup Sponsors
      /\ flips' = flips \/ (flips < MaxFlips /\ flips' = flips + 1)
      /\ deaths' = deaths \/ (deaths < MaxDeaths /\ deaths' = deaths + 1)
  BY DEF CascadeDone, CascadeDies, NoticesDone, ConvertFind, CheckoutPaid, CheckoutAbandoned,
         OwnLapses, SponsorChanges, sponsorshipVars
<1>3. /\ convert' \in [at : {"idle", "mark", "checkout"}, id : 0..MaxRows]
      /\ convert'.at = "mark" => convert'.id \in DOMAIN row
  <2>1. CASE ConvertFind
    <3>1. \A i \in Live : i \in 0..MaxRows /\ i \in DOMAIN row
      BY NumbersFit DEF SponsorshipInv, Live, InState, RowIds
    <3>2. QED BY <2>1, <3>1, SponsorshipConstants DEF ConvertFind
  <2>2. CASE convert' \in {convert, NoConvert}
    BY <2>2, SponsorshipConstants DEF SponsorshipInv, SponsorshipTypeOK, Listed, NoConvert
  <2>3. QED
    BY <2>1, <2>2
       DEF CascadeDone, CascadeDies, NoticesDone, CheckoutPaid, CheckoutAbandoned,
           OwnLapses, SponsorChanges, sponsorshipVars
<1>4. NoPass.todo = {} /\ NoPass.doing = "idle"
      /\ NoPass \in [doing : {"idle", "protect", "end"}, todo : SUBSET RowIds]
      /\ NoPass \in [doing : {"idle", "mark"}, todo : SUBSET RowIds]
  BY DEF NoPass
<1>5. SponsorshipTypeOK'
  <2>1. flips' \in 0..MaxFlips /\ deaths' \in 0..MaxDeaths
    BY <1>2, SponsorshipConstants DEF SponsorshipInv, SponsorshipTypeOK
  <2>2. paying' \in BOOLEAN
    BY <1>2 DEF SponsorshipInv, SponsorshipTypeOK
  <2>3. QED BY <1>1, <1>2, <1>3, <1>4, <2>1, <2>2 DEF SponsorshipInv, SponsorshipTypeOK
<1>6. Dates' /\ Listed'
  BY <1>1, <1>2, <1>3, <1>4, SponsoredRowsStay
<1>7. QED BY <1>5, <1>6 DEF SponsorshipInv

LEMMA NextDayKeeps ==
  ASSUME SponsorshipInv, NextDay
  PROVE  SponsorshipInv'
<1>1. /\ day' = day + 1 /\ day' \in 0..MaxDay /\ cascade.todo = {} /\ notices.todo = {}
      /\ UNCHANGED <<lapsed, row, own, paying, cascade, notices, convert, flips, deaths>>
  BY NumbersFit, SponsorshipConstants DEF NextDay, NoPass, SponsorshipInv
<1>2. SponsorshipTypeOK'
  BY <1>1 DEF SponsorshipInv, SponsorshipTypeOK
<1>3. Dates'
  BY <1>1, NumbersFit DEF SponsorshipInv, Dates, Dated
<1>4. Listed'
  BY <1>1 DEF SponsorshipInv, Listed
<1>5. QED BY <1>2, <1>3, <1>4 DEF SponsorshipInv

-----------------------------------------------------------------------------
LEMMA SponsorshipStarts == SponsorshipInit => SponsorshipInv
<1> SUFFICES ASSUME SponsorshipInit PROVE SponsorshipInv
  OBVIOUS
<1>1. PICK s \in Sponsors : row = <<[sponsor |-> s, state |-> "ACTIVE", until |-> NoDate,
                                     ends |-> Term]>>
  BY DEF SponsorshipInit
<1>2. [sponsor |-> s, state |-> "ACTIVE", until |-> NoDate, ends |-> Term] \in SponsorshipRow
  BY SponsorshipConstants DEF SponsorshipRow, States
<1>3. /\ row \in Seq(SponsorshipRow) /\ Len(row) = 1 /\ DOMAIN row = {1}
      /\ row[1].state = "ACTIVE" /\ row[1].until = NoDate
  BY <1>1, <1>2
<1>4. cascade.todo = {} /\ notices.todo = {} /\ cascade.doing = "idle" /\ convert.at = "idle"
  BY DEF SponsorshipInit, NoPass, NoConvert
<1>5. Len(row) \in 0..MaxRows
  BY <1>3, SponsorshipConstants
<1>6. SponsorshipTypeOK
  <2>1. /\ NoPass \in [doing : {"idle", "protect", "end"}, todo : SUBSET RowIds]
        /\ NoPass \in [doing : {"idle", "mark"}, todo : SUBSET RowIds]
        /\ NoConvert \in [at : {"idle", "mark", "checkout"}, id : 0..MaxRows]
    BY SponsorshipConstants DEF NoPass, NoConvert
  <2>2. day \in 0..MaxDay /\ flips \in 0..MaxFlips /\ deaths \in 0..MaxDeaths
    BY SponsorshipConstants DEF SponsorshipInit
  <2>3. lapsed \subseteq Sponsors /\ own \in {"absent", "good", "bad"} /\ paying \in BOOLEAN
    BY DEF SponsorshipInit
  <2>4. cascade = NoPass /\ notices = NoPass /\ convert = NoConvert
    BY DEF SponsorshipInit
  <2>5. QED BY <1>3, <1>5, <2>1, <2>2, <2>3, <2>4 DEF SponsorshipTypeOK
<1>7. Dates /\ Listed
  BY <1>3, <1>4 DEF Dates, Dated, Listed
<1>8. QED BY <1>6, <1>7 DEF SponsorshipInv

LEMMA SponsorshipStep == SponsorshipInv /\ [SponsorshipNext]_sponsorshipVars => SponsorshipInv'
<1> SUFFICES ASSUME SponsorshipInv, [SponsorshipNext]_sponsorshipVars PROVE SponsorshipInv'
  OBVIOUS
<1>1. CASE CascadeStep
  BY <1>1, ListingKeeps, OthersKeep, ProtectKeeps, EndKeeps DEF CascadeStep
<1>2. CASE NoticeStep
  BY <1>2, OthersKeep, MarkPendingKeeps DEF NoticeStep
<1>3. CASE \E s \in Sponsors : Rematch(s) \/ SponsorChanges(s)
  BY <1>3, RematchKeeps, OthersKeep
<1>4. QED
  BY <1>1, <1>2, <1>3, ListingKeeps, ConvertMarkKeeps, OthersKeep, NextDayKeeps
     DEF SponsorshipNext

LEMMA SponsorshipAlways == SponsorshipSpec => []SponsorshipInv
BY SponsorshipStarts, SponsorshipStep, PTL DEF SponsorshipSpec

(* The variables keep their types. *)
THEOREM SponsorshipTypeCorrect == SponsorshipSpec => []SponsorshipTypeOK
<1>1. SponsorshipInv => SponsorshipTypeOK
  BY DEF SponsorshipInv
<1>2. QED BY <1>1, SponsorshipAlways, PTL

(* No sponsorship is ended before its protected window is over. *)
THEOREM EndedIsAfterItsWindow == SponsorshipSpec => []EndedAfterItsWindow
<1>1. SponsorshipInv => EndedAfterItsWindow
  BY DEF SponsorshipInv, Dates, Dated, EndedAfterItsWindow, InState
<1>2. QED BY <1>1, SponsorshipAlways, PTL

-----------------------------------------------------------------------------
(* A row that comes to grant full function takes it from nobody. *)
LEMMA GrantingWrite ==
  ASSUME SponsorshipInv, NEW i \in DOMAIN row, NEW r \in SponsorshipRow,
         row' = [row EXCEPT ![i] = r],
         r.state \in {"MEMBER_GRACE", "ANNIVERSARY_PENDING"}, Grants(r),
         UNCHANGED day, FullFunction
  PROVE  FullFunction'
<1>1. /\ DOMAIN row' = DOMAIN row /\ row'[i] = r
      /\ \A j \in DOMAIN row : j # i => row'[j] = row[j]
  BY RowMoves DEF SponsorshipInv
<1>2. Live' = Live \cup {i}
  BY <1>1 DEF Live, InState
<1>3. Grants(row[i])' /\ \A j \in DOMAIN row : j # i => (Grants(row[j])' <=> Grants(row[j]))
  BY <1>1 DEF Grants
<1>4. Live' \subseteq DOMAIN row /\ DOMAIN row \subseteq Int
  BY <1>2, NumbersFit DEF Live, InState, SponsorshipInv, RowIds
<1>5. CASE Live = {}
  BY <1>2, <1>3, <1>4, <1>5 DEF FullFunction, Governs
<1>6. CASE Live # {}
  <2>1. PICK j \in Live : Governs(j) /\ Grants(row[j])
    BY <1>6 DEF FullFunction
  <2>2. CASE j <= i
    <3>1. Governs(i)'
      BY <1>2, <1>4, <2>1, <2>2 DEF Governs
    <3>2. QED BY <1>2, <1>3, <3>1 DEF FullFunction
  <2>3. CASE ~(j <= i)
    <3>1. Governs(j)' /\ j \in Live' /\ j # i /\ j \in DOMAIN row
      BY <1>2, <1>4, <2>1, <2>3 DEF Governs
    <3>2. QED BY <1>3, <2>1, <3>1 DEF FullFunction
  <2>4. QED BY <2>2, <2>3
<1>7. QED BY <1>5, <1>6

(* Nor does ending a row that is over. *)
LEMMA EndingCutsNobody ==
  ASSUME SponsorshipInv, NEW i \in RowIds, End(i), FullFunction
  PROVE  FullFunction'
<1> DEFINE r == [row[i] EXCEPT !.state = "ENDED"]
<1>1. /\ i \in DOMAIN row /\ cascade.doing = "end" /\ i \in cascade.todo
      /\ row' = [row EXCEPT ![i] = r] /\ UNCHANGED <<day, own>>
  BY DEF End, SponsorshipInv, Listed
<1>2. r \in SponsorshipRow /\ r.state = "ENDED"
  BY <1>1, NumbersFit, StateMoves DEF SponsorshipInv, States
<1> HIDE DEF r
<1>3. /\ DOMAIN row' = DOMAIN row /\ row'[i] = r
      /\ \A j \in DOMAIN row : j # i => row'[j] = row[j]
  BY <1>1, <1>2, RowMoves DEF SponsorshipInv
<1>4. Live' = Live \ {i}
  BY <1>2, <1>3 DEF Live, InState
<1>5. ~Grants(row[i])
  BY <1>1, NumbersFit DEF SponsorshipInv, Listed, Over, Grants
<1>6. CASE Live = {}
  BY <1>1, <1>4, <1>6 DEF FullFunction
<1>7. CASE Live # {}
  <2>1. PICK j \in Live : Governs(j) /\ Grants(row[j])
    BY <1>7 DEF FullFunction
  <2>2. j # i /\ j \in Live' /\ j \in DOMAIN row
    BY <1>4, <1>5, <2>1 DEF Live, InState
  <2>3. Governs(j)' /\ Grants(row[j])'
    BY <1>1, <1>3, <1>4, <2>1, <2>2 DEF Governs, Grants
  <2>4. QED BY <2>2, <2>3 DEF FullFunction
<1>8. QED BY <1>6, <1>7

LEMMA StepCutsNobody ==
  ASSUME SponsorshipInv, CascadeStep \/ NoticeStep, FullFunction
  PROVE  FullFunction'
<1>1. ASSUME NEW i \in RowIds, Protect(i) PROVE FullFunction'
  <2> DEFINE r == [row[i] EXCEPT !.state = "MEMBER_GRACE", !.until = day + Grace]
  <2>1. i \in DOMAIN row /\ row' = [row EXCEPT ![i] = r] /\ UNCHANGED day
    BY <1>1 DEF Protect, SponsorshipInv, Listed
  <2>2. r \in SponsorshipRow /\ r.state = "MEMBER_GRACE" /\ r.until = day + Grace
    BY <2>1, NumbersFit DEF SponsorshipInv, SponsorshipRow, States
  <2> HIDE DEF r
  <2>3. Grants(r)
    BY <2>2, NumbersFit, SponsorshipConstants DEF Grants, SponsorshipInv
  <2>4. QED BY <2>1, <2>2, <2>3, GrantingWrite
<1>2. ASSUME NEW i \in RowIds, MarkPending(i) PROVE FullFunction'
  <2> DEFINE r == [row[i] EXCEPT !.state = "ANNIVERSARY_PENDING"]
  <2>1. i \in DOMAIN row /\ row' = [row EXCEPT ![i] = r] /\ UNCHANGED day
    BY <1>2 DEF MarkPending, SponsorshipInv, Listed
  <2>2. r \in SponsorshipRow /\ r.state = "ANNIVERSARY_PENDING"
    BY <2>1, NumbersFit, StateMoves DEF SponsorshipInv, States
  <2> HIDE DEF r
  <2>3. Grants(r)
    BY <2>2 DEF Grants
  <2>4. QED BY <2>1, <2>2, <2>3, GrantingWrite
<1>3. CASE ExpireList \/ CascadeDone \/ NoticesDone
  <2>1. UNCHANGED <<day, row, own>>
    BY <1>3 DEF ExpireList, CascadeDone, NoticesDone
  <2>2. QED BY <2>1 DEF FullFunction, Live, Governs, Grants, InState
<1>4. QED BY <1>1, <1>2, <1>3, EndingCutsNobody DEF CascadeStep, NoticeStep

(* No write of a pass, however stale, takes full function from a member. *)
THEOREM PassesCutNobody == SponsorshipSpec => PassesNeverCut
<1>1. SponsorshipInv /\ [SponsorshipNext]_sponsorshipVars
        => [CascadeStep \/ NoticeStep => (FullFunction => FullFunction')]_sponsorshipVars
  BY StepCutsNobody
<1>2. QED BY <1>1, SponsorshipAlways, PTL DEF SponsorshipSpec, PassesNeverCut

-----------------------------------------------------------------------------
(* The rights of a member and the trees. *)

(* A match that is about to be written is with another user. *)
MatchedWithAnother ==
  \A w \in Workers : worker[w].at = "accept" => worker[w].other # worker[w].user

(* The three facts about the trees hold together: that no re-parent makes a *)
(* user their own upline needs the edge the user has from the deleted one.  *)
Trees == UplineHasEdge /\ SponsorIsUpline /\ NobodyTheirOwnUpline

(* What a deletion in progress has written and not committed, by its stage.  *)
(* Before the commit no edge it brings is of a user to themselves.           *)
Shaped(r) ==
  /\ r.at \notin {"moved", "edges", "checked"} => r.moved = {}
  /\ r.at \notin {"edges", "checked"} => r.gone = {} /\ r.came = {}
  /\ \A e \in r.gone : e[1] = r.user \/ e[2] = r.user
  /\ \A e \in r.came : e[1] = r.other
  /\ r.came # {} => r.gone # {}
  /\ r.at = "checked" => \A v \in Users : <<v, v>> \notin r.came

(* The users it moves are still under the user it deletes ...                *)
MovesItsOwn(r) == \A v \in r.moved : upline[v] = r.user

(* ... each has the edge it will need ...                                    *)
BringsTheirEdges(r) ==
  r.at \in {"edges", "checked"} /\ r.other # Nobody =>
    \A v \in r.moved \ (crossed \cup scrubbed \cup {r.user}) : <<r.other, v>> \in r.came

(* ... and whoever else is under that user crossed it or keeps the edge.     *)
MovesAllOrKeeps(r) ==
  \A v \in Users \ (scrubbed \cup {r.user}) :
    upline[v] = r.user /\ (r.at = "moved" \/ <<r.user, v>> \in r.gone)
      => v \in r.moved \cup crossed

Fits(r) == Shaped(r) /\ MovesItsOwn(r) /\ BringsTheirEdges(r) /\ MovesAllOrKeeps(r)

(* No two deletions write the same row.                                      *)
Apart(r, q) == r.moved \cap q.moved = {} /\ r.gone \cap q.came = {} /\ q.gone \cap r.came = {}

InFlight ==
  /\ \A w \in Workers : Fits(worker[w])
  /\ \A w \in Workers, x \in Workers : w # x => Apart(worker[w], worker[x])

RightsInv == TypeOK /\ MatchedWithAnother /\ InFlight /\ Trees /\ ScrubIsRecorded

(* What a step does to the requests: the rows stay, each with its user. *)
RowsStay ==
  /\ request' \in Seq(RequestRow) /\ Len(request') <= MaxRequests
  /\ DOMAIN request \subseteq DOMAIN request'
  /\ \A i \in DOMAIN request : request'[i].user = request[i].user

-----------------------------------------------------------------------------
LEMMA IdsAreNumbers ==
  Users \subseteq Ids /\ Nobody \in Ids /\ Nobody \notin Users /\ Ids \subseteq Int
BY DataRightsConstants DEF Users, Ids, Nobody

(* A worker of the state space is sound, and takes the shapes the steps give it. *)
LEMMA WorkerShape ==
  ASSUME TypeOK, NEW w \in Workers
  PROVE  /\ worker[w] \in WorkerState /\ Sound(worker[w])
         /\ worker[w].at \in Stages /\ worker[w].user \in Ids
         /\ worker[w].id \in Nat /\ worker[w].other \in Ids
         /\ worker[w].moved \in SUBSET Users
         /\ worker[w].gone \in SUBSET (Users \X Users)
         /\ worker[w].came \in SUBSET (Users \X Users)
BY DEF TypeOK, WorkerState

(* A worker that has written nothing. *)
Unwritten(r) ==
  /\ r.at \notin {"moved", "edges", "checked"}
  /\ r.moved = {} /\ r.gone = {} /\ r.came = {}

LEMMA WorkingShape ==
  ASSUME NEW at \in Stages \ {"moved", "edges", "checked"}, NEW u \in Ids, NEW id \in Nat,
         NEW s \in Ids
  PROVE  LET r == Working(at, u, id, s)
         IN  /\ r \in WorkerState /\ Unwritten(r)
             /\ r.at = at /\ r.user = u /\ r.id = id /\ r.other = s
BY DEF Working, WorkerState, Unwritten

LEMMA IdleShape == Idle \in WorkerState /\ Idle.at = "idle" /\ Unwritten(Idle)
<1>1. "idle" \in Stages \ {"moved", "edges", "checked"} /\ Nobody \in Ids /\ 0 \in Nat
  BY IdsAreNumbers DEF Stages
<1>2. QED BY <1>1, WorkingShape DEF Idle

LEMMA UnwrittenFits ==
  ASSUME NEW r \in WorkerState, Unwritten(r)
  PROVE  Fits(r) /\ Fits(r)' /\ \A q \in WorkerState : Apart(r, q) /\ Apart(q, r)
<1>1. Shaped(r)
  BY DEF Shaped, Unwritten
<1>2. MovesItsOwn(r) /\ MovesItsOwn(r)'
  BY DEF MovesItsOwn, Unwritten
<1>3. BringsTheirEdges(r) /\ BringsTheirEdges(r)'
  BY DEF BringsTheirEdges, Unwritten
<1>4. MovesAllOrKeeps(r) /\ MovesAllOrKeeps(r)'
  BY DEF MovesAllOrKeeps, Unwritten
<1>5. \A q \in WorkerState : Apart(r, q) /\ Apart(q, r)
  BY DEF Apart, Unwritten
<1>6. QED BY <1>1, <1>2, <1>3, <1>4, <1>5 DEF Fits, Shaped

(* One worker's move: the others go on fitting what they wrote if they fit   *)
(* the trees after it.                                                       *)
LEMMA WorkersGoOn ==
  ASSUME TypeOK, InFlight, NEW w \in Workers, NEW rec \in WorkerState, Becomes(w, rec),
         Fits(rec)', \A x \in Workers \ {w} : Fits(worker[x])',
         \A x \in Workers \ {w} : Apart(rec, worker[x]) /\ Apart(worker[x], rec)
  PROVE  InFlight'
<1>1. worker \in [Workers -> WorkerState] /\ worker' = [worker EXCEPT ![w] = rec]
  BY DEF TypeOK, Becomes
<1>2. worker'[w] = rec /\ \A x \in Workers \ {w} : worker'[x] = worker[x]
  BY <1>1
<1>3. Fits(worker[w])'
  BY <1>2 DEF Fits, Shaped, MovesItsOwn, BringsTheirEdges, MovesAllOrKeeps
<1>4. ASSUME NEW x \in Workers, NEW y \in Workers, x # y
      PROVE  Apart(worker[x], worker[y])'
  <2>1. CASE x = w
    BY <1>2, <1>4, <2>1 DEF Apart
  <2>2. CASE y = w
    BY <1>2, <1>4, <2>2 DEF Apart
  <2>3. CASE x # w /\ y # w
    BY <1>2, <1>4, <2>3 DEF Apart, InFlight
  <2>4. QED BY <2>1, <2>2, <2>3
<1>5. QED BY <1>3, <1>4 DEF InFlight

(* While the trees stand still, what the others wrote still fits. *)
LEMMA OthersFit ==
  ASSUME TypeOK, InFlight, NEW w \in Workers, NEW rec \in WorkerState, Becomes(w, rec),
         UNCHANGED <<upline, crossed, scrubbed>>
  PROVE  \A x \in Workers \ {w} : Fits(worker[x])'
<1>1. \A x \in Workers \ {w} : worker'[x] = worker[x] /\ Fits(worker[x])
  BY DEF TypeOK, Becomes, InFlight
<1>2. QED BY <1>1 DEF Fits, Shaped, MovesItsOwn, BringsTheirEdges, MovesAllOrKeeps

LEMMA NothingWritten ==
  ASSUME TypeOK, InFlight, NEW w \in Workers, NEW rec \in WorkerState, Becomes(w, rec),
         Unwritten(rec), UNCHANGED <<upline, crossed, scrubbed>>
  PROVE  InFlight'
<1>1. \A x \in Workers : worker[x] \in WorkerState
  BY DEF TypeOK
<1>2. Fits(rec)' /\ \A x \in Workers : Apart(rec, worker[x]) /\ Apart(worker[x], rec)
  BY <1>1, UnwrittenFits
<1>3. QED BY <1>2, OthersFit, WorkersGoOn

(* One worker's move keeps every worker sound while the rows stay. *)
LEMMA WorkersStaySound ==
  ASSUME TypeOK, MatchedWithAnother, RowsStay,
         NEW w \in Workers, NEW rec \in WorkerState, Becomes(w, rec),
         Sound(rec)', rec.at = "accept" => rec.other # rec.user
  PROVE  /\ worker' \in [Workers -> WorkerState]
         /\ \A x \in Workers : Sound(worker[x])'
         /\ MatchedWithAnother'
<1>1. worker \in [Workers -> WorkerState] /\ worker' = [worker EXCEPT ![w] = rec]
  BY DEF TypeOK, Becomes
<1>2. worker' \in [Workers -> WorkerState]
  BY <1>1
<1>3. ASSUME NEW x \in Workers PROVE Sound(worker[x])'
  <2>1. CASE x = w
    BY <1>1, <2>1 DEF Sound
  <2>2. CASE x # w
    <3>1. worker'[x] = worker[x] /\ Sound(worker[x])
      BY <1>1, <2>2 DEF TypeOK
    <3>2. QED BY <3>1 DEF Sound, RowsStay
  <2>3. QED BY <2>1, <2>2
<1>4. MatchedWithAnother'
  BY <1>1 DEF MatchedWithAnother
<1>5. QED BY <1>2, <1>3, <1>4

LEMMA IdleAgain ==
  ASSUME TypeOK, MatchedWithAnother, RowsStay, NEW w \in Workers, Becomes(w, Idle)
  PROVE  /\ worker' \in [Workers -> WorkerState]
         /\ \A x \in Workers : Sound(worker[x])'
         /\ MatchedWithAnother'
<1>1. Sound(Idle)'
  BY IdleShape DEF Sound, InDeletion
<1>2. QED BY <1>1, IdleShape, WorkersStaySound

LEMMA RequestsUnchanged ==
  ASSUME TypeOK, UNCHANGED request
  PROVE  RowsStay
BY DEF TypeOK, RowsStay

LEMMA StatusMoves ==
  ASSUME TypeOK, NEW i \in DOMAIN request, NEW s \in {"PENDING", "HELD", "COMPLETED"},
         request' = [request EXCEPT ![i].status = s]
  PROVE  /\ RowsStay /\ DOMAIN request' = DOMAIN request
         /\ request'[i].status = s /\ request'[i].user = request[i].user
         /\ \A j \in DOMAIN request : j # i => request'[j] = request[j]
<1>1. request \in Seq(RequestRow) /\ request[i] \in RequestRow /\ Len(request) <= MaxRequests
  BY DEF TypeOK
<1>2. [request[i] EXCEPT !.status = s] \in RequestRow
  BY <1>1 DEF RequestRow
<1>3. request' = [request EXCEPT ![i] = [request[i] EXCEPT !.status = s]]
  OBVIOUS
<1>4. request' \in Seq(RequestRow) /\ Len(request') = Len(request) /\ DOMAIN request' = DOMAIN request
  BY <1>1, <1>2, <1>3
<1>5. /\ request'[i] = [request[i] EXCEPT !.status = s]
      /\ \A j \in DOMAIN request : j # i => request'[j] = request[j]
  BY <1>1, <1>3
<1>6. request'[i].status = s /\ request'[i].user = request[i].user
  BY <1>1, <1>5 DEF RequestRow
<1>7. QED BY <1>1, <1>4, <1>5, <1>6 DEF RowsStay

LEMMA Appended ==
  ASSUME TypeOK, NEW r \in RequestRow, Len(request) < MaxRequests, request' = Append(request, r)
  PROVE  /\ RowsStay /\ DOMAIN request' = 1..(Len(request) + 1)
         /\ request'[Len(request) + 1] = r
         /\ \A j \in DOMAIN request : request'[j] = request[j]
<1>1. request \in Seq(RequestRow) /\ MaxRequests \in Nat
  BY DataRightsConstants DEF TypeOK
<1>2. request' \in Seq(RequestRow) /\ Len(request') = Len(request) + 1
  BY <1>1
<1>3. DOMAIN request' = 1..(Len(request) + 1) /\ DOMAIN request = 1..Len(request)
  BY <1>1, <1>2
<1>4. \A j \in DOMAIN request : request'[j] = request[j]
  BY <1>1, <1>3
<1>5. QED BY <1>1, <1>2, <1>3, <1>4 DEF RowsStay

(* A step that leaves the trees and the scrub alone keeps what they promise. *)
LEMMA TreesStay ==
  ASSUME Trees, UNCHANGED <<upline, edges, sponsored, scrubbed, crossed>>
  PROVE  Trees'
BY DEF Trees, UplineHasEdge, SponsorIsUpline, NobodyTheirOwnUpline

LEMMA TypesStay ==
  ASSUME TypeOK, UNCHANGED <<tree, scrubbed>>
  PROVE  /\ upline' \in [Users -> Ids] /\ edges' \subseteq Users \X Users
         /\ sponsored' \in [Users -> Ids] /\ scrubbed' \subseteq Users /\ lapses' \in Nat
         /\ crossed' \subseteq Users
BY DEF TypeOK, tree

LEMMA LegalStays ==
  ASSUME TypeOK, UNCHANGED legal
  PROVE  holds' \in [Users -> Nat] /\ placed' \in Nat
BY DEF TypeOK, legal

LEMMA RecordStays ==
  ASSUME ScrubIsRecorded, UNCHANGED <<scrubbed, request>>
  PROVE  ScrubIsRecorded'
BY DEF ScrubIsRecorded

(* A move of one worker that touches nothing else. *)
LEMMA WorkerOnly ==
  ASSUME RightsInv, NEW w \in Workers, NEW rec \in WorkerState, Becomes(w, rec), Sound(rec),
         rec.at = "accept" => rec.other # rec.user,
         Fits(rec)', \A x \in Workers \ {w} : Apart(rec, worker[x]) /\ Apart(worker[x], rec),
         UNCHANGED <<tree, scrubbed, request, legal>>
  PROVE  RightsInv'
<1>1. RowsStay /\ Sound(rec)' /\ UNCHANGED <<upline, edges, sponsored, crossed, scrubbed, request>>
  BY RequestsUnchanged DEF RightsInv, Sound, tree
<1>2. /\ worker' \in [Workers -> WorkerState] /\ MatchedWithAnother'
      /\ \A x \in Workers : Sound(worker[x])'
  BY <1>1, WorkersStaySound DEF RightsInv
<1>3. TypeOK'
  BY <1>1, <1>2, TypesStay, LegalStays DEF RightsInv, TypeOK, RowsStay
<1>4. InFlight'
  <2>1. TypeOK /\ InFlight
    BY DEF RightsInv
  <2>2. \A x \in Workers \ {w} : Fits(worker[x])'
    BY <1>1, <2>1, OthersFit
  <2>3. QED BY <2>1, <2>2, WorkersGoOn
<1>5. Trees' /\ ScrubIsRecorded'
  BY <1>1, TreesStay, RecordStays DEF RightsInv
<1>6. QED BY <1>2, <1>3, <1>4, <1>5 DEF RightsInv

LEMMA WorkerWritesNothing ==
  ASSUME RightsInv, NEW w \in Workers, NEW rec \in WorkerState, Becomes(w, rec), Sound(rec),
         rec.at = "accept" => rec.other # rec.user, Unwritten(rec),
         UNCHANGED <<tree, scrubbed, request, legal>>
  PROVE  RightsInv'
<1>1. \A x \in Workers : worker[x] \in WorkerState
  BY DEF RightsInv, TypeOK
<1>2. Fits(rec)' /\ \A x \in Workers : Apart(rec, worker[x]) /\ Apart(worker[x], rec)
  BY <1>1, UnwrittenFits
<1>3. QED BY <1>2, WorkerOnly

LEMMA WorkerIdles ==
  ASSUME RightsInv, NEW w \in Workers, Becomes(w, Idle), UNCHANGED <<tree, scrubbed, request, legal>>
  PROVE  RightsInv'
<1>1. Sound(Idle)
  BY IdleShape DEF Sound, InDeletion
<1>2. QED BY <1>1, IdleShape, WorkerWritesNothing

-----------------------------------------------------------------------------
LEMMA StartsKeep ==
  ASSUME RightsInv, NEW w \in Workers, NEW u \in Users,
         AcceptMatch(w, u) \/ PostRead(w, u) \/ PlaceRead(w, u)
  PROVE  RightsInv'
<1>1. CASE AcceptMatch(w, u)
  <2>1. PICK s \in Users : Chosen(s, u) /\ Becomes(w, Working("accept", u, 0, s))
    BY <1>1 DEF AcceptMatch
  <2> DEFINE rec == Working("accept", u, 0, s)
  <2>2. /\ rec \in WorkerState /\ Unwritten(rec)
        /\ rec.at = "accept" /\ rec.user = u /\ rec.other = s
    BY IdsAreNumbers, WorkingShape DEF Stages
  <2>3. Becomes(w, rec) /\ s # u
    BY <2>1 DEF Chosen
  <2>4. UNCHANGED <<tree, scrubbed, request, legal>>
    BY <1>1 DEF AcceptMatch
  <2> HIDE DEF rec
  <2>5. Sound(rec)
    BY <2>2 DEF Sound, InDeletion
  <2>6. QED BY <2>2, <2>3, <2>4, <2>5, WorkerWritesNothing
<1>2. CASE PostRead(w, u) \/ PlaceRead(w, u)
  <2>1. PICK at \in {"post", "place"} : Becomes(w, Working(at, u, 0, Nobody))
    BY <1>2 DEF PostRead, PlaceRead
  <2> DEFINE rec == Working(at, u, 0, Nobody)
  <2>2. /\ rec \in WorkerState /\ Unwritten(rec)
        /\ rec.at = at /\ rec.user = u
    BY IdsAreNumbers, WorkingShape DEF Stages
  <2>3. Becomes(w, rec) /\ UNCHANGED <<tree, scrubbed, request, legal>>
    BY <1>2, <2>1 DEF PostRead, PlaceRead
  <2> HIDE DEF rec
  <2>4. Sound(rec) /\ rec.at # "accept"
    BY <2>2 DEF Sound, InDeletion
  <2>5. QED BY <2>2, <2>3, <2>4, WorkerWritesNothing
<1>3. QED BY <1>1, <1>2

LEMMA ConfirmKeeps ==
  ASSUME RightsInv, NEW w \in Workers, NEW i \in Rows, Confirm(w, i)
  PROVE  RightsInv'
<1> DEFINE rec == Working("confirm", request[i].user, i, Nobody)
<1>0. i \in DOMAIN request /\ request \in Seq(RequestRow)
  BY DEF Confirm, RightsInv, TypeOK
<1>1. i \in Nat /\ request[i] \in RequestRow
  BY <1>0
<1>6. request[i].user \in Users /\ request[i].user \in Ids
  BY <1>1, IdsAreNumbers DEF RequestRow
<1>2. /\ rec \in WorkerState /\ Unwritten(rec)
      /\ rec.at = "confirm" /\ rec.user = request[i].user /\ rec.id = i
  <2>1. "confirm" \in Stages \ {"moved", "edges", "checked"} /\ Nobody \in Ids
    BY IdsAreNumbers DEF Stages
  <2>2. QED BY <1>1, <1>6, <2>1, WorkingShape
<1>3. Becomes(w, rec) /\ UNCHANGED <<tree, scrubbed, request, legal>>
  BY DEF Confirm
<1> HIDE DEF rec
<1>4. Sound(rec)
  BY <1>0, <1>6, <1>2 DEF Sound, InDeletion
<1>5. QED BY <1>2, <1>3, <1>4, WorkerWritesNothing

(* What a worker that has written nothing yet becomes when it moves on. *)
LEMMA MovesOn ==
  ASSUME NEW r \in WorkerState, Unwritten(r), NEW at \in {"held", "clear"}
  PROVE  LET q == [r EXCEPT !.at = at]
         IN  /\ q \in WorkerState /\ Unwritten(q)
             /\ q.at = at /\ q.user = r.user /\ q.id = r.id /\ q.other = r.other
BY DEF WorkerState, Unwritten, Stages

LEMMA ChecksKeep ==
  ASSUME RightsInv, NEW w \in Workers, CheckHold(w) \/ BeginDeletion(w)
  PROVE  RightsInv'
<1>1. PICK r \in WorkerState : r = worker[w]
  BY WorkerShape DEF RightsInv
<1>2. /\ Sound(r) /\ r.at \in {"confirm", "clear"} /\ r.user \in Users
      /\ r.id \in DOMAIN request /\ request[r.id].user = r.user
  BY <1>1, WorkerShape DEF RightsInv, CheckHold, BeginDeletion, Sound
<1>3. Unwritten(r)
  BY <1>1, <1>2 DEF RightsInv, InFlight, Fits, Shaped, Unwritten
<1>4. CASE CheckHold(w)
  <2>1. PICK at \in {"held", "clear"} : Becomes(w, [r EXCEPT !.at = at])
    BY <1>1, <1>4 DEF CheckHold
  <2> DEFINE q == [r EXCEPT !.at = at]
  <2>2. q \in WorkerState /\ Unwritten(q) /\ q.at = at /\ q.user = r.user /\ q.id = r.id
    BY <1>3, MovesOn
  <2>3. Becomes(w, q) /\ UNCHANGED <<tree, scrubbed, request, legal>>
    BY <1>4, <2>1 DEF CheckHold
  <2> HIDE DEF q
  <2>4. Sound(q) /\ q.at # "accept"
    BY <1>2, <2>2 DEF Sound, InDeletion
  <2>5. QED BY <2>2, <2>3, <2>4, WorkerWritesNothing
<1>5. CASE BeginDeletion(w)
  <2>1. PICK n \in Ids : n = upline[r.user]
    BY <1>2 DEF RightsInv, TypeOK
  <2>0. PICK q : q = [r EXCEPT !.at = "tx", !.other = n]
    OBVIOUS
  <2>2. q \in WorkerState /\ Unwritten(q) /\ q.at = "tx" /\ q.user = r.user /\ q.id = r.id
    BY <1>3, <2>0 DEF WorkerState, Unwritten, Stages, InDeletion
  <2>3. Becomes(w, q) /\ UNCHANGED <<tree, scrubbed, request, legal>>
    BY <1>1, <1>5, <2>0, <2>1 DEF BeginDeletion
  <2>4. Sound(q) /\ q.at # "accept"
    BY <1>2, <2>2 DEF Sound, InDeletion
  <2>5. QED BY <2>2, <2>3, <2>4, WorkerWritesNothing
<1>6. QED BY <1>4, <1>5

LEMMA PostCreateKeeps ==
  ASSUME RightsInv, NEW w \in Workers, PostCreate(w)
  PROVE  RightsInv'
<1> DEFINE r == [user |-> worker[w].user, status |-> "PENDING"]
<1>1. r \in RequestRow
  BY WorkerShape DEF RightsInv, PostCreate, Sound, RequestRow
<1>2. /\ RowsStay /\ DOMAIN request' = 1..(Len(request) + 1)
      /\ request'[Len(request) + 1] = r
      /\ \A j \in DOMAIN request : request'[j] = request[j]
  BY <1>1, Appended DEF RightsInv, PostCreate
<1>3. /\ worker' \in [Workers -> WorkerState] /\ MatchedWithAnother'
      /\ \A x \in Workers : Sound(worker[x])'
  BY <1>2, IdleAgain DEF RightsInv, PostCreate
<1>4. TypeOK'
  BY <1>2, <1>3, TypesStay, LegalStays DEF RightsInv, TypeOK, RowsStay, PostCreate
<1>5. Trees' /\ InFlight'
  <2>1. UNCHANGED <<upline, edges, sponsored, scrubbed, crossed>> /\ Becomes(w, Idle)
    BY DEF PostCreate, tree
  <2>2. QED BY <2>1, TreesStay, IdleShape, NothingWritten DEF RightsInv
<1>6. ScrubIsRecorded'
  <2>1. scrubbed' = scrubbed /\ request \in Seq(RequestRow) /\ DOMAIN request = 1..Len(request)
    BY DEF PostCreate, RightsInv, TypeOK
  <2>2. ASSUME NEW j \in DOMAIN request'
        PROVE  request'[j].status = "COMPLETED" => j \in DOMAIN request
    BY <1>2, <2>1
  <2>3. QED BY <1>2, <2>1, <2>2 DEF RightsInv, ScrubIsRecorded, RowsStay
<1>7. QED BY <1>3, <1>4, <1>5, <1>6 DEF RightsInv

LEMMA MarkHeldKeeps ==
  ASSUME RightsInv, NEW w \in Workers, MarkHeld(w)
  PROVE  RightsInv'
<1>1. worker[w].id \in DOMAIN request
  BY WorkerShape DEF RightsInv, MarkHeld, Sound
<1>2. /\ RowsStay /\ DOMAIN request' = DOMAIN request
      /\ request'[worker[w].id].status = "HELD"
      /\ request'[worker[w].id].user = request[worker[w].id].user
      /\ \A j \in DOMAIN request : j # worker[w].id => request'[j] = request[j]
  BY <1>1, StatusMoves DEF RightsInv, MarkHeld
<1>3. /\ worker' \in [Workers -> WorkerState] /\ MatchedWithAnother'
      /\ \A x \in Workers : Sound(worker[x])'
  BY <1>2, IdleAgain DEF RightsInv, MarkHeld
<1>4. TypeOK'
  BY <1>2, <1>3, TypesStay, LegalStays DEF RightsInv, TypeOK, RowsStay, MarkHeld
<1>5. Trees' /\ InFlight'
  <2>1. UNCHANGED <<upline, edges, sponsored, scrubbed, crossed>> /\ Becomes(w, Idle)
    BY DEF MarkHeld, tree
  <2>2. QED BY <2>1, TreesStay, IdleShape, NothingWritten DEF RightsInv
<1>6. scrubbed' = scrubbed
  BY DEF MarkHeld
<1>7. ScrubIsRecorded'
  BY <1>1, <1>2, <1>6 DEF RightsInv, ScrubIsRecorded
<1>8. QED BY <1>3, <1>4, <1>5, <1>7 DEF RightsInv

LEMMA PlaceKeeps ==
  ASSUME RightsInv, NEW w \in Workers, PlaceCreate(w)
  PROVE  RightsInv'
<1>1. RowsStay /\ UNCHANGED <<tree, scrubbed, request>>
  BY RequestsUnchanged DEF RightsInv, PlaceCreate
<1>2. /\ worker' \in [Workers -> WorkerState] /\ MatchedWithAnother'
      /\ \A x \in Workers : Sound(worker[x])'
  BY <1>1, IdleAgain DEF RightsInv, PlaceCreate
<1>3. holds' \in [Users -> Nat] /\ placed' \in Nat
  <2>1. /\ holds \in [Users -> Nat] /\ placed \in Nat /\ placed' = placed + 1
        /\ holds' = [holds EXCEPT ![worker[w].user] = @ + 1]
    BY DEF RightsInv, TypeOK, PlaceCreate
  <2>2. worker[w].user \in Users
    BY WorkerShape DEF RightsInv, PlaceCreate, Sound
  <2>3. PICK u \in Users : u = worker[w].user
    BY <2>2
  <2>4. holds' = [holds EXCEPT ![u] = @ + 1] /\ holds[u] \in Nat
    BY <2>1, <2>3
  <2>5. QED BY <2>1, <2>4
<1>4. TypeOK'
  BY <1>1, <1>2, <1>3, TypesStay DEF RightsInv, TypeOK, RowsStay
<1>5. Trees' /\ ScrubIsRecorded' /\ InFlight'
  <2>1. UNCHANGED <<upline, edges, sponsored, scrubbed, crossed>> /\ Becomes(w, Idle)
    BY <1>1 DEF PlaceCreate, tree
  <2>2. QED BY <1>1, <2>1, TreesStay, RecordStays, IdleShape, NothingWritten DEF RightsInv
<1>6. QED BY <1>2, <1>4, <1>5 DEF RightsInv

(* A step no worker takes and that leaves the trees alone. *)
LEMMA InFlightStays ==
  ASSUME InFlight, UNCHANGED <<worker, upline, crossed, scrubbed>>
  PROVE  InFlight'
BY DEF InFlight, Apart, Fits, Shaped, MovesItsOwn, BringsTheirEdges, MovesAllOrKeeps

LEMMA LapseKeeps ==
  ASSUME RightsInv, NEW u \in Users, SponsorshipLapses(u)
  PROVE  RightsInv'
<1>1. /\ sponsored' = [sponsored EXCEPT ![u] = Nobody] /\ lapses' = lapses + 1
      /\ UNCHANGED <<upline, edges, crossed, scrubbed, request, legal, worker>>
  BY DEF SponsorshipLapses
<1>2. sponsored' \in [Users -> Ids] /\ lapses' \in Nat
  BY <1>1, IdsAreNumbers DEF RightsInv, TypeOK
<1>3. TypeOK' /\ MatchedWithAnother'
  BY <1>1, <1>2, LegalStays DEF RightsInv, TypeOK, Sound, MatchedWithAnother
<1>4. SponsorIsUpline'
  BY <1>1 DEF RightsInv, TypeOK, Trees, SponsorIsUpline
<1>5. Trees' /\ ScrubIsRecorded'
  BY <1>1, <1>4, RecordStays DEF RightsInv, Trees, UplineHasEdge, NobodyTheirOwnUpline
<1>6. InFlight'
  BY <1>1, InFlightStays DEF RightsInv
<1>7. QED BY <1>3, <1>5, <1>6 DEF RightsInv

(* A match disturbs no deletion in progress: it waits for the rows one has   *)
(* written, and whom it brings under a deleted user in between has crossed.  *)
LEMMA AcceptLeavesRoom ==
  ASSUME RightsInv, NEW w \in Workers, AcceptCommit(w)
  PROVE  InFlight'
<1>1. PICK u \in Users, s \in Users : u = worker[w].user /\ s = worker[w].other
  BY WorkerShape DEF RightsInv, AcceptCommit, Sound
<1>2. /\ upline' = [upline EXCEPT ![u] = s] /\ upline \in [Users -> Ids]
      /\ Becomes(w, Idle) /\ UNCHANGED scrubbed
      /\ ~UserLocked(u) /\ ~EdgesLocked(w, {<<s, u>>})
      /\ crossed' = IF \E x \in Workers : InTheGap(x, s) THEN crossed \cup {u}
                                                         ELSE crossed \ {u}
  BY <1>1 DEF AcceptCommit, RightsInv, TypeOK
<1>3. \A v \in Users \ {u} : upline'[v] = upline[v] /\ (v \in crossed' <=> v \in crossed)
  BY <1>2
<1>4. upline'[u] = s
  BY <1>2
<1>5. ASSUME NEW x \in Workers \ {w} PROVE Fits(worker[x])'
  <2>1. PICK r \in WorkerState : r = worker[x] /\ r = worker'[x]
    BY <1>2 DEF RightsInv, TypeOK, Becomes
  <2>2. u \notin r.moved /\ <<s, u>> \notin r.gone /\ Fits(r)
        /\ r.moved \subseteq Users
    BY <1>2, <1>5, <2>1 DEF RightsInv, InFlight, UserLocked, EdgesLocked, WorkerState
  <2>3. MovesItsOwn(r)'
    BY <1>3, <2>2 DEF Fits, MovesItsOwn
  <2>4. BringsTheirEdges(r)'
    BY <1>2, <1>3, <2>2 DEF Fits, BringsTheirEdges
  <2>5. MovesAllOrKeeps(r)'
    <3>1. SUFFICES ASSUME NEW v \in Users, v \notin scrubbed, v # r.user, upline'[v] = r.user,
                          r.at = "moved" \/ <<r.user, v>> \in r.gone
                   PROVE  v \in r.moved \/ v \in crossed'
      BY <1>2 DEF MovesAllOrKeeps
    <3>2. CASE v = u
      <4>1. r.user = s
        BY <1>4, <3>1, <3>2
      <4>2. r.at = "moved"
        BY <2>2, <3>1, <3>2, <4>1
      <4>3. InTheGap(x, s)
        BY <2>1, <4>1, <4>2 DEF InTheGap
      <4>4. QED BY <1>2, <3>2, <4>3
    <3>3. CASE v # u
      BY <1>3, <2>2, <3>1, <3>3 DEF Fits, MovesAllOrKeeps
    <3>4. QED BY <3>2, <3>3
  <2>6. QED BY <2>1, <2>2, <2>3, <2>4, <2>5
        DEF Fits, Shaped, MovesItsOwn, BringsTheirEdges, MovesAllOrKeeps
<1>6. \A x \in Workers : worker[x] \in WorkerState
  BY DEF RightsInv, TypeOK
<1>7. Fits(Idle)' /\ \A x \in Workers : Apart(Idle, worker[x]) /\ Apart(worker[x], Idle)
  BY <1>6, IdleShape, UnwrittenFits
<1>8. QED BY <1>2, <1>5, <1>7, IdleShape, WorkersGoOn DEF RightsInv

(* The three rows of a match are written together. *)
LEMMA AcceptKeeps ==
  ASSUME RightsInv, NEW w \in Workers, AcceptCommit(w)
  PROVE  RightsInv'
<1> DEFINE u == worker[w].user
           s == worker[w].other
<1>1. u \in Users /\ s \in Users /\ s # u
  BY WorkerShape DEF RightsInv, AcceptCommit, Sound, Stages, MatchedWithAnother
<1>2. /\ sponsored' = [sponsored EXCEPT ![u] = s] /\ upline' = [upline EXCEPT ![u] = s]
      /\ edges' = edges \cup {<<s, u>>}
      /\ UNCHANGED <<scrubbed, request, legal, lapses>>
  BY DEF AcceptCommit
<1>0. /\ upline \in [Users -> Ids] /\ sponsored \in [Users -> Ids]
      /\ edges \subseteq Users \X Users /\ s \in Ids
  BY <1>1, IdsAreNumbers DEF RightsInv, TypeOK
<1>3. /\ upline' \in [Users -> Ids] /\ sponsored' \in [Users -> Ids]
      /\ edges' \subseteq Users \X Users
      /\ upline'[u] = s /\ sponsored'[u] = s
      /\ \A v \in Users \ {u} : upline'[v] = upline[v] /\ sponsored'[v] = sponsored[v]
  <2> HIDE DEF u, s
  <2>1. edges' \subseteq Users \X Users
    BY <1>0, <1>1, <1>2
  <2>2. upline' \in [Users -> Ids] /\ sponsored' \in [Users -> Ids]
    BY <1>0, <1>2
  <2>3. /\ upline'[u] = s /\ sponsored'[u] = s
        /\ \A v \in Users \ {u} : upline'[v] = upline[v] /\ sponsored'[v] = sponsored[v]
    BY <1>0, <1>1, <1>2
  <2>4. QED BY <2>1, <2>2, <2>3
<1>4. RowsStay
  BY <1>2, RequestsUnchanged DEF RightsInv
<1>5. /\ worker' \in [Workers -> WorkerState] /\ MatchedWithAnother'
      /\ \A x \in Workers : Sound(worker[x])'
  BY <1>4, IdleAgain DEF RightsInv, AcceptCommit
<1>6. TypeOK'
  <2>1. crossed' \subseteq Users
    BY <1>1 DEF AcceptCommit, RightsInv, TypeOK
  <2>2. QED BY <1>2, <1>3, <1>4, <1>5, <2>1, LegalStays DEF RightsInv, TypeOK, RowsStay
<1>7. Trees'
  <2>1. \A v \in Users \ {u} : v \in crossed => v \in crossed'
    BY DEF AcceptCommit
  <2> HIDE DEF u, s
  <2>2. UplineHasEdge'
    BY <1>2, <1>3, <2>1 DEF RightsInv, Trees, UplineHasEdge
  <2>3. SponsorIsUpline'
    BY <1>2, <1>3 DEF RightsInv, Trees, SponsorIsUpline
  <2>4. NobodyTheirOwnUpline'
    BY <1>1, <1>2, <1>3, <2>1 DEF RightsInv, Trees, NobodyTheirOwnUpline
  <2>5. QED BY <2>2, <2>3, <2>4 DEF Trees
<1>8. InFlight'
  BY AcceptLeavesRoom DEF RightsInv
<1>9. QED BY <1>2, <1>5, <1>6, <1>7, <1>8, RecordStays DEF RightsInv

-----------------------------------------------------------------------------
(* A user is in the tree under themselves, so an edge of a user to          *)
(* themselves overflows the recomputation of their tree.                    *)
LEMMA SelfEdgeOverflows ==
  ASSUME NEW E, NEW v \in Users, <<v, v>> \in E
  PROVE  Overflows(v, E)
<1>1. v \in Under(v, E)
  BY DEF Under
<1>2. <<v, v>>[1] = v /\ <<v, v>>[2] = v
  OBVIOUS
<1>3. OnCycle(v, E)
  BY <1>1, <1>2 DEF OnCycle
<1>4. QED BY <1>1, <1>3 DEF Overflows

(* The facts every statement of a deletion starts from. *)
LEMMA InTransaction ==
  ASSUME RightsInv, NEW w \in Workers, worker[w].at \in InDeletion
  PROVE  \E r \in WorkerState :
           /\ r = worker[w] /\ Fits(r) /\ Sound(r)
           /\ r.user \in Users /\ r.other \in Ids /\ r.moved \subseteq Users
           /\ r.gone \subseteq Users \X Users /\ r.came \subseteq Users \X Users
BY WorkerShape DEF RightsInv, InFlight, Sound, InDeletion

(* Everyone under the deleted user is moved, and nobody another deletion has *)
(* moved.                                                                    *)
LEMMA MoveUsersKeeps ==
  ASSUME RightsInv, NEW w \in Workers, MoveUsers(w)
  PROVE  RightsInv'
<1>0. worker[w].at = "tx" /\ worker[w].at \in InDeletion
  BY DEF MoveUsers, InDeletion
<1>1. PICK r \in WorkerState :
           /\ r = worker[w] /\ Fits(r) /\ Sound(r)
           /\ r.user \in Users /\ r.other \in Ids /\ r.moved \subseteq Users
           /\ r.gone \subseteq Users \X Users /\ r.came \subseteq Users \X Users
  BY <1>0, InTransaction
<1>2. PICK M : M = Reparented(r.user)
  OBVIOUS
<1>3. PICK q : q = [r EXCEPT !.at = "moved", !.moved = M]
  OBVIOUS
<1>4. /\ Becomes(w, q) /\ UNCHANGED <<tree, scrubbed, request, legal>>
      /\ \A v \in M : ~UserLocked(v)
  BY <1>1, <1>2, <1>3 DEF MoveUsers
<1>5. M \subseteq Users /\ \A v \in Users : v \in M <=> upline[v] = r.user
  BY <1>2 DEF Reparented
<1>6. r.at = "tx" /\ r.gone = {} /\ r.came = {}
  BY <1>0, <1>1 DEF Fits, Shaped
<1>7. /\ q \in WorkerState /\ q.at = "moved" /\ q.user = r.user /\ q.id = r.id
      /\ q.other = r.other /\ q.moved = M /\ q.gone = {} /\ q.came = {}
  BY <1>3, <1>5, <1>6 DEF WorkerState, Stages, InDeletion
<1>8. Sound(q)
  BY <1>1, <1>6, <1>7 DEF Sound, InDeletion
<1>9. upline' = upline
  BY <1>4 DEF tree
<1>10. Fits(q)'
  <2>1. Shaped(q)
    BY <1>7 DEF Shaped
  <2>2. MovesItsOwn(q)'
    BY <1>5, <1>7, <1>9 DEF MovesItsOwn
  <2>3. BringsTheirEdges(q)'
    BY <1>7 DEF BringsTheirEdges
  <2>4. MovesAllOrKeeps(q)'
    BY <1>5, <1>7, <1>9 DEF MovesAllOrKeeps
  <2>5. QED BY <2>1, <2>2, <2>3, <2>4 DEF Fits, Shaped
<1>11. ASSUME NEW x \in Workers \ {w} PROVE Apart(q, worker[x]) /\ Apart(worker[x], q)
  BY <1>4, <1>7 DEF Apart, UserLocked
<1>12. QED BY <1>4, <1>7, <1>8, <1>10, <1>11, WorkerOnly

(* Each of the moved who had not crossed has an edge, and it is re-pointed. *)
LEMMA MoveEdgesKeeps ==
  ASSUME RightsInv, NEW w \in Workers, MoveEdges(w)
  PROVE  RightsInv'
<1>0. worker[w].at = "moved" /\ worker[w].at \in InDeletion
  BY DEF MoveEdges, InDeletion
<1>1. PICK r \in WorkerState :
           /\ r = worker[w] /\ Fits(r) /\ Sound(r)
           /\ r.user \in Users /\ r.other \in Ids /\ r.moved \subseteq Users
           /\ r.gone \subseteq Users \X Users /\ r.came \subseteq Users \X Users
  BY <1>0, InTransaction
<1>2. PICK G, C, f : /\ G = {e \in edges : e[1] = r.user} /\ C = Repointed(r.user, r.other)
                     /\ f = (Inbound(r.user, edges) # {}) /\ f \in BOOLEAN
  OBVIOUS
<1>3. PICK q : q = [r EXCEPT !.at = "edges", !.gone = G, !.came = C, !.inbound = f]
  OBVIOUS
<1>4. /\ Becomes(w, q) /\ UNCHANGED <<tree, scrubbed, request, legal>>
      /\ ~EdgesLocked(w, G \cup C)
  BY <1>1, <1>2, <1>3 DEF MoveEdges
<1>5. /\ upline' = upline /\ crossed' = crossed /\ scrubbed' = scrubbed
      /\ edges \subseteq Users \X Users
  BY <1>4 DEF tree, RightsInv, TypeOK
<1>6. /\ G \subseteq Users \X Users /\ C \subseteq Users \X Users
      /\ \A e \in G : e[1] = r.user
      /\ \A e \in C : e[1] = r.other
      /\ C # {} => G # {}
      /\ \A v \in Users : <<r.user, v>> \in edges /\ r.other # Nobody => <<r.other, v>> \in C
  <2>1. G \subseteq Users \X Users /\ \A e \in G : e[1] = r.user
    BY <1>2, <1>5
  <2>2. ASSUME NEW e \in C
        PROVE  e \in Users \X Users /\ e[1] = r.other /\ G # {}
    <3>1. r.other \in Users /\ \E v \in Recruits(r.user, edges) : e = <<r.other, v>>
      BY <1>1, <1>2, <2>2 DEF Repointed, Ids
    <3>2. PICK v \in Users : <<r.user, v>> \in edges /\ e = <<r.other, v>>
      BY <3>1 DEF Recruits
    <3>3. <<r.user, v>>[1] = r.user /\ <<r.other, v>>[1] = r.other
      OBVIOUS
    <3>4. <<r.user, v>> \in G
      BY <1>2, <3>2, <3>3
    <3>5. QED BY <3>1, <3>2, <3>3, <3>4
  <2>3. ASSUME NEW v \in Users, <<r.user, v>> \in edges, r.other # Nobody
        PROVE  <<r.other, v>> \in C
    <3>1. v \in Recruits(r.user, edges)
      BY <2>3 DEF Recruits
    <3>2. QED BY <1>2, <2>3, <3>1 DEF Repointed
  <2>4. QED BY <2>1, <2>2, <2>3
<1>7. r.at = "moved"
  BY <1>0, <1>1
<1>8. /\ q \in WorkerState /\ q.at = "edges" /\ q.user = r.user /\ q.id = r.id
      /\ q.other = r.other /\ q.moved = r.moved /\ q.gone = G /\ q.came = C
  BY <1>2, <1>3, <1>6 DEF WorkerState, Stages, InDeletion
<1>9. Sound(q)
  BY <1>1, <1>7, <1>8 DEF Sound, InDeletion
<1>10. Fits(q)'
  <2>1. Shaped(q)
    BY <1>6, <1>8 DEF Shaped
  <2>2. MovesItsOwn(q)'
    BY <1>1, <1>5, <1>8 DEF Fits, MovesItsOwn
  <2>3. BringsTheirEdges(q)'
    <3>1. SUFFICES ASSUME NEW v \in r.moved, v \notin crossed, v \notin scrubbed, v # r.user,
                          r.other # Nobody
                   PROVE  <<r.other, v>> \in C
      BY <1>5, <1>8 DEF BringsTheirEdges
    <3>2. v \in Users /\ upline[v] = r.user
      BY <1>1 DEF Fits, MovesItsOwn
    <3>3. <<r.user, v>> \in edges
      BY <1>1, <3>1, <3>2, IdsAreNumbers DEF RightsInv, Trees, UplineHasEdge
    <3>4. QED BY <1>6, <3>1, <3>2, <3>3
  <2>4. MovesAllOrKeeps(q)'
    BY <1>1, <1>5, <1>7, <1>8 DEF Fits, MovesAllOrKeeps
  <2>5. QED BY <2>1, <2>2, <2>3, <2>4 DEF Fits, Shaped
<1>11. ASSUME NEW x \in Workers \ {w} PROVE Apart(q, worker[x]) /\ Apart(worker[x], q)
  <2>1. Apart(r, worker[x]) /\ Apart(worker[x], r)
    BY <1>1 DEF RightsInv, InFlight
  <2>2. (G \cup C) \cap (worker[x].gone \cup worker[x].came) = {}
    BY <1>4 DEF EdgesLocked
  <2>3. QED BY <1>8, <2>1, <2>2 DEF Apart
<1>12. QED BY <1>4, <1>8, <1>9, <1>10, <1>11, WorkerOnly

(* The recomputation lets no edge of a user to themselves pass. *)
LEMMA RecomputeKeeps ==
  ASSUME RightsInv, NEW w \in Workers, Recompute(w)
  PROVE  RightsInv'
<1>0. worker[w].at = "edges" /\ worker[w].at \in InDeletion
  BY DEF Recompute, InDeletion
<1>1. PICK r \in WorkerState :
           /\ r = worker[w] /\ Fits(r) /\ Sound(r)
           /\ r.user \in Users /\ r.other \in Ids /\ r.moved \subseteq Users
           /\ r.gone \subseteq Users \X Users /\ r.came \subseteq Users \X Users
  BY <1>0, InTransaction
<1>2. PICK I, D : I = Dropped(r, edges) /\ D = Dropped(r, r.came)
  OBVIOUS
<1>3. PICK q : q = [r EXCEPT !.at = "checked", !.gone = r.gone \cup I,
                             !.came = r.came \ D]
  OBVIOUS
<1>4. /\ Becomes(w, q) /\ UNCHANGED <<tree, scrubbed, request, legal>>
      /\ ~EdgesLocked(w, I) /\ ~RecomputeFails(r)
  BY <1>1, <1>2, <1>3 DEF Recompute
<1>5. /\ upline' = upline /\ crossed' = crossed /\ scrubbed' = scrubbed
      /\ edges \subseteq Users \X Users
  BY <1>4 DEF tree, RightsInv, TypeOK
<1>6. /\ I \subseteq Users \X Users /\ \A e \in I : e[2] = r.user
      /\ \A e \in r.came : e[2] # r.user => e \notin D
  BY <1>2, <1>5 DEF Dropped, Inbound
<1>7. r.at = "edges"
  BY <1>0, <1>1
<1>8. /\ q \in WorkerState /\ q.at = "checked" /\ q.user = r.user /\ q.id = r.id
      /\ q.other = r.other /\ q.moved = r.moved /\ q.gone = r.gone \cup I
      /\ q.came = r.came \ D
  BY <1>1, <1>3, <1>6 DEF WorkerState, Stages, InDeletion
<1>9. Sound(q)
  BY <1>1, <1>7, <1>8 DEF Sound, InDeletion
<1>10. Fits(q)'
  <2>1. ASSUME NEW v \in Users, <<v, v>> \in q.came PROVE FALSE
    <3>1. <<v, v>> \in r.came /\ <<v, v>> \notin D
      BY <1>8, <2>1
    <3>3. r.other = v /\ r.gone # {} /\ v # Nobody
      BY <1>1, <3>1, IdsAreNumbers DEF Fits, Shaped
    <3>4. v \in RecomputeRoots(r)
      BY <3>3 DEF RecomputeRoots
    <3>5. <<v, v>> \in Seen(r)
      BY <1>2, <3>1 DEF Seen, Dropped, Inbound
    <3>6. QED BY <1>4, <3>4, <3>5, SelfEdgeOverflows DEF RecomputeFails
  <2>2. Shaped(q)
    BY <1>1, <1>6, <1>8, <2>1 DEF Fits, Shaped
  <2>3. MovesItsOwn(q)'
    BY <1>1, <1>5, <1>8 DEF Fits, MovesItsOwn
  <2>4. BringsTheirEdges(q)'
    <3>1. SUFFICES ASSUME NEW v \in r.moved, v \notin crossed, v \notin scrubbed, v # r.user,
                          r.other # Nobody
                   PROVE  <<r.other, v>> \in q.came
      BY <1>5, <1>8 DEF BringsTheirEdges
    <3>2. <<r.other, v>> \in r.came
      BY <1>1, <1>7, <3>1 DEF Fits, BringsTheirEdges
    <3>3. <<r.other, v>>[2] = v
      OBVIOUS
    <3>4. QED BY <1>6, <1>8, <3>1, <3>2, <3>3
  <2>5. MovesAllOrKeeps(q)'
    <3>1. ASSUME NEW v \in Users, v # r.user, <<r.user, v>> \in q.gone
          PROVE  <<r.user, v>> \in r.gone
      <4>1. <<r.user, v>>[2] = v
        OBVIOUS
      <4>2. QED BY <1>6, <1>8, <3>1, <4>1
    <3>2. QED BY <1>1, <1>5, <1>8, <3>1 DEF Fits, MovesAllOrKeeps
  <2>6. QED BY <2>2, <2>3, <2>4, <2>5 DEF Fits, Shaped
<1>11. ASSUME NEW x \in Workers \ {w} PROVE Apart(q, worker[x]) /\ Apart(worker[x], q)
  <2>1. Apart(r, worker[x]) /\ Apart(worker[x], r)
    BY <1>1 DEF RightsInv, InFlight
  <2>2. I \cap (worker[x].gone \cup worker[x].came) = {}
    BY <1>4 DEF EdgesLocked
  <2>3. QED BY <1>8, <2>1, <2>2 DEF Apart
<1>12. QED BY <1>4, <1>8, <1>9, <1>10, <1>11, WorkerOnly

(* What the commit does with what the transaction has written. *)
LEMMA Committed ==
  ASSUME RightsInv, NEW w \in Workers, CommitDeletion(w)
  PROVE  \E r \in WorkerState :
           /\ r = worker[w] /\ r.at = "checked" /\ Fits(r) /\ Sound(r)
           /\ r.user \in Users /\ r.other \in Ids /\ r.moved \subseteq Users
           /\ r.gone \subseteq Users \X Users /\ r.came \subseteq Users \X Users
           /\ \A v \in r.moved : upline'[v] = r.other
           /\ \A v \in Users \ r.moved : upline'[v] = upline[v]
           /\ edges' = (edges \ r.gone) \cup r.came
           /\ scrubbed' = scrubbed \cup {r.user}
           /\ crossed \subseteq crossed'
           /\ (\E x \in Workers : InTheGap(x, r.other)) => r.moved \subseteq crossed'
<1>0. worker[w].at = "checked" /\ worker[w].at \in InDeletion
  BY DEF CommitDeletion, InDeletion
<1>1. PICK r \in WorkerState :
           /\ r = worker[w] /\ Fits(r) /\ Sound(r)
           /\ r.user \in Users /\ r.other \in Ids /\ r.moved \subseteq Users
           /\ r.gone \subseteq Users \X Users /\ r.came \subseteq Users \X Users
  BY <1>0, InTransaction
<1>2. /\ upline' = [v \in Users |-> IF v \in r.moved THEN r.other ELSE upline[v]]
      /\ edges' = (edges \ r.gone) \cup r.came
      /\ scrubbed' = scrubbed \cup {r.user}
      /\ crossed' = IF \E x \in Workers : InTheGap(x, r.other) THEN crossed \cup r.moved
                                                               ELSE crossed
  BY <1>1 DEF CommitDeletion
<1>3. /\ \A v \in r.moved : upline'[v] = r.other
      /\ \A v \in Users \ r.moved : upline'[v] = upline[v]
  BY <1>1, <1>2
<1>4. /\ crossed \subseteq crossed'
      /\ (\E x \in Workers : InTheGap(x, r.other)) => r.moved \subseteq crossed'
  BY <1>2
<1>5. QED BY <1>0, <1>1, <1>2, <1>3, <1>4

LEMMA CommitKeepsTrees ==
  ASSUME RightsInv, NEW w \in Workers, CommitDeletion(w)
  PROVE  Trees'
<1>1. PICK r \in WorkerState :
           /\ r = worker[w] /\ r.at = "checked" /\ Fits(r) /\ Sound(r)
           /\ r.user \in Users /\ r.other \in Ids /\ r.moved \subseteq Users
           /\ r.gone \subseteq Users \X Users /\ r.came \subseteq Users \X Users
           /\ \A v \in r.moved : upline'[v] = r.other
           /\ \A v \in Users \ r.moved : upline'[v] = upline[v]
           /\ edges' = (edges \ r.gone) \cup r.came
           /\ scrubbed' = scrubbed \cup {r.user}
           /\ crossed \subseteq crossed'
           /\ (\E x \in Workers : InTheGap(x, r.other)) => r.moved \subseteq crossed'
  BY Committed
<1>2. ASSUME NEW v \in Users, v \notin scrubbed', v \notin crossed', upline'[v] # Nobody
      PROVE  <<upline'[v], v>> \in edges' /\ upline'[v] # v
  <2>1. v \notin scrubbed /\ v # r.user /\ v \notin crossed
    BY <1>1, <1>2
  <2>2. CASE v \in r.moved
    <3>1. upline'[v] = r.other /\ r.other # Nobody
      BY <1>1, <1>2, <2>2
    <3>2. <<r.other, v>> \in r.came
      BY <1>1, <2>1, <2>2, <3>1 DEF Fits, BringsTheirEdges
    <3>3. r.other # v
      BY <1>1, <1>2, <3>2 DEF Fits, Shaped
    <3>4. QED BY <1>1, <3>1, <3>2, <3>3
  <2>3. CASE v \notin r.moved
    <3>1. PICK p : p = upline[v] /\ upline'[v] = p /\ p # Nobody
      BY <1>1, <1>2, <2>3
    <3>2. <<p, v>> \in edges /\ p # v
      BY <2>1, <3>1 DEF RightsInv, Trees, UplineHasEdge, NobodyTheirOwnUpline
    <3>3. <<p, v>> \notin r.gone
      <4>1. SUFFICES ASSUME <<p, v>> \in r.gone PROVE FALSE
        OBVIOUS
      <4>2. <<p, v>>[1] = p /\ <<p, v>>[2] = v
        OBVIOUS
      <4>3. p = r.user
        BY <1>1, <2>1, <4>1, <4>2 DEF Fits, Shaped
      <4>4. QED BY <1>1, <2>1, <2>3, <3>1, <4>1, <4>3 DEF Fits, MovesAllOrKeeps
    <3>4. QED BY <1>1, <3>1, <3>2, <3>3
  <2>4. QED BY <2>2, <2>3
<1>3. UplineHasEdge'
  BY <1>2 DEF UplineHasEdge
<1>4. NobodyTheirOwnUpline'
  BY <1>2, IdsAreNumbers DEF NobodyTheirOwnUpline
<1>5. SponsorIsUpline'
  <2>1. sponsored' = sponsored
    BY DEF CommitDeletion
  <2>2. ASSUME NEW v \in Users, sponsored[v] # Nobody, sponsored[v] \notin scrubbed'
        PROVE  upline'[v] = sponsored[v]
    <3>1. upline[v] = sponsored[v] /\ sponsored[v] # r.user
      BY <1>1, <2>2 DEF RightsInv, Trees, SponsorIsUpline
    <3>2. v \notin r.moved
      BY <1>1, <3>1 DEF Fits, MovesItsOwn
    <3>3. QED BY <1>1, <3>1, <3>2
  <2>3. QED BY <2>1, <2>2 DEF SponsorIsUpline
<1>6. QED BY <1>3, <1>4, <1>5 DEF Trees

(* A commit brings users under one whom another deletion deletes only if    *)
(* they cross it or the other deletion keeps their edges.                    *)
LEMMA CommitLeavesRoom ==
  ASSUME RightsInv, NEW w \in Workers, CommitDeletion(w)
  PROVE  InFlight'
<1>1. PICK r \in WorkerState :
           /\ r = worker[w] /\ r.at = "checked" /\ Fits(r) /\ Sound(r)
           /\ r.user \in Users /\ r.other \in Ids /\ r.moved \subseteq Users
           /\ r.gone \subseteq Users \X Users /\ r.came \subseteq Users \X Users
           /\ \A v \in r.moved : upline'[v] = r.other
           /\ \A v \in Users \ r.moved : upline'[v] = upline[v]
           /\ edges' = (edges \ r.gone) \cup r.came
           /\ scrubbed' = scrubbed \cup {r.user}
           /\ crossed \subseteq crossed'
           /\ (\E x \in Workers : InTheGap(x, r.other)) => r.moved \subseteq crossed'
  BY Committed
<1>2. Becomes(w, Idle)
  BY DEF CommitDeletion
<1>3. ASSUME NEW x \in Workers \ {w} PROVE Fits(worker[x])'
  <2>1. PICK q \in WorkerState : q = worker[x] /\ q = worker'[x]
    BY <1>2 DEF RightsInv, TypeOK, Becomes
  <2>2. Fits(q) /\ Apart(r, q) /\ Sound(q) /\ q.moved \subseteq Users
    <3>1. TypeOK /\ InFlight /\ w # x
      BY <1>3 DEF RightsInv
    <3>2. Fits(q) /\ Sound(q)
      BY <2>1, <3>1 DEF TypeOK, InFlight
    <3>3. Apart(r, q)
      BY <1>1, <2>1, <3>1 DEF InFlight
    <3>4. QED BY <3>2, <3>3 DEF WorkerState
  <2>3. MovesItsOwn(q)'
    BY <1>1, <2>2 DEF Fits, MovesItsOwn, Apart
  <2>4. BringsTheirEdges(q)'
    BY <1>1, <2>2 DEF Fits, BringsTheirEdges
  <2>5. MovesAllOrKeeps(q)'
    <3>1. SUFFICES ASSUME NEW v \in Users, v \notin scrubbed', v # q.user, upline'[v] = q.user,
                          q.at = "moved" \/ <<q.user, v>> \in q.gone, v \notin crossed'
                   PROVE  v \in q.moved
      BY DEF MovesAllOrKeeps
    <3>2. v \notin scrubbed /\ v # r.user /\ v \notin crossed
      BY <1>1, <3>1
    <3>3. CASE v \notin r.moved
      BY <1>1, <2>2, <3>1, <3>2, <3>3 DEF Fits, MovesAllOrKeeps
    <3>4. CASE v \in r.moved
      <4>1. r.other = q.user
        BY <1>1, <3>1, <3>4
      <4>2. q.at # "moved"
        BY <1>1, <2>1, <3>1, <3>4, <4>1 DEF InTheGap
      <4>3. <<r.other, v>> \in q.gone
        BY <3>1, <4>1, <4>2
      <4>4. q.user \in Users
        BY <2>2, <4>3 DEF Fits, Shaped, Sound
      <4>5. <<r.other, v>> \in r.came
        BY <1>1, <3>2, <3>4, <4>1, <4>4, IdsAreNumbers DEF Fits, BringsTheirEdges
      <4>6. QED BY <2>2, <4>3, <4>5 DEF Apart
    <3>5. QED BY <3>3, <3>4
  <2>6. QED BY <2>1, <2>2, <2>3, <2>4, <2>5
        DEF Fits, Shaped, MovesItsOwn, BringsTheirEdges, MovesAllOrKeeps
<1>4. \A x \in Workers : worker[x] \in WorkerState
  BY DEF RightsInv, TypeOK
<1>5. Fits(Idle)' /\ \A x \in Workers : Apart(Idle, worker[x]) /\ Apart(worker[x], Idle)
  BY <1>4, IdleShape, UnwrittenFits
<1>6. QED BY <1>2, <1>3, <1>5, IdleShape, WorkersGoOn DEF RightsInv

LEMMA CommitKeeps ==
  ASSUME RightsInv, NEW w \in Workers, CommitDeletion(w)
  PROVE  RightsInv'
<1> DEFINE u == worker[w].user
           n == worker[w].other
<1>1. /\ u \in Users /\ n \in Ids
      /\ worker[w].id \in DOMAIN request /\ request[worker[w].id].user = u
  BY WorkerShape DEF RightsInv, CommitDeletion, Sound, InDeletion
<1>2. /\ RowsStay /\ DOMAIN request' = DOMAIN request
      /\ request'[worker[w].id].status = "COMPLETED"
      /\ request'[worker[w].id].user = request[worker[w].id].user
      /\ \A j \in DOMAIN request : j # worker[w].id => request'[j] = request[j]
  BY <1>1, StatusMoves DEF RightsInv, CommitDeletion
<1>3. /\ worker' \in [Workers -> WorkerState] /\ MatchedWithAnother'
      /\ \A x \in Workers : Sound(worker[x])'
  BY <1>2, IdleAgain DEF RightsInv, CommitDeletion
<1>4. upline' \in [Users -> Ids]
  BY <1>1 DEF RightsInv, TypeOK, CommitDeletion
<1>5. edges' \subseteq Users \X Users /\ crossed' \subseteq Users
  BY WorkerShape DEF RightsInv, TypeOK, CommitDeletion
<1>6. /\ sponsored' = sponsored /\ lapses' = lapses /\ UNCHANGED legal
      /\ scrubbed' = scrubbed \cup {u}
  BY DEF CommitDeletion
<1>7. TypeOK'
  BY <1>1, <1>2, <1>3, <1>4, <1>5, <1>6, LegalStays DEF RightsInv, TypeOK, RowsStay
<1>8. ScrubIsRecorded'
  BY <1>1, <1>2, <1>6 DEF RightsInv, ScrubIsRecorded
<1>9. QED BY <1>3, <1>7, <1>8, CommitKeepsTrees, CommitLeavesRoom DEF RightsInv

-----------------------------------------------------------------------------
LEMMA RightsStart == Init => RightsInv
<1> SUFFICES ASSUME Init PROVE RightsInv
  OBVIOUS
<1>1. Idle \in WorkerState /\ Idle.at = "idle" /\ Unwritten(Idle)
  BY IdleShape
<1>2. request \in Seq(RequestRow) /\ Len(request) = 0 /\ DOMAIN request = {}
  BY DEF Init
<1>3. TypeOK
  BY <1>1, <1>2, IdsAreNumbers, DataRightsConstants DEF Init, TypeOK, Sound, InDeletion
<1>4. MatchedWithAnother
  BY <1>1 DEF Init, MatchedWithAnother
<1>5. Trees
  BY IdsAreNumbers DEF Init, Trees, UplineHasEdge, SponsorIsUpline, NobodyTheirOwnUpline
<1>6. ScrubIsRecorded
  BY <1>2 DEF Init, ScrubIsRecorded
<1>7. InFlight
  BY <1>1, UnwrittenFits DEF Init, InFlight
<1>8. QED BY <1>3, <1>4, <1>5, <1>6, <1>7 DEF RightsInv

LEMMA RightsStep == RightsInv /\ [Next]_vars => RightsInv'
<1> SUFFICES ASSUME RightsInv, [Next]_vars PROVE RightsInv'
  OBVIOUS
<1>1. ASSUME NEW w \in Workers, WorkerStep(w) PROVE RightsInv'
  <2>1. CASE AcceptCommit(w)
    BY <2>1, AcceptKeeps
  <2>2. CASE AcceptRefused(w) \/ AbortDeletion(w) \/ Die(w)
    BY <2>2, WorkerIdles DEF AcceptRefused, AbortDeletion, Die
  <2>3. CASE PostCreate(w)
    BY <2>3, PostCreateKeeps
  <2>4. CASE CheckHold(w) \/ BeginDeletion(w)
    BY <2>4, ChecksKeep
  <2>5. CASE MarkHeld(w)
    BY <2>5, MarkHeldKeeps
  <2>6. CASE CommitDeletion(w)
    BY <2>6, CommitKeeps
  <2>7. CASE PlaceCreate(w)
    BY <2>7, PlaceKeeps
  <2>8. CASE \E u \in Users : AcceptMatch(w, u) \/ PostRead(w, u) \/ PlaceRead(w, u)
    BY <2>8, StartsKeep
  <2>9. CASE \E i \in Rows : Confirm(w, i)
    BY <2>9, ConfirmKeeps
  <2>10. CASE MoveUsers(w) \/ MoveEdges(w) \/ Recompute(w)
    BY <2>10, MoveUsersKeeps, MoveEdgesKeeps, RecomputeKeeps
  <2>11. QED
    BY <1>1, <2>1, <2>2, <2>3, <2>4, <2>5, <2>6, <2>7, <2>8, <2>9, <2>10 DEF WorkerStep
<1>2. ASSUME NEW u \in Users, SponsorshipLapses(u) PROVE RightsInv'
  BY <1>2, LapseKeeps
<1>3. ASSUME NEW u \in Users, LiftHold(u) PROVE RightsInv'
  <2>1. RowsStay /\ UNCHANGED <<tree, scrubbed, request, worker, placed>>
    BY <1>3, RequestsUnchanged DEF RightsInv, LiftHold
  <2>2. holds[u] - 1 \in Nat /\ holds' = [holds EXCEPT ![u] = @ - 1]
    BY <1>3 DEF RightsInv, TypeOK, LiftHold
  <2>3. TypeOK' /\ MatchedWithAnother'
    BY <2>1, <2>2 DEF RightsInv, TypeOK, Sound, MatchedWithAnother, tree
  <2>4. InFlight'
    BY <2>1, InFlightStays DEF RightsInv, tree
  <2>5. QED BY <2>1, <2>3, <2>4, TreesStay, RecordStays DEF RightsInv, tree
<1>4. CASE UNCHANGED vars
  <2>1. TypeOK' /\ MatchedWithAnother'
    BY <1>4 DEF RightsInv, TypeOK, Sound, MatchedWithAnother, vars
  <2>2. InFlight'
    BY <1>4, InFlightStays DEF RightsInv, vars
  <2>3. QED BY <1>4, <2>1, <2>2, TreesStay, RecordStays DEF RightsInv, vars
<1>5. QED BY <1>1, <1>2, <1>3, <1>4 DEF Next

LEMMA RightsAlways == Spec => []RightsInv
BY RightsStart, RightsStep, PTL DEF Spec

(* Rows, edges and workers keep their shape: in particular a worker that   *)
(* processes a deletion always holds a row that exists, of its own user.   *)
THEOREM DataRightsTypeCorrect == Spec => []TypeOK
<1>1. RightsInv => TypeOK
  BY DEF RightsInv
<1>2. QED BY <1>1, RightsAlways, PTL

(* Compliance review's tree is part of the tree /grow shows: every live    *)
(* user's upline has an edge to them, whatever the statements of other     *)
(* deletions a match commits between, but in the one gap named.            *)
THEOREM TheTreesAgree == Spec => []UplineHasEdge
<1>1. RightsInv => UplineHasEdge
  BY DEF RightsInv, Trees
<1>2. QED BY <1>1, RightsAlways, PTL

(* No deletion moves a member away from the live sponsor of an ACTIVE      *)
(* sponsorship.                                                            *)
THEOREM TheSponsorIsTheUpline == Spec => []SponsorIsUpline
<1>1. RightsInv => SponsorIsUpline
  BY DEF RightsInv, Trees
<1>2. QED BY <1>1, RightsAlways, PTL

(* No live user but one who came in that gap becomes their own upline.     *)
THEOREM NobodyIsTheirOwnUpline == Spec => []NobodyTheirOwnUpline
<1>1. RightsInv => NobodyTheirOwnUpline
  BY DEF RightsInv, Trees
<1>2. QED BY <1>1, RightsAlways, PTL

(* COMPLETED is said of scrubbed users, and of each of them a processed    *)
(* request remains.                                                        *)
THEOREM TheScrubIsRecorded == Spec => []ScrubIsRecorded
<1>1. RightsInv => ScrubIsRecorded
  BY DEF RightsInv
<1>2. QED BY <1>1, RightsAlways, PTL
=============================================================================
