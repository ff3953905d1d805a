----------------------------- MODULE Sponsorship -----------------------------
(***************************************************************************)
(* One member's sponsorship rows, the two daily passes that move them      *)
(* (payment/sponsor-cascade.ts with PrismaSponsorCascadeStore), the        *)
(* member's own conversion (billing/checkout), a re-match                  *)
(* (onboarding/sponsor-decision) and the phase entitlement.ts derives from *)
(* it all.  A pass lists rows and then updates them by id, whatever they   *)
(* have become since.  The sponsors' and the member's own subscriptions    *)
(* are Billing's; here a sponsor's is lapsed or not, and the member's own  *)
(* is absent, in good standing or not.  A pass or a request that was       *)
(* started is over before the day is.                                      *)
(***************************************************************************)
EXTENDS Integers, Sequences

CONSTANTS Sponsors,
          MaxRows,    \* bound on the member's sponsorships
          MaxDay,     \* bound on the days
          MaxFlips,   \* bound on the changes of the sponsors' standing
          MaxDeaths,  \* bound on the passes that die
          Grace,      \* days of the protected window (30 in the code)
          Term,       \* days of a sponsorship's term (365)
          Notice      \* days before its end that its notices start (60)

ASSUME SponsorshipConstants ==
  /\ MaxRows \in Nat \ {0} /\ MaxDay \in Nat /\ MaxFlips \in Nat /\ MaxDeaths \in Nat
  /\ Grace \in Nat /\ Term \in Nat /\ Notice \in Nat

States == {"ACTIVE", "MEMBER_GRACE", "ANNIVERSARY_PENDING", "CONVERTED", "ENDED"}
RowIds == 1..MaxRows
NoDate == -1

VARIABLES
  day,
  lapsed,    \* the sponsors whose subscription is past due, expired, disputed or canceled
  row,       \* the member's Sponsorship rows, oldest first
  own,       \* the member's own subscription: "absent", "good" or "bad"
  paying,    \* whether the own subscription has been paid for
  cascade,   \* the 08:00 pass: what it does and the row ids it has listed
  notices,   \* the 09:00 pass: the ACTIVE row ids it has listed
  convert,   \* the checkout request: idle, with the row it found, or at Stripe
  flips,     \* changes of the sponsors' standing so far
  deaths     \* passes that died so far

sponsorshipVars == <<day, lapsed, row, own, paying, cascade, notices, convert, flips, deaths>>

NoPass == [doing |-> "idle", todo |-> {}]
NoConvert == [at |-> "idle", id |-> 0]

SponsorshipRow == [sponsor : Sponsors, state : States,
                   until : {NoDate} \cup 0..(MaxDay + Grace), ends : 0..(MaxDay + Term)]

SponsorshipTypeOK ==
  /\ day \in 0..MaxDay /\ flips \in 0..MaxFlips /\ deaths \in 0..MaxDeaths
  /\ lapsed \subseteq Sponsors
  /\ row \in Seq(SponsorshipRow) /\ Len(row) \in 0..MaxRows
  /\ own \in {"absent", "good", "bad"} /\ paying \in BOOLEAN
  /\ cascade \in [doing : {"idle", "protect", "end"}, todo : SUBSET RowIds]
  /\ notices \in [doing : {"idle", "mark"}, todo : SUBSET RowIds]
  /\ convert \in [at : {"idle", "mark", "checkout"}, id : 0..MaxRows]

NewRow(s) == [sponsor |-> s, state |-> "ACTIVE", until |-> NoDate, ends |-> day + Term]

(* The member has been matched at onboarding; the provisioning function has *)
(* given them a row of their own in good standing, or never ran.            *)
SponsorshipInit ==
  /\ day = 0 /\ flips = 0 /\ deaths = 0 /\ lapsed = {}
  /\ \E s \in Sponsors : row = <<[sponsor |-> s, state |-> "ACTIVE", until |-> NoDate,
                                  ends |-> Term]>>
  /\ own \in {"absent", "good"} /\ paying = FALSE
  /\ cascade = NoPass /\ notices = NoPass /\ convert = NoConvert

InState(S) == {i \in DOMAIN row : row[i].state \in S}
-----------------------------------------------------------------------------
(* entitlement.ts: the latest live sponsorship decides; an ended or         *)
(* converted one is not looked at, and then the own subscription decides.   *)

Live == InState({"ACTIVE", "MEMBER_GRACE", "ANNIVERSARY_PENDING"})
Governs(i) == i \in Live /\ \A j \in Live : j <= i

Grants(r) ==
  \/ r.state \in {"ACTIVE", "ANNIVERSARY_PENDING"}
  \/ r.state = "MEMBER_GRACE" /\ r.until # NoDate /\ day <= r.until

(* The phase resolveBillingPhase answers is one of full function. *)
FullFunction ==
  IF Live = {} THEN own = "good" ELSE \E i \in Live : Governs(i) /\ Grants(row[i])
-----------------------------------------------------------------------------
(* The 08:00 pass: protect the members of lapsed sponsors, then end the     *)
(* windows that are over.                                                   *)

(* Seeded fault: sponsors in anniversary notice only are looked at. *)
CascadeListPending ==
  /\ cascade.doing = "idle"
  /\ cascade' = [doing |-> "protect",
                 todo |-> {i \in InState({"ANNIVERSARY_PENDING"}) : row[i].sponsor \in lapsed}]
  /\ UNCHANGED <<day, lapsed, row, own, paying, notices, convert, flips, deaths>>

CascadeList ==
  /\ cascade.doing = "idle"
  /\ cascade' = [doing |-> "protect",
                 todo |-> {i \in InState({"ACTIVE"}) : row[i].sponsor \in lapsed}]
  /\ UNCHANGED <<day, lapsed, row, own, paying, notices, convert, flips, deaths>>

(* Seeded fault: the update leaves grace_until out. *)
ProtectWithoutDate(i) ==
  /\ cascade.doing = "protect" /\ i \in cascade.todo
  /\ cascade' = [cascade EXCEPT !.todo = @ \ {i}]
  /\ row' = [row EXCEPT ![i].state = "MEMBER_GRACE"]
  /\ UNCHANGED <<day, lapsed, own, paying, notices, convert, flips, deaths>>

Protect(i) ==
  /\ cascade.doing = "protect" /\ i \in cascade.todo
  /\ cascade' = [cascade EXCEPT !.todo = @ \ {i}]
  /\ row' = [row EXCEPT ![i].state = "MEMBER_GRACE", ![i].until = day + Grace]
  /\ UNCHANGED <<day, lapsed, own, paying, notices, convert, flips, deaths>>

(* Seeded fault: the window is measured without the grace days. *)
ExpireListEarly ==
  /\ cascade.doing = "protect" /\ cascade.todo = {}
  /\ cascade' = [doing |-> "end", todo |-> InState({"MEMBER_GRACE"})]
  /\ UNCHANGED <<day, lapsed, row, own, paying, notices, convert, flips, deaths>>

(* Seeded fault: the grace days are counted a second time. *)
ExpireListLate ==
  /\ cascade.doing = "protect" /\ cascade.todo = {}
  /\ cascade' = [doing |-> "end",
                 todo |-> {i \in InState({"MEMBER_GRACE"}) : day > row[i].until + Grace}]
  /\ UNCHANGED <<day, lapsed, row, own, paying, notices, convert, flips, deaths>>

ExpireList ==
  /\ cascade.doing = "protect" /\ cascade.todo = {}
  /\ cascade' = [doing |-> "end",
                 todo |-> {i \in InState({"MEMBER_GRACE"}) : day > row[i].until}]
  /\ UNCHANGED <<day, lapsed, row, own, paying, notices, convert, flips, deaths>>

End(i) ==
  /\ cascade.doing = "end" /\ i \in cascade.todo
  /\ cascade' = [cascade EXCEPT !.todo = @ \ {i}]
  /\ row' = [row EXCEPT ![i].state = "ENDED"]
  /\ UNCHANGED <<day, lapsed, own, paying, notices, convert, flips, deaths>>

CascadeDone ==
  /\ cascade.doing = "end" /\ cascade.todo = {}
  /\ cascade' = NoPass
  /\ UNCHANGED <<day, lapsed, row, own, paying, notices, convert, flips, deaths>>

(* The process dies; the step is retried from its first query. *)
CascadeDies ==
  /\ cascade.doing # "idle" /\ deaths < MaxDeaths
  /\ deaths' = deaths + 1
  /\ cascade' = NoPass
  /\ UNCHANGED <<day, lapsed, row, own, paying, notices, convert, flips>>
-----------------------------------------------------------------------------
(* The 09:00 pass: a row within the notice window becomes                   *)
(* ANNIVERSARY_PENDING; one that is already only gets its notices.          *)

NoticeList ==
  /\ notices.doing = "idle"
  /\ notices' = [doing |-> "mark",
                 todo |-> {i \in InState({"ACTIVE"}) : row[i].ends \in day..(day + Notice)}]
  /\ UNCHANGED <<day, lapsed, row, own, paying, cascade, convert, flips, deaths>>

MarkPending(i) ==
  /\ notices.doing = "mark" /\ i \in notices.todo
  /\ notices' = [notices EXCEPT !.todo = @ \ {i}]
  /\ row' = [row EXCEPT ![i].state = "ANNIVERSARY_PENDING"]
  /\ UNCHANGED <<day, lapsed, own, paying, cascade, convert, flips, deaths>>

NoticesDone ==
  /\ notices.doing = "mark" /\ notices.todo = {}
  /\ notices' = NoPass
  /\ UNCHANGED <<day, lapsed, row, own, paying, cascade, convert, flips, deaths>>
-----------------------------------------------------------------------------
(* The member converts: the sponsorship is flipped before the checkout      *)
(* session exists, and the payment may never come.                          *)

ConvertFind ==
  /\ convert.at = "idle"
  /\ \/ Live = {} /\ convert' = [at |-> "checkout", id |-> 0]
     \/ \E i \in Live : Governs(i) /\ convert' = [at |-> "mark", id |-> i]
  /\ UNCHANGED <<day, lapsed, row, own, paying, cascade, notices, flips, deaths>>

ConvertMark ==
  /\ convert.at = "mark"
  /\ row' = [row EXCEPT ![convert.id].state = "CONVERTED"]
  /\ convert' = [at |-> "checkout", id |-> 0]
  /\ UNCHANGED <<day, lapsed, own, paying, cascade, notices, flips, deaths>>

(* checkout.session.completed: the own row is made ACTIVE, or created. *)
CheckoutPaid ==
  /\ convert.at = "checkout"
  /\ own' = "good" /\ paying' = TRUE
  /\ convert' = NoConvert
  /\ UNCHANGED <<day, lapsed, row, cascade, notices, flips, deaths>>

CheckoutAbandoned ==
  /\ convert.at \in {"mark", "checkout"}
  /\ convert' = NoConvert
  /\ UNCHANGED <<day, lapsed, row, own, paying, cascade, notices, flips, deaths>>

(* A row of the member's that was paid for runs into grace and is expired. *)
OwnLapses ==
  /\ paying /\ own = "good"
  /\ own' = "bad"
  /\ UNCHANGED <<day, lapsed, row, paying, cascade, notices, convert, flips, deaths>>

(* The sponsor decision is open to a member at any time. Two unique indexes *)
(* refuse it: a second ACTIVE row, and a second tree edge from a sponsor    *)
(* the member was matched with before (the old edge is never removed).      *)
Rematch(s) ==
  /\ Len(row) < MaxRows
  /\ InState({"ACTIVE"}) = {}
  /\ \A i \in DOMAIN row : row[i].sponsor # s
  /\ row' = Append(row, NewRow(s))
  /\ UNCHANGED <<day, lapsed, own, paying, cascade, notices, convert, flips, deaths>>

SponsorChanges(s) ==
  /\ flips < MaxFlips
  /\ flips' = flips + 1
  /\ lapsed' = IF s \in lapsed THEN lapsed \ {s} ELSE lapsed \cup {s}
  /\ UNCHANGED <<day, row, own, paying, cascade, notices, convert, deaths>>

NextDay ==
  /\ day < MaxDay
  /\ cascade = NoPass /\ notices = NoPass /\ convert.at # "mark"
  /\ day' = day + 1
  /\ UNCHANGED <<lapsed, row, own, paying, cascade, notices, convert, flips, deaths>>

CascadeStep == ExpireList \/ CascadeDone \/ (\E i \in RowIds : Protect(i) \/ End(i))
NoticeStep == NoticesDone \/ \E i \in RowIds : MarkPending(i)

SponsorshipNext ==
  \/ CascadeList \/ CascadeStep \/ CascadeDies
  \/ NoticeList \/ NoticeStep
  \/ ConvertFind \/ ConvertMark \/ CheckoutPaid \/ CheckoutAbandoned \/ OwnLapses
  \/ \E s \in Sponsors : Rematch(s) \/ SponsorChanges(s)
  \/ NextDay

SponsorshipSpec == SponsorshipInit /\ [][SponsorshipNext]_sponsorshipVars

(* Inngest starts each pass every day and retries one that died.            *)
Fairness == WF_sponsorshipVars(CascadeList) /\ WF_sponsorshipVars(CascadeStep)
FairSpec == SponsorshipSpec /\ Fairness
-----------------------------------------------------------------------------
(* A sponsorship is ended only after the protected window the member was    *)
(* promised is over, whatever the passes, the conversion and a re-match did *)
(* in between.                                                              *)
EndedAfterItsWindow ==
  \A i \in InState({"ENDED"}) : row[i].until # NoDate /\ row[i].until < day

(* "PROTECT FIRST - the member never loses function at this step": no write *)
(* of a pass, stale or not, takes full function from a member who has it.   *)
PassesNeverCut ==
  [][CascadeStep \/ NoticeStep => (FullFunction => FullFunction')]_sponsorshipVars

(* An ACTIVE sponsorship does not stay ACTIVE under a sponsor who stays     *)
(* lapsed.                                                                  *)
LapseIsNoticed ==
  \A i \in RowIds :
    (i \in InState({"ACTIVE"}) /\ row[i].sponsor \in lapsed)
      ~> ~(i \in InState({"ACTIVE"}) /\ row[i].sponsor \in lapsed)

(* A protected window that is over does not stay open. *)
WindowIsClosed ==
  \A i \in RowIds :
    (i \in InState({"MEMBER_GRACE"}) /\ row[i].until < day)
      ~> (i \notin InState({"MEMBER_GRACE"}))

(* The member whose window has run out and who neither converted nor was    *)
(* matched again is suspended (sponsor-cascade.ts: "ENDED (soft suspension, *)
(* data intact)").                                                          *)
EndedIsSuspended ==
  (~paying /\ \A i \in DOMAIN row : row[i].state = "ENDED") => ~FullFunction

(* A member who pays for a plan of their own has full function: the         *)
(* conversion is what makes the gate read their own subscription.           *)
PaidKeepsFunction == (paying /\ own = "good") => FullFunction
=============================================================================
