------------------------------ MODULE Coverage ------------------------------
(***************************************************************************)
(* The coverage account of a presentation's floor (crates/remanence/src/   *)
(* filesystem/coverage.rs): a provider claims extents in any order, the    *)
(* builder keeps them ordered and disjoint, and what no claim covers is    *)
(* derived as opaque regions when the account is finished.                 *)
(***************************************************************************)
EXTENDS Integers, Sequences

CONSTANTS
  Floor,      \* units of the floor
  MaxUnit,    \* the largest unit number (u64::MAX in the code)
  Classes,    \* what a claim may say of its extent
  MaxClaims   \* bound: claims a provider makes

VARIABLES
  claimed,    \* the claims taken, in position order
  claim       \* the last claim made, and whether it was taken

coverVars == <<claimed, claim>>

Opaque == "opaque"

\* The floor is within the unit space, and what no claim covers is opaque: no
\* claim says so itself.
ASSUME CoverAssumption == Floor \in Nat /\ MaxUnit \in Nat /\ Floor <= MaxUnit /\ Opaque \notin Classes

Region(start, count, class) == [start |-> start, count |-> count, class |-> class]
EndOf(r) == r.start + r.count

Sized(r) == r.count > 0 /\ EndOf(r) <= MaxUnit /\ EndOf(r) <= Floor

\* Where r belongs: after every claim that starts before it.
Position(r) ==
  CHOOSE at \in 1 .. Len(claimed) + 1 :
    /\ \A n \in 1 .. at - 1 : claimed[n].start < r.start
    /\ \A n \in at .. Len(claimed) : claimed[n].start >= r.start

\* Only the two neighbours are looked at.
MeetsPrevious(r) == Position(r) > 1 /\ EndOf(claimed[Position(r) - 1]) > r.start
\* Mutant of MeetsNext: only the claim before is looked at.
MeetsNothing(r) == FALSE

MeetsNext(r)     == Position(r) <= Len(claimed) /\ claimed[Position(r)].start < EndOf(r)

Taken(r) == Sized(r) /\ ~MeetsPrevious(r) /\ ~MeetsNext(r)

InsertedAt(s, at, r) == SubSeq(s, 1, at - 1) \o <<r>> \o SubSeq(s, at, Len(s))

Claim ==
  \E start \in 0 .. MaxUnit, count \in 0 .. MaxUnit, class \in Classes :
    LET r == Region(start, count, class)
    IN  /\ claim' = [region |-> r, taken |-> Taken(r), made |-> claim.made + 1]
        /\ claim.made < MaxClaims
        /\ claimed' = IF Taken(r) THEN InsertedAt(claimed, Position(r), r) ELSE claimed

\* The finished account: a region for every gap before a claim, and one for
\* what follows the last.
Gap(from, to) == IF from < to THEN <<Region(from, to - from, Opaque)>> ELSE <<>>

Before(s, n) == IF n = 0 THEN 0 ELSE EndOf(s[n])

Finished(s) ==
  LET Upto[n \in 0 .. Len(s)] ==
        IF n = 0 THEN <<>>
        ELSE Upto[n - 1] \o Gap(Before(s, n - 1), s[n].start) \o <<s[n]>>
  IN  Upto[Len(s)] \o Gap(Before(s, Len(s)), Floor)

Account == Finished(claimed)

CoverInit ==
  /\ claimed = <<>>
  /\ claim = [region |-> Region(0, 0, Opaque), taken |-> FALSE, made |-> 0]

CoverNext == Claim
CoverSpec == CoverInit /\ [][CoverNext]_coverVars

-----------------------------------------------------------------------------
(* Properties *)

\* The regions follow one another from the first unit to the last (what
\* check_conformance walks, coverage.rs:285).
Total(account) ==
  /\ \A n \in DOMAIN account :
       account[n].start = IF n = 1 THEN 0 ELSE EndOf(account[n - 1])
  /\ Floor = IF account = <<>> THEN 0 ELSE EndOf(account[Len(account)])

\* What the account says a unit is spent on.
SpentOn(account, u) ==
  account[CHOOSE n \in DOMAIN account : account[n].start <= u /\ u < EndOf(account[n])].class

\* The account is total after a claim, and the claim is taken exactly when all
\* of its units are on the floor and unclaimed: those become what it says and
\* no other unit changes.
ClaimsAlone ==
  LET r     == claim'.region
      span  == r.start .. EndOf(r) - 1
      units == 0 .. Floor - 1
      old   == Account
      new   == Account'
  IN  /\ Total(new)
      /\ claim'.taken <=>
           /\ span # {} /\ span \subseteq units
           /\ \A u \in span : SpentOn(old, u) = Opaque
      /\ \A u \in units :
           SpentOn(new, u) = IF claim'.taken /\ u \in span THEN r.class ELSE SpentOn(old, u)

\* No two claims of the account share a unit, and none is lost (coverage.rs:9-13).
AccountIsExclusive == [][ClaimsAlone]_coverVars

-----------------------------------------------------------------------------
(* The inductive invariant behind AccountIsExclusive *)

Claims == [start : Nat, count : Nat \ {0}, class : Classes]

\* The claims are on the floor, ordered and disjoint.
ClaimsOK(s) ==
  /\ s \in Seq(Claims)
  /\ \A n \in 1 .. Len(s) : EndOf(s[n]) <= Floor
  /\ \A m, n \in 1 .. Len(s) : m < n => EndOf(s[m]) <= s[n].start

CoverIInv == ClaimsOK(claimed) /\ claim.made \in Nat
=============================================================================
