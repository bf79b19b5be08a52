---------------------------- MODULE AnswerProofs ----------------------------
(***************************************************************************)
(* Proofs about the answer to a query, for any zone, query, client,        *)
(* options and health of the servers, and for aliases of any shape: the    *)
(* search of FindLabels, call by call, then the reply made of its matches. *)
(***************************************************************************)
EXTENDS Answer, SequenceTheorems, TLAPS

\* Most leaves are first-order reasoning; those with arithmetic cite SMTT(60).
USE ZenonT(60)

Frames == [s : QNames, i : Nat, aliased : BOOLEAN, base : Nat]
Entries == [match : [label : QNames \X TargetKinds, type : RRTypes \cup {None}], at : Nat]

LabelOf(f) == <<f.s, targets[f.i]>>
Wanted(l) == zone[l].types \cap {"CNAME", query.type}
Lists(lm, x) == \E k \in DOMAIN lm : lm[k].match = x
Has(lm, e) == \E k \in DOMAIN lm : lm[k] = e

\* Nothing is left to do for a label of a name that was looked up.
Handled(l, lm, cl) ==
    /\ zone[l].mf # None => zone[l].mf \in cl
    /\ \A t \in Wanted(l) : Lists(lm, Match(l, t))

\* A label is that of the queried name for a target, or that one leads to it.
LedTo(i, l) ==
    /\ Own(i) \in DOMAIN zone
    /\ \/ l = Own(i)
       \/ zone[Own(i)].mf # None /\ l[1] \in Via(zone[Own(i)].mf)

\* The matches come in the order of the targets that led to them.
Ordered(lm) ==
    /\ lm \in Seq(Entries)
    /\ \A a, b \in DOMAIN lm : a <= b => lm[a].at <= lm[b].at
    /\ \A k \in DOMAIN lm :
          lm[k].match.type # None => lm[k].at \in DOMAIN targets /\ LedTo(lm[k].at, lm[k].match.label)

\* The records of the queried name for the targets before n are among them.
OwnListed(n, lm) ==
    \A j \in DOMAIN targets : j < n /\ Own(j) \in DOMAIN zone =>
        \A t \in Wanted(Own(j)) : Has(lm, [match |-> Match(Own(j), t), at |-> j])

\* The calls under way: the outermost is for the queried name, and the others
\* for names its current target leads to.
Calls(stk, cl) ==
    /\ stk \in Seq(Frames) /\ stk # <<>>
    /\ cl \subseteq QNames /\ query.name \in cl
    /\ stk[1].s = query.name /\ stk[1].base = 0
    /\ \A k \in DOMAIN stk : stk[k].s \in cl /\ 1 <= stk[k].i /\ stk[k].i <= Len(targets) + 1
    /\ \A k \in DOMAIN stk : stk[k].aliased =>
          /\ stk[k].i <= Len(targets)
          /\ LabelOf(stk[k]) \in DOMAIN zone
          /\ zone[LabelOf(stk[k])].mf \in cl \ {None}
    /\ \A k \in DOMAIN stk : k # 1 => stk[1].aliased /\ stk[k].s \in Via(zone[Own(stk[1].i)].mf)

\* Every label of a name looked up was handled or is ahead of a call under way.
Covered(stk, lm, cl) ==
    \A n \in cl : \A j \in DOMAIN targets : <<n, targets[j]>> \in DOMAIN zone =>
        \/ Handled(<<n, targets[j]>>, lm, cl)
        \/ \E k \in DOMAIN stk : stk[k].s = n /\ stk[k].i <= j

SearchInv(stk, lm, cl) ==
    /\ Calls(stk, cl)
    /\ Covered(stk, lm, cl)
    /\ Ordered(lm)
    /\ \A k \in DOMAIN lm : lm[k].at <= stk[1].i
    /\ OwnListed(stk[1].i, lm)

\* What is given does not change while the query is answered.
GivenInv ==
    /\ DOMAIN zone \subseteq Labels
    /\ \A l \in DOMAIN zone : zone[l] \in LabelType
    /\ query \in [name : QNames, type : QTypes, permitDebug : BOOLEAN]
    /\ targets \in Seq(TargetKinds)
    /\ LocationPanics(opts, HasClosest, geo) => ~ geo.cityDB

HealthInv ==
    /\ steady \subseteq live
    /\ \A x \in live : x.label \in DOMAIN zone /\ x.type \in zone[x.label].types
                       /\ x = Match(x.label, x.type)

\* Every match that keeps a healthy server is still to be tried.
TryInv(lm) ==
    /\ Ordered(lm)
    /\ \A x \in Dependable(Reached) : Lists(lm, x)
    /\ \A j \in DOMAIN targets : \A x \in Dependable({Own(j)}) :
          Has(lm, [match |-> x, at |-> j])

\* A reply that may be sent.
GoodReply(r) ==
    /\ Dependable(Reached) # {} => r.answer # None
    /\ r.answer \in Matches =>
          /\ r.near => zone[r.answer.label].closest
          /\ \E i \in DOMAIN targets :
                LedTo(i, r.answer.label) /\ \A j \in 1..(i - 1) : Dependable({Own(j)}) = {}
    /\ r.soa <=> r.answer = None
    /\ r.shown # None =>
          r.shown = targets \/ (client.ip = "v4" /\ targets = <<"ip">> \o r.shown)

AnswerInv ==
    /\ GivenInv
    /\ HealthInv
    /\ pc = "targets" => ip = client.ip /\ labelMatches = <<>>
    /\ pc = "panic" => LocationPanics(opts, HasClosest, geo)
    /\ pc = "find" =>
          /\ SearchInv(stack, labelMatches, called)
          /\ targets = GetTargets(opts, HasClosest, geo, client, client.ip)
          /\ ip = Zeroed(opts, client.ip)
    /\ pc \in {"targets", "find", "try"} => m = NoReply
    /\ pc = "try" => TryInv(labelMatches)
    /\ pc \in {"write", "reply"} => GoodReply(m)
    /\ pc # "done" => sent = None
    /\ sent = None \/ (sent.rcode = "SERVFAIL" /\ sent.shown = None) \/ GoodReply(sent)

-----------------------------------------------------------------------------
(* Every name is among those it leads to, an alias of one of them leads to *)
(* another, and no set closed under aliases has fewer.                     *)
LEMMA ViaFacts ==
    ASSUME GivenInv, NEW s \in QNames
    PROVE  /\ s \in Via(s)
           /\ \A l \in ForTargets : l[1] \in Via(s) /\ zone[l].mf # None => zone[l].mf \in Via(s)
           /\ \A S \in SUBSET QNames : s \in S /\ Closed(S) => Via(s) \subseteq S
<1>1. \A l \in ForTargets : zone[l].mf # None => zone[l].mf \in QNames
  BY DEF GivenInv, ForTargets, LabelType, QNames
<1>2. s \in Via(s)
  BY DEF Via
<1>3. ASSUME NEW l \in ForTargets, l[1] \in Via(s), zone[l].mf # None
      PROVE  zone[l].mf \in Via(s)
  <2>1. ASSUME NEW S \in SUBSET QNames, s \in S, Closed(S)
        PROVE  zone[l].mf \in S
    BY <1>3, <2>1 DEF Via, Closed
  <2>. QED
    BY <1>1, <1>3, <2>1 DEF Via
<1>4. \A S \in SUBSET QNames : s \in S /\ Closed(S) => Via(s) \subseteq S
  BY DEF Via
<1>. QED
  BY <1>2, <1>3, <1>4

(* The label of a call at a target is a label for the targets.             *)
LEMMA LabelForTargets ==
    ASSUME GivenInv, NEW n, NEW j \in DOMAIN targets, <<n, targets[j]>> \in DOMAIN zone
    PROVE  <<n, targets[j]>> \in ForTargets
BY DEF ForTargets

(* An element of a sequence over a set is in the set.                      *)
LEMMA SeqElement ==
    ASSUME NEW S, NEW q \in Seq(S), NEW k \in DOMAIN q
    PROVE  q[k] \in S
BY SMTT(60)

(* The calls under way and the targets, as sequences.                      *)
LEMMA StackFacts ==
    ASSUME GivenInv, NEW stk, NEW cl, Calls(stk, cl)
    PROVE  /\ stk \in Seq(Frames) /\ Len(stk) \in Nat /\ Len(stk) >= 1 /\ DOMAIN stk = 1..Len(stk)
           /\ 1 \in DOMAIN stk /\ Len(stk) \in DOMAIN stk
           /\ stk[1] \in Frames /\ stk[Len(stk)] \in Frames
           /\ stk[1].i \in Nat /\ 1 <= stk[1].i
           /\ targets \in Seq(TargetKinds) /\ Len(targets) \in Nat /\ DOMAIN targets = 1..Len(targets)
<1>1. stk \in Seq(Frames) /\ stk # <<>> /\ targets \in Seq(TargetKinds)
  BY DEF Calls, GivenInv
<1>2. /\ Len(stk) \in Nat /\ Len(stk) >= 1 /\ DOMAIN stk = 1..Len(stk)
      /\ Len(targets) \in Nat /\ DOMAIN targets = 1..Len(targets)
  BY <1>1, SMTT(60)
<1>3. 1 \in DOMAIN stk /\ Len(stk) \in DOMAIN stk
  BY <1>2, SMTT(60)
<1>4. stk[1] \in Frames /\ stk[Len(stk)] \in Frames
  BY <1>1, <1>3, SeqElement
<1>5. stk[1].i \in Nat /\ 1 <= stk[1].i
  BY <1>3, <1>4 DEF Frames, Calls
<1>. QED
  BY <1>1, <1>2, <1>3, <1>4, <1>5

(* Following an alias keeps the invariant of the search.                   *)
LEMMA FollowAliasStep ==
    ASSUME GivenInv, NEW stk, NEW lm, NEW cl, SearchInv(stk, lm, cl),
           NEW f, f = stk[Len(stk)], f.i <= Len(targets),
           LabelOf(f) \in DOMAIN zone, zone[LabelOf(f)].mf # None
    PROVE  SearchInv(Append([stk EXCEPT ![Len(stk)] = [@ EXCEPT !.aliased = TRUE]],
                            Call(zone[LabelOf(f)].mf, Len(lm))),
                     lm, cl \cup {zone[LabelOf(f)].mf})
<1>. DEFINE n == Len(stk)
            mf == zone[LabelOf(f)].mf
            g == [f EXCEPT !.aliased = TRUE]
            c == Call(mf, Len(lm))
            mid == [stk EXCEPT ![n] = g]
            new == Append(mid, c)
<1>1. /\ stk \in Seq(Frames) /\ n \in Nat /\ n >= 1 /\ n \in DOMAIN stk
      /\ DOMAIN stk = 1..n /\ f \in Frames
      /\ targets \in Seq(TargetKinds) /\ Len(targets) \in Nat /\ DOMAIN targets = 1..Len(targets)
      /\ lm \in Seq(Entries) /\ Len(lm) \in Nat
  BY SMTT(60) DEF SearchInv, Calls, Ordered, GivenInv
<1>2. /\ f.s \in cl /\ f.s \in QNames /\ f.i \in DOMAIN targets
      /\ mf \in QNames /\ mf # None
      /\ LabelOf(f) \in ForTargets
  <2>1. f.s \in cl /\ 1 <= f.i /\ f.i \in Nat /\ f.s \in QNames
    BY <1>1 DEF SearchInv, Calls, Frames
  <2>2. f.i \in DOMAIN targets
    BY <1>1, <2>1, SMTT(60)
  <2>3. mf \in QNames
    BY DEF GivenInv, LabelType, QNames
  <2>. QED
    BY <2>1, <2>2, <2>3, LabelForTargets DEF LabelOf
<1>3. /\ g \in Frames /\ g.s = f.s /\ g.i = f.i /\ g.aliased = TRUE /\ g.base = f.base
      /\ c \in Frames /\ c.s = mf /\ c.i = 1 /\ c.aliased = FALSE /\ c.base = Len(lm)
  BY <1>1, <1>2 DEF Frames, Call
<1>4. /\ mid \in Seq(Frames) /\ Len(mid) = n
      /\ \A k \in 1..n : mid[k] = IF k = n THEN g ELSE stk[k]
  BY <1>1, <1>3, SMTT(60)
<1>5. /\ new \in Seq(Frames) /\ Len(new) = n + 1 /\ DOMAIN new = 1..(n + 1)
      /\ \A k \in 1..n : new[k] = IF k = n THEN g ELSE stk[k]
      /\ new[n + 1] = c
  <2>. HIDE DEF n, mf, g, c, mid
  <2>. QED
    BY <1>1, <1>3, <1>4, AppendProperties, SMTT(60)
<1>. HIDE DEF n, mf, g, c, mid, new
<1>6. /\ new # <<>>
      /\ new[1].s = stk[1].s /\ new[1].base = stk[1].base /\ new[1].i = stk[1].i
      /\ stk[1].aliased => new[1].aliased
      /\ n = 1 => new[1].aliased /\ stk[1] = f
  <2>1. 1 \in 1..n /\ new[1] = IF n = 1 THEN g ELSE stk[1]
    BY <1>1, <1>5, SMTT(60)
  <2>2. n = 1 => stk[1] = f
    BY DEF n
  <2>. QED
    BY <1>1, <1>3, <1>5, <2>1, <2>2, SMTT(60)
<1>same. \A k \in 1..n : new[k].s = stk[k].s /\ new[k].i = stk[k].i
  BY <1>1, <1>3, <1>5 DEF n
<1>7. Calls(new, cl \cup {mf})
  <2>1. \A k \in DOMAIN new :
           new[k].s \in cl \cup {mf} /\ 1 <= new[k].i /\ new[k].i <= Len(targets) + 1
    BY <1>1, <1>3, <1>5, <1>same, SMTT(60) DEF SearchInv, Calls
  <2>2. ASSUME NEW k \in DOMAIN new, new[k].aliased
        PROVE  /\ new[k].i <= Len(targets)
               /\ LabelOf(new[k]) \in DOMAIN zone
               /\ zone[LabelOf(new[k])].mf \in (cl \cup {mf}) \ {None}
    <3>1. CASE k = n
      BY <1>1, <1>2, <1>3, <1>5, <3>1 DEF LabelOf, mf
    <3>2. CASE k \in 1..n /\ k # n
      BY <1>1, <1>5, <2>2, <3>2 DEF SearchInv, Calls
    <3>3. CASE k = n + 1
      BY <1>3, <1>5, <2>2, <3>3
    <3>. QED
      BY <1>1, <1>5, <3>1, <3>2, <3>3, SMTT(60)
  <2>3. ASSUME NEW k \in DOMAIN new, k # 1
        PROVE  new[1].aliased /\ new[k].s \in Via(zone[Own(new[1].i)].mf)
    <3>1. CASE k \in 1..n
      <4>1. stk[1].aliased /\ stk[k].s \in Via(zone[Own(stk[1].i)].mf) /\ new[k].s = stk[k].s
        BY <1>1, <1>same, <2>3, <3>1 DEF SearchInv, Calls
      <4>. QED
        BY <1>6, <4>1
    <3>2. CASE k = n + 1 /\ n = 1
      <4>1. LabelOf(f) = Own(new[1].i)
        BY <1>6, <3>2 DEF LabelOf, Own, SearchInv, Calls
      <4>. QED
        BY <1>2, <1>3, <1>5, <1>6, <3>2, <4>1, ViaFacts DEF mf
    <3>3. CASE k = n + 1 /\ n # 1
      <4>. DEFINE from == zone[Own(stk[1].i)].mf
      <4>1. stk[1].aliased /\ f.s \in Via(from)
        BY <1>1, <3>3 DEF SearchInv, Calls, n
      <4>2. from \in QNames
        <5>1. LabelOf(stk[1]) = Own(stk[1].i) /\ 1 \in DOMAIN stk
          BY <1>1, SMTT(60) DEF LabelOf, Own, SearchInv, Calls
        <5>. QED
          BY <4>1, <5>1 DEF SearchInv, Calls
      <4>. HIDE DEF from
      <4>3. mf \in Via(from)
        <5>1. LabelOf(f)[1] = f.s
          BY DEF LabelOf
        <5>. QED
          BY <1>2, <4>1, <4>2, <5>1, ViaFacts DEF mf
      <4>. QED
        BY <1>3, <1>5, <1>6, <3>3, <4>1, <4>3 DEF from
    <3>. QED
      BY <1>1, <1>5, <3>1, <3>2, <3>3, SMTT(60)
  <2>. QED
    BY <1>2, <1>5, <1>6, <2>1, <2>2, <2>3 DEF SearchInv, Calls
<1>8. Covered(new, lm, cl \cup {mf})
  <2>. SUFFICES ASSUME NEW x \in cl \cup {mf}, NEW j \in DOMAIN targets,
                       <<x, targets[j]>> \in DOMAIN zone,
                       ~ Handled(<<x, targets[j]>>, lm, cl \cup {mf})
                PROVE  \E k \in DOMAIN new : new[k].s = x /\ new[k].i <= j
    BY DEF Covered
  <2>1. CASE x = mf
    <3>1. n + 1 \in DOMAIN new /\ new[n + 1].s = x /\ new[n + 1].i <= j
      BY <1>1, <1>3, <1>5, <2>1, SMTT(60)
    <3>. QED
      BY <3>1
  <2>2. CASE x \in cl
    <3>1. ~ Handled(<<x, targets[j]>>, lm, cl)
      BY DEF Handled
    <3>2. PICK k \in DOMAIN stk : stk[k].s = x /\ stk[k].i <= j
      BY <2>2, <3>1 DEF SearchInv, Covered
    <3>3. k \in DOMAIN new /\ new[k].s = x /\ new[k].i <= j
      BY <1>1, <1>5, <1>same, <3>2, SMTT(60)
    <3>. QED
      BY <3>3
  <2>. QED
    BY <2>1, <2>2
<1>9. SearchInv(new, lm, cl \cup {mf})
  BY <1>6, <1>7, <1>8 DEF SearchInv
<1>. QED
  BY <1>9 DEF new, mid, g, c, n, mf

(* Matches added at the end for the current target keep the list in order  *)
(* and drop nothing of it.                                                 *)
LEMMA ExtendList ==
    ASSUME NEW lm, Ordered(lm), NEW p \in Nat, \A k \in DOMAIN lm : lm[k].at <= p,
           NEW add \in Seq(Entries), \A k \in DOMAIN add : add[k].at = p,
           \A k \in DOMAIN add : add[k].match.type # None =>
               p \in DOMAIN targets /\ LedTo(p, add[k].match.label)
    PROVE  /\ Ordered(lm \o add)
           /\ \A k \in DOMAIN (lm \o add) : (lm \o add)[k].at <= p
           /\ \A e : Has(lm, e) \/ Has(add, e) => Has(lm \o add, e)
           /\ \A x : Lists(lm, x) \/ Lists(add, x) => Lists(lm \o add, x)
<1>. DEFINE new == lm \o add
            a == Len(lm)
            b == Len(add)
<1>1. lm \in Seq(Entries) /\ a \in Nat /\ b \in Nat /\ DOMAIN lm = 1..a /\ DOMAIN add = 1..b
  BY SMTT(60) DEF Ordered
<1>2. /\ new \in Seq(Entries) /\ DOMAIN new = 1..(a + b)
      /\ \A k \in 1..a : new[k] = lm[k]
      /\ \A k \in 1..(a + b) : k > a => k - a \in 1..b /\ new[k] = add[k - a]
  BY <1>1, ConcatProperties, SMTT(60)
<1>3. \A k \in 1..b : k + a \in 1..(a + b) /\ new[k + a] = add[k]
  <2>. TAKE k \in 1..b
  <2>1. k + a \in 1..(a + b) /\ k + a > a /\ (k + a) - a = k
    BY <1>1, SMTT(60)
  <2>. QED
    BY <1>2, <2>1
<1>. HIDE DEF new, a, b
<1>4. \A k \in DOMAIN new : new[k].at <= p /\ new[k].at \in Nat
  <2>. TAKE k \in DOMAIN new
  <2>1. new[k] \in Entries
    BY <1>2, SeqElement
  <2>2. new[k].at \in Nat
    BY <2>1 DEF Entries
  <2>3. k \in 1..a \/ (k \in 1..(a + b) /\ k > a)
    BY <1>1, <1>2, SMTT(60)
  <2>4. CASE k \in 1..a
    BY <1>1, <1>2, <2>2, <2>4
  <2>5. CASE k \in 1..(a + b) /\ k > a
    <3>1. k - a \in DOMAIN add /\ new[k] = add[k - a]
      BY <1>1, <1>2, <2>5
    <3>2. new[k].at = p
      BY <3>1
    <3>. QED
      BY <2>2, <3>2, SMTT(60)
  <2>. QED
    BY <2>3, <2>4, <2>5
<1>5. ASSUME NEW k \in DOMAIN new, NEW l \in DOMAIN new, k <= l
      PROVE  new[k].at <= new[l].at
  <2>1. CASE l \in 1..a
    BY <1>1, <1>2, <1>5, <2>1, SMTT(60) DEF Ordered
  <2>2. CASE l > a
    BY <1>1, <1>2, <1>4, <2>2
  <2>. QED
    BY <1>1, <1>2, <2>1, <2>2, SMTT(60)
<1>6. ASSUME NEW k \in DOMAIN new, new[k].match.type # None
      PROVE  new[k].at \in DOMAIN targets /\ LedTo(new[k].at, new[k].match.label)
  <2>1. CASE k \in 1..a
    BY <1>1, <1>2, <1>6, <2>1 DEF Ordered
  <2>2. CASE k > a
    BY <1>1, <1>2, <1>6, <2>2, SMTT(60)
  <2>. QED
    BY <1>1, <1>2, <2>1, <2>2, SMTT(60)
<1>7. Ordered(new)
  BY <1>2, <1>5, <1>6 DEF Ordered
<1>8. \A k \in DOMAIN lm : k \in DOMAIN new /\ new[k] = lm[k]
  BY <1>1, <1>2, SMTT(60)
<1>9. \A k \in DOMAIN add : k + a \in DOMAIN new /\ new[k + a] = add[k]
  BY <1>1, <1>2, <1>3
<1>10. /\ \A e : Has(lm, e) \/ Has(add, e) => Has(new, e)
       /\ \A x : Lists(lm, x) \/ Lists(add, x) => Lists(new, x)
  BY <1>8, <1>9 DEF Has, Lists
<1>. QED
  BY <1>4, <1>7, <1>10 DEF new

(* What the list has it keeps: labels handled stay handled.                *)
LEMMA HandledKept ==
    ASSUME NEW l, NEW lm, NEW new, NEW cl, \A x : Lists(lm, x) => Lists(new, x),
           Handled(l, lm, cl)
    PROVE  Handled(l, new, cl)
BY DEF Handled

(* The target the outermost call is at leads to the label the innermost    *)
(* looks at.                                                               *)
LEMMA TopLedTo ==
    ASSUME GivenInv, NEW stk, NEW cl, Calls(stk, cl), NEW f, f = stk[Len(stk)],
           f.i <= Len(targets), LabelOf(f) \in DOMAIN zone
    PROVE  stk[1].i \in DOMAIN targets /\ LedTo(stk[1].i, LabelOf(f))
<1>1. /\ Len(stk) \in Nat /\ Len(stk) >= 1 /\ DOMAIN stk = 1..Len(stk)
      /\ 1 \in DOMAIN stk /\ Len(stk) \in DOMAIN stk /\ f \in Frames /\ stk[1] \in Frames
      /\ stk[1].i \in Nat /\ 1 <= stk[1].i
      /\ Len(targets) \in Nat /\ DOMAIN targets = 1..Len(targets)
  BY StackFacts
<1>2. LabelOf(stk[1]) = Own(stk[1].i)
  BY DEF LabelOf, Own, Calls
<1>3. CASE Len(stk) = 1
  BY <1>1, <1>2, <1>3, SMTT(60) DEF LedTo
<1>4. CASE Len(stk) # 1
  <2>1. stk[1].aliased /\ f.s \in Via(zone[Own(stk[1].i)].mf)
    BY <1>1, <1>4 DEF Calls
  <2>2. stk[1].i <= Len(targets) /\ Own(stk[1].i) \in DOMAIN zone /\ zone[Own(stk[1].i)].mf # None
    BY <1>1, <1>2, <2>1 DEF Calls
  <2>3. LabelOf(f)[1] = f.s
    BY DEF LabelOf
  <2>. QED
    BY <1>1, <2>1, <2>2, <2>3, SMTT(60) DEF LedTo
<1>. QED
  BY <1>3, <1>4

(* Looking at the records of a label, and going on to the next target,     *)
(* keeps the invariant of the search.                                      *)
LEMMA MatchTypesStep ==
    ASSUME GivenInv, NEW stk, NEW lm, NEW cl, SearchInv(stk, lm, cl),
           NEW f, f = stk[Len(stk)], f.i <= Len(targets),
           LabelOf(f) \in DOMAIN zone /\ zone[LabelOf(f)].mf # None => f.aliased,
           NEW add \in Seq(Entries),
           \A k \in DOMAIN add :
               LabelOf(f) \in DOMAIN zone /\ add[k].match.label = LabelOf(f) /\ add[k].at = stk[1].i,
           LabelOf(f) \in DOMAIN zone => \A t \in Wanted(LabelOf(f)) :
               Has(add, [match |-> Match(LabelOf(f), t), at |-> stk[1].i])
    PROVE  SearchInv([stk EXCEPT ![Len(stk)] = [@ EXCEPT !.i = f.i + 1, !.aliased = FALSE]],
                     lm \o add, cl)
<1>. DEFINE n == Len(stk)
            g == [f EXCEPT !.i = f.i + 1, !.aliased = FALSE]
            new == [stk EXCEPT ![n] = g]
            list == lm \o add
<1>1. /\ stk \in Seq(Frames) /\ n \in Nat /\ n >= 1 /\ n \in DOMAIN stk /\ 1 \in DOMAIN stk
      /\ DOMAIN stk = 1..n /\ f \in Frames /\ stk[1] \in Frames
      /\ targets \in Seq(TargetKinds) /\ Len(targets) \in Nat /\ DOMAIN targets = 1..Len(targets)
  BY SMTT(60) DEF SearchInv, Calls, GivenInv
<1>2. f.i \in Nat /\ 1 <= f.i /\ stk[1].i \in Nat /\ f.s \in cl
  BY <1>1 DEF Frames, SearchInv, Calls
<1>3. g \in Frames /\ g.s = f.s /\ g.i = f.i + 1 /\ g.aliased = FALSE /\ g.base = f.base
  <2>. DEFINE j == f.i + 1
  <2>1. j \in Nat
    BY <1>2, SMTT(60)
  <2>. HIDE DEF j
  <2>2. [f EXCEPT !.i = j, !.aliased = FALSE] \in Frames
    BY <1>1, <2>1 DEF Frames
  <2>3. /\ g = [f EXCEPT !.i = j, !.aliased = FALSE]
        /\ g.s = f.s /\ g.i = j /\ g.aliased = FALSE /\ g.base = f.base
    BY <1>1 DEF Frames, j
  <2>. QED
    BY <2>2, <2>3 DEF j
<1>4. /\ new \in Seq(Frames) /\ new # <<>> /\ DOMAIN new = 1..n
      /\ \A k \in 1..n : new[k] = IF k = n THEN g ELSE stk[k]
  BY <1>1, <1>3, SMTT(60)
<1>5. /\ Ordered(list)
      /\ \A k \in DOMAIN list : list[k].at <= stk[1].i
      /\ \A e : Has(lm, e) \/ Has(add, e) => Has(list, e)
      /\ \A x : Lists(lm, x) \/ Lists(add, x) => Lists(list, x)
  <2>1. \A k \in DOMAIN add : add[k].match.type # None =>
            stk[1].i \in DOMAIN targets /\ LedTo(stk[1].i, add[k].match.label)
    BY TopLedTo DEF SearchInv
  <2>. QED
    BY <1>2, <2>1, ExtendList DEF SearchInv
<1>. HIDE DEF n, g, new, list
<1>6. n = 1 => stk[1] = f
  BY DEF n
<1>7. /\ new[1].s = stk[1].s /\ new[1].base = stk[1].base
      /\ stk[1].i <= new[1].i
      /\ n = 1 => new[1].i = f.i + 1
      /\ n # 1 => new[1] = stk[1]
  <2>1. 1 \in 1..n
    BY <1>1
  <2>2. CASE n = 1
    BY <1>2, <1>3, <1>4, <1>6, <2>1, <2>2, SMTT(60)
  <2>3. CASE n # 1
    BY <1>2, <1>4, <2>1, <2>3, SMTT(60)
  <2>. QED
    BY <2>2, <2>3
<1>same. \A k \in 1..n : new[k].s = stk[k].s
  BY <1>1, <1>3, <1>4 DEF n
<1>8. Calls(new, cl)
  <2>1. \A k \in DOMAIN new :
           new[k].s \in cl /\ 1 <= new[k].i /\ new[k].i <= Len(targets) + 1
    <3>. TAKE k \in DOMAIN new
    <3>1. CASE k = n
      <4>1. new[k] = g
        BY <1>4, <3>1
      <4>. QED
        BY <1>1, <1>2, <1>3, <4>1, SMTT(60)
    <3>2. CASE k # n
      BY <1>1, <1>4, <3>2 DEF SearchInv, Calls
    <3>. QED
      BY <3>1, <3>2
  <2>2. ASSUME NEW k \in DOMAIN new, new[k].aliased
        PROVE  /\ new[k].i <= Len(targets)
               /\ LabelOf(new[k]) \in DOMAIN zone
               /\ zone[LabelOf(new[k])].mf \in cl \ {None}
    BY <1>1, <1>3, <1>4, <2>2 DEF SearchInv, Calls
  <2>3. ASSUME NEW k \in DOMAIN new, k # 1
        PROVE  new[1].aliased /\ new[k].s \in Via(zone[Own(new[1].i)].mf)
    <3>1. k \in DOMAIN stk /\ n # 1 /\ new[1] = stk[1] /\ new[k].s = stk[k].s
      BY <1>1, <1>4, <1>7, <1>same, <2>3, SMTT(60)
    <3>. QED
      BY <2>3, <3>1 DEF SearchInv, Calls
  <2>. QED
    BY <1>4, <1>7, <2>1, <2>2, <2>3 DEF SearchInv, Calls
<1>9. Covered(new, list, cl)
  <2>. SUFFICES ASSUME NEW x \in cl, NEW j \in DOMAIN targets,
                       <<x, targets[j]>> \in DOMAIN zone,
                       ~ Handled(<<x, targets[j]>>, list, cl)
                PROVE  \E k \in DOMAIN new : new[k].s = x /\ new[k].i <= j
    BY DEF Covered
  <2>1. ~ Handled(<<x, targets[j]>>, lm, cl)
    BY <1>5, HandledKept
  <2>2. PICK k \in DOMAIN stk : stk[k].s = x /\ stk[k].i <= j
    BY <2>1 DEF SearchInv, Covered
  <2>3. CASE k # n
    BY <1>1, <1>4, <2>2, <2>3
  <2>4. CASE k = n /\ f.i # j
    <3>1. f.s = x /\ f.i <= j
      BY <2>2, <2>4 DEF n
    <3>2. new[n].s = x /\ new[n].i <= j /\ n \in DOMAIN new
      BY <1>1, <1>2, <1>3, <1>4, <2>4, <3>1, SMTT(60)
    <3>. QED
      BY <3>2
  <2>5. CASE k = n /\ f.i = j
    <3>1. LabelOf(f) = <<x, targets[j]>>
      BY <2>2, <2>5 DEF LabelOf, n
    <3>2. zone[LabelOf(f)].mf # None => zone[LabelOf(f)].mf \in cl
      BY <1>1, <3>1 DEF SearchInv, Calls, n
    <3>3. \A t \in Wanted(LabelOf(f)) : Lists(list, Match(LabelOf(f), t))
      <4>. TAKE t \in Wanted(LabelOf(f))
      <4>1. Has(add, [match |-> Match(LabelOf(f), t), at |-> stk[1].i])
        BY <3>1
      <4>2. Lists(add, Match(LabelOf(f), t))
        BY <4>1, SMTT(60) DEF Has, Lists
      <4>. QED
        BY <1>5, <4>2
    <3>. QED
      BY <3>1, <3>2, <3>3 DEF Handled
  <2>. QED
    BY <2>3, <2>4, <2>5
<1>10. OwnListed(new[1].i, list)
  <2>. SUFFICES ASSUME NEW j \in DOMAIN targets, j < new[1].i, Own(j) \in DOMAIN zone,
                       NEW t \in Wanted(Own(j))
                PROVE  Has(list, [match |-> Match(Own(j), t), at |-> j])
    BY DEF OwnListed
  <2>1. CASE j < stk[1].i
    BY <1>5, <2>1 DEF SearchInv, OwnListed
  <2>2. CASE ~ (j < stk[1].i)
    <3>1. n = 1 /\ j = f.i /\ f = stk[1]
      BY <1>1, <1>2, <1>6, <1>7, <2>2, SMTT(60)
    <3>2. LabelOf(f) = Own(j)
      BY <3>1 DEF LabelOf, Own, SearchInv, Calls
    <3>. QED
      BY <1>5, <3>1, <3>2
  <2>. QED
    BY <2>1, <2>2
<1>11. \A k \in DOMAIN list : list[k].at <= new[1].i
  <2>. TAKE k \in DOMAIN list
  <2>1. list[k].at \in Nat /\ list[k].at <= stk[1].i
    <3>1. list[k] \in Entries
      BY <1>5, SeqElement DEF Ordered
    <3>. QED
      BY <1>5, <3>1 DEF Entries
  <2>2. new[1].i \in Nat
    <3>1. new[1] \in Frames
      BY <1>1, <1>4, SeqElement
    <3>. QED
      BY <3>1 DEF Frames
  <2>. QED
    BY <1>2, <1>7, <2>1, <2>2, SMTT(60)
<1>12. SearchInv(new, list, cl)
  BY <1>5, <1>8, <1>9, <1>10, <1>11 DEF SearchInv
<1>. QED
  BY <1>12 DEF new, g, list, n

(* A call that returns to another keeps the invariant of the search: it    *)
(* has no target ahead.                                                    *)
LEMMA ReturnStep ==
    ASSUME GivenInv, NEW stk, NEW lm, NEW cl, SearchInv(stk, lm, cl),
           NEW f, f = stk[Len(stk)], f.i > Len(targets), Len(stk) # 1,
           NEW add \in Seq(Entries),
           \A k \in DOMAIN add : add[k].match.type = None /\ add[k].at = stk[1].i
    PROVE  SearchInv(SubSeq(stk, 1, Len(stk) - 1), lm \o add, cl)
<1>. DEFINE n == Len(stk)
            new == SubSeq(stk, 1, n - 1)
            list == lm \o add
<1>1. /\ stk \in Seq(Frames) /\ n \in Nat /\ n > 1 /\ n - 1 \in Nat /\ 1 \in DOMAIN stk
      /\ DOMAIN stk = 1..n /\ stk[1] \in Frames /\ f \in Frames
      /\ targets \in Seq(TargetKinds) /\ Len(targets) \in Nat /\ DOMAIN targets = 1..Len(targets)
  <2>1. /\ stk \in Seq(Frames) /\ n \in Nat /\ n >= 1 /\ 1 \in DOMAIN stk
        /\ DOMAIN stk = 1..n /\ stk[1] \in Frames /\ f \in Frames
        /\ targets \in Seq(TargetKinds) /\ Len(targets) \in Nat /\ DOMAIN targets = 1..Len(targets)
    BY StackFacts DEF SearchInv
  <2>2. n # 1
    OBVIOUS
  <2>. HIDE DEF n
  <2>. QED
    BY <2>1, <2>2, SMTT(60)
<1>2. f.i \in Nat /\ stk[1].i \in Nat
  BY <1>1 DEF Frames
<1>3. /\ new \in Seq(Frames) /\ Len(new) = n - 1 /\ DOMAIN new = 1..(n - 1)
      /\ \A k \in 1..(n - 1) : new[k] = stk[k]
  BY <1>1, SMTT(60)
<1>4. new # <<>> /\ new[1] = stk[1] /\ \A k \in DOMAIN new : k \in DOMAIN stk /\ new[k] = stk[k]
  <2>. HIDE DEF n, new
  <2>. QED
    BY <1>1, <1>3, SMTT(60)
<1>5. /\ Ordered(list)
      /\ \A k \in DOMAIN list : list[k].at <= stk[1].i
      /\ \A e : Has(lm, e) \/ Has(add, e) => Has(list, e)
      /\ \A x : Lists(lm, x) \/ Lists(add, x) => Lists(list, x)
  BY <1>2, ExtendList DEF SearchInv
<1>. HIDE DEF n, new, list
<1>6. Calls(new, cl)
  BY <1>3, <1>4 DEF SearchInv, Calls
<1>7. Covered(new, list, cl)
  <2>. SUFFICES ASSUME NEW x \in cl, NEW j \in DOMAIN targets,
                       <<x, targets[j]>> \in DOMAIN zone,
                       ~ Handled(<<x, targets[j]>>, list, cl)
                PROVE  \E k \in DOMAIN new : new[k].s = x /\ new[k].i <= j
    BY DEF Covered
  <2>1. ~ Handled(<<x, targets[j]>>, lm, cl)
    BY <1>5, HandledKept
  <2>2. PICK k \in DOMAIN stk : stk[k].s = x /\ stk[k].i <= j
    BY <2>1 DEF SearchInv, Covered
  <2>3. k # n
    BY <1>1, <1>2, <2>2, SMTT(60) DEF n
  <2>. QED
    BY <1>1, <1>3, <2>2, <2>3, SMTT(60)
<1>8. OwnListed(stk[1].i, list)
  BY <1>5 DEF SearchInv, OwnListed
<1>9. SearchInv(new, list, cl)
  BY <1>4, <1>5, <1>6, <1>7, <1>8 DEF SearchInv
<1>. QED
  BY <1>9 DEF new, list, n

(* When the outermost call returns, every label the queried name leads to  *)
(* was handled: the names looked up are closed under aliases.              *)
LEMMA FinishStep ==
    ASSUME GivenInv, NEW stk, NEW lm, NEW cl, SearchInv(stk, lm, cl),
           NEW f, f = stk[Len(stk)], f.i > Len(targets), Len(stk) = 1,
           NEW add \in Seq(Entries),
           \A k \in DOMAIN add : add[k].match.type = None /\ add[k].at = stk[1].i
    PROVE  /\ Ordered(lm \o add)
           /\ \A l \in Reached : \A t \in Wanted(l) : Lists(lm \o add, Match(l, t))
           /\ OwnListed(Len(targets) + 1, lm \o add)
           /\ Via(query.name) \subseteq cl
<1>. DEFINE list == lm \o add
<1>1. /\ stk \in Seq(Frames) /\ DOMAIN stk = {1} /\ f = stk[1] /\ f \in Frames
      /\ targets \in Seq(TargetKinds) /\ Len(targets) \in Nat /\ DOMAIN targets = 1..Len(targets)
  BY SMTT(60) DEF SearchInv, Calls, GivenInv
<1>2. f.i \in Nat /\ f.i = Len(targets) + 1
  BY <1>1, SMTT(60) DEF Frames, SearchInv, Calls
<1>3. /\ Ordered(list)
      /\ \A e : Has(lm, e) \/ Has(add, e) => Has(list, e)
      /\ \A x : Lists(lm, x) \/ Lists(add, x) => Lists(list, x)
  BY <1>1, <1>2, ExtendList DEF SearchInv
<1>. HIDE DEF list
<1>4. ASSUME NEW l \in ForTargets, l[1] \in cl
      PROVE  Handled(l, lm, cl)
  <2>1. PICK j \in DOMAIN targets : targets[j] = l[2]
    BY DEF ForTargets
  <2>2. l = <<l[1], targets[j]>> /\ l \in DOMAIN zone
    BY <2>1, SMTT(60) DEF ForTargets, GivenInv, Labels
  <2>3. ~ \E k \in DOMAIN stk : stk[k].s = l[1] /\ stk[k].i <= j
    BY <1>1, <1>2, <2>1, SMTT(60)
  <2>. QED
    BY <1>4, <2>2, <2>3, SMTT(60) DEF SearchInv, Covered
<1>5. Via(query.name) \subseteq cl
  <2>1. Closed(cl)
    BY <1>4 DEF Closed, Handled
  <2>2. query.name \in QNames /\ cl \in SUBSET QNames /\ query.name \in cl
    BY DEF SearchInv, Calls
  <2>. QED
    BY <2>1, <2>2, ViaFacts
<1>6. ASSUME NEW l \in Reached, NEW t \in Wanted(l)
      PROVE  Lists(list, Match(l, t))
  BY <1>3, <1>4, <1>5 DEF Reached, Handled
<1>7. OwnListed(Len(targets) + 1, list)
  BY <1>1, <1>2, <1>3 DEF SearchInv, OwnListed
<1>. QED
  BY <1>3, <1>5, <1>6, <1>7 DEF list

-----------------------------------------------------------------------------
(* The matches of one label are those of the types looked for.             *)
LEMMA ByTypeFacts ==
    ASSUME GivenInv, SearchInv(stack, labelMatches, called), NEW l \in QNames \X TargetKinds
    PROVE  /\ byType(l) \in Seq(Entries)
           /\ \A k \in DOMAIN byType(l) :
                 /\ l \in DOMAIN zone
                 /\ byType(l)[k].match.label = l
                 /\ byType(l)[k].at = stack[1].i
           /\ l \in DOMAIN zone => \A t \in Wanted(l) :
                 Has(byType(l), [match |-> Match(l, t), at |-> stack[1].i])
<1>1. stack[1].i \in Nat
  <2>1. stack \in Seq(Frames) /\ 1 \in DOMAIN stack
    BY SMTT(60) DEF SearchInv, Calls
  <2>2. stack[1] \in Frames
    BY <2>1, SeqElement
  <2>. QED
    BY <2>2 DEF Frames
<1>2. CASE l \notin DOMAIN zone
  <2>1. byType(l) = <<>>
    BY <1>2 DEF byType
  <2>. QED
    BY <1>2, <2>1, SMTT(60)
<1>3. CASE l \in DOMAIN zone
  <2>. DEFINE c == ofType(l, "CNAME")
              d == ofType(l, query.type)
              e(t) == [match |-> Match(l, t), at |-> stack[1].i]
  <2>1. query.type \in RRTypes /\ "CNAME" \in RRTypes
    BY AnswerAssumption DEF GivenInv, RRTypes
  <2>2. e("CNAME") \in Entries /\ e(query.type) \in Entries
    BY <1>1, <2>1 DEF Entries, Match
  <2>3. /\ c = IF "CNAME" \in zone[l].types THEN <<e("CNAME")>> ELSE <<>>
        /\ d = IF query.type \in zone[l].types THEN <<e(query.type)>> ELSE <<>>
    BY DEF ofType, Found
  <2>4. \A t : e(t).match.label = l /\ e(t).at = stack[1].i
    BY DEF Match
  <2>5. byType(l) = c \o d
    BY <1>3 DEF byType
  <2>. HIDE DEF c, d, e
  <2>6. c \in Seq(Entries) /\ d \in Seq(Entries)
    BY <2>2, <2>3, SMTT(60)
  <2>7. c \o d \in Seq(Entries)
    BY <2>6, ConcatProperties
  <2>8. \A k \in DOMAIN (c \o d) : (c \o d)[k] \in {e("CNAME"), e(query.type)}
    BY <2>2, <2>3, SMTT(60)
  <2>9. \A t \in Wanted(l) : Has(c \o d, e(t))
    <3>1. ASSUME "CNAME" \in zone[l].types PROVE Has(c \o d, e("CNAME"))
      <4>1. c = <<e("CNAME")>>
        BY <2>3, <3>1
      <4>2. 1 \in DOMAIN (c \o d) /\ (c \o d)[1] = e("CNAME")
        BY ONLY <2>6, <4>1, SMTT(60)
      <4>. QED
        BY <4>2 DEF Has
    <3>2. ASSUME query.type \in zone[l].types PROVE Has(c \o d, e(query.type))
      <4>1. d = <<e(query.type)>>
        BY <2>3, <3>2
      <4>2. Len(c) + 1 \in DOMAIN (c \o d) /\ (c \o d)[Len(c) + 1] = e(query.type)
        BY ONLY <2>6, <4>1, SMTT(60)
      <4>. QED
        BY <4>2 DEF Has
    <3>. QED
      BY <3>1, <3>2 DEF Wanted
  <2>10. \A k \in DOMAIN (c \o d) :
            (c \o d)[k].match.label = l /\ (c \o d)[k].at = stack[1].i
    BY <2>4, <2>8
  <2>. QED
    BY <1>3, <2>5, <2>7, <2>9, <2>10, SMTT(60) DEF e
<1>. QED
  BY <1>2, <1>3

(* The targets of the address, and those of the databases.                 *)
LEMMA AddressTargetsType == \A i : addressTargets(opts, i) \in Seq(TargetKinds)
<1>1. <<"net">> \in Seq(TargetKinds) /\ <<"ip", "net">> \in Seq(TargetKinds)
  BY SMTT(60) DEF TargetKinds, TargetOptions
<1>. QED
  BY <1>1, SMTT(60) DEF addressTargets

(* The target for everywhere, where the option asks for it.                *)
LEMMA GlobalTargetType == (IF "@" \in opts THEN <<"@">> ELSE <<>>) \in Seq(TargetKinds)
<1>1. "@" \in TargetKinds
  BY DEF TargetKinds, TargetOptions
<1>2. <<"@">> \in Seq(TargetKinds)
  BY <1>1, SMTT(60)
<1>. QED
  BY <1>2, SMTT(60)

(* The targets of a client that the geo databases locate.                  *)
LEMMA GeoTargetsType ==
    \A known : getGeoTargets(opts, HasClosest, geo, known) \in Seq(TargetKinds)
<1>. TAKE known
<1>. DEFINE part(S, t) == IF t \in S THEN <<t>> ELSE <<>>
<1>1. \A S : \A t \in TargetKinds : part(S, t) \in Seq(TargetKinds)
  BY SMTT(60)
<1>2. {"asn", "region", "regiongroup", "country", "continent"} \subseteq TargetKinds
  BY DEF TargetKinds, TargetOptions
<1>3. (IF "asn" \in opts /\ geo.asn THEN <<"asn">> ELSE <<>>) \in Seq(TargetKinds)
  BY <1>2, SMTT(60)
<1>. HIDE DEF part
<1>4. \A p : \A S : p \in Seq(TargetKinds) =>
         p \o part(S, "region") \o part(S, "regiongroup") \o part(S, "country") \o part(S, "continent")
            \in Seq(TargetKinds)
  BY <1>1, <1>2, ConcatProperties
<1>. QED
  BY <1>3, <1>4 DEF getGeoTargets, part

(* The targets are a sequence of targets.                                  *)
LEMMA TargetsType ==
    \A i : GetTargets(opts, HasClosest, geo, client, i) \in Seq(TargetKinds)
<1>. TAKE i
<1>. DEFINE a == addressTargets(opts, i)
            known == client.known[LookupAddress(opts, i)]
            G == IF geo.provider THEN getGeoTargets(opts, HasClosest, geo, known) ELSE <<>>
            A == IF "@" \in opts THEN <<"@">> ELSE <<>>
<1>1. A \in Seq(TargetKinds)
  BY GlobalTargetType
<1>2. a \in Seq(TargetKinds) /\ G \in Seq(TargetKinds)
  BY AddressTargetsType, GeoTargetsType, SMTT(60)
<1>3. GetTargets(opts, HasClosest, geo, client, i) = (a \o G) \o A
  BY DEF GetTargets
<1>. HIDE DEF a, G, A
<1>. QED
  BY <1>1, <1>2, <1>3, ConcatProperties, SMTT(60)

(* The address zeroed by the first lookup of the targets shortens the list *)
(* the second one makes only by the address itself.                        *)
LEMMA TargetsAgain ==
    ASSUME targets = GetTargets(opts, HasClosest, geo, client, client.ip),
           NEW shown, shown = GetTargets(opts, HasClosest, geo, client, Zeroed(opts, client.ip))
    PROVE  shown = targets \/ (client.ip = "v4" /\ targets = <<"ip">> \o shown)
<1>. DEFINE looked == LookupAddress(opts, client.ip)
            G == IF geo.provider THEN getGeoTargets(opts, HasClosest, geo, client.known[looked])
                 ELSE <<>>
            A == IF "@" \in opts THEN <<"@">> ELSE <<>>
<1>1. LookupAddress(opts, Zeroed(opts, client.ip)) = looked
  BY DEF LookupAddress, Zeroed
<1>2. /\ targets = (addressTargets(opts, client.ip) \o G) \o A
      /\ shown = (addressTargets(opts, Zeroed(opts, client.ip)) \o G) \o A
  BY <1>1 DEF GetTargets
<1>3. G \in Seq(TargetKinds) /\ A \in Seq(TargetKinds)
  BY GeoTargetsType, GlobalTargetType, SMTT(60)
<1>. HIDE DEF G, A, looked
<1>4. CASE "ip" \in opts /\ client.ip = "v4"
  <2>1. /\ addressTargets(opts, client.ip) = <<"ip", "net">>
        /\ addressTargets(opts, Zeroed(opts, client.ip)) = <<"net">>
    BY <1>4 DEF addressTargets, Zeroed
  <2>2. <<"ip", "net">> = <<"ip">> \o <<"net">>
    BY SMTT(60)
  <2>3. <<"ip">> \in Seq(TargetKinds) /\ <<"net">> \in Seq(TargetKinds)
    BY SMTT(60) DEF TargetKinds, TargetOptions
  <2>4. <<"net">> \o G \in Seq(TargetKinds)
    BY <1>3, <2>3, ConcatProperties
  <2>5. (<<"ip">> \o <<"net">>) \o G = <<"ip">> \o (<<"net">> \o G)
    BY <1>3, <2>3, ConcatAssociative, SMTT(60)
  <2>6. (<<"ip">> \o (<<"net">> \o G)) \o A = <<"ip">> \o ((<<"net">> \o G) \o A)
    BY <1>3, <2>3, <2>4, ConcatAssociative, SMTT(60)
  <2>. QED
    BY <1>2, <1>4, <2>1, <2>2, <2>5, <2>6
<1>5. CASE ~ ("ip" \in opts /\ client.ip = "v4")
  BY <1>2, <1>5 DEF Zeroed
<1>. QED
  BY <1>4, <1>5

-----------------------------------------------------------------------------
(* What is said of the zone, the query and the targets does not change     *)
(* with them unchanged.                                                    *)
LEMMA SameZone ==
    ASSUME zone' = zone, query' = query, targets' = targets
    PROVE  /\ ForTargets' = ForTargets
           /\ Reached' = Reached
           /\ Matches' = Matches
           /\ \A s : Via(s)' = Via(s)
           /\ \A i : Own(i)' = Own(i)
           /\ \A l : Wanted(l)' = Wanted(l)
           /\ \A i, l : LedTo(i, l)' <=> LedTo(i, l)
           /\ (Findable <=> Findable') /\ (DebugQuery <=> DebugQuery')
<1>1. ForTargets' = ForTargets
  BY DEF ForTargets
<1>2. \A S : Closed(S)' <=> Closed(S)
  BY <1>1 DEF Closed
<1>3. \A s : Via(s)' = Via(s)
  BY <1>2 DEF Via
<1>4. Reached' = Reached
  BY <1>1, <1>3 DEF Reached
<1>5. Matches' = Matches
  BY SMTT(60) DEF Matches
<1>6. \A i : Own(i)' = Own(i)
  BY DEF Own
<1>7. \A l : Wanted(l)' = Wanted(l)
  BY DEF Wanted
<1>8. \A i, l : LedTo(i, l)' <=> LedTo(i, l)
  BY <1>3, <1>6 DEF LedTo
<1>9. (Findable <=> Findable') /\ (DebugQuery <=> DebugQuery')
  BY <1>3, <1>4 DEF Findable, DebugQuery
<1>. QED
  BY <1>1, <1>3, <1>4, <1>5, <1>6, <1>7, <1>8, <1>9

(* What the invariant says of the search is about the zone, the query and  *)
(* the targets: while these and the search stay, it stays.                 *)
LEMMA SearchPrimed ==
    ASSUME zone' = zone, query' = query, targets' = targets,
           SearchInv(stack', labelMatches', called')
    PROVE  SearchInv(stack, labelMatches, called)'
<1>1. Calls(stack, called)'
  <2>1. Calls(stack', called')
    BY DEF SearchInv
  <2>2. (\A s : Via(s)' = Via(s)) /\ (\A i : Own(i)' = Own(i))
    BY SameZone
  <2>. QED
    BY ONLY zone' = zone, query' = query, targets' = targets, <2>1, <2>2, SMTT(60)
       DEF Calls, LabelOf
<1>2. Covered(stack, labelMatches, called)'
  <2>1. Covered(stack', labelMatches', called')
    BY DEF SearchInv
  <2>2. \A l : Wanted(l)' = Wanted(l)
    BY SameZone
  <2>3. \A l : Handled(l, labelMatches', called') => Handled(l, labelMatches, called)'
    BY <2>2 DEF Handled, Lists
  <2>. QED
    BY ONLY zone' = zone, targets' = targets, <2>1, <2>3, SMTT(60) DEF Covered
<1>3. Ordered(labelMatches)'
  BY SameZone DEF SearchInv, Ordered
<1>4. OwnListed(stack[1].i, labelMatches)'
  <2>1. OwnListed(stack'[1].i, labelMatches')
    BY DEF SearchInv
  <2>2. (\A i : Own(i)' = Own(i)) /\ (\A l : Wanted(l)' = Wanted(l))
    BY SameZone
  <2>. QED
    BY ONLY zone' = zone, targets' = targets, <2>1, <2>2, SMTT(60) DEF OwnListed, Has
<1>. QED
  BY <1>1, <1>2, <1>3, <1>4 DEF SearchInv

(* Replies, and matches still to be tried, stay good while servers fail.   *)
LEMMA FewerSteady ==
    ASSUME zone' = zone, query' = query, targets' = targets, steady' \subseteq steady
    PROVE  \A S : Dependable(S)' \subseteq Dependable(S)
BY DEF Dependable

(* A good reply stays one: the servers known to be steady only get fewer.  *)
LEMMA ReplyPrimed ==
    ASSUME zone' = zone, query' = query, targets' = targets, client' = client,
           steady' \subseteq steady, GoodReply(m')
    PROVE  GoodReply(m)'
BY SameZone, FewerSteady DEF GoodReply

(* So does a reply that was sent.                                          *)
LEMMA SentPrimed ==
    ASSUME zone' = zone, query' = query, targets' = targets, client' = client,
           steady' \subseteq steady, GoodReply(sent')
    PROVE  GoodReply(sent)'
BY SameZone, FewerSteady DEF GoodReply

(* So do the matches yet to be tried.                                      *)
LEMMA TryPrimed ==
    ASSUME zone' = zone, query' = query, targets' = targets, steady' \subseteq steady,
           TryInv(labelMatches')
    PROVE  TryInv(labelMatches)'
<1>1. Ordered(labelMatches)'
  BY SameZone DEF TryInv, Ordered
<1>. QED
  BY <1>1, SameZone, FewerSteady DEF TryInv, Lists, Has

(* What is given with the query does not change.                           *)
LEMMA GivenKept ==
    ASSUME GivenInv, UNCHANGED <<given, targets>>
    PROVE  GivenInv'
BY DEF GivenInv, given, LocationPanics, NeedsLocation, HasClosest

(* A match is not None.                                                    *)
LEMMA MatchesAreSome ==
    ASSUME GivenInv
    PROVE  /\ None \notin Matches
           /\ \A l \in QNames \X TargetKinds : \A t \in RRTypes : Match(l, t) # None
<1>1. \A l \in QNames \X TargetKinds : \A t \in RRTypes \cup {None} : Match(l, t) # None
  BY NoneAssumption, SMTT(60) DEF Match
<1>2. DOMAIN zone \subseteq QNames \X TargetKinds
  BY DEF GivenInv, Labels, QNames
<1>. QED
  BY <1>1, <1>2, SMTT(60) DEF Matches

(* The initial states satisfy the invariant.                               *)
LEMMA AnswerStart == Init => AnswerInv
<1>. SUFFICES ASSUME Init PROVE AnswerInv
  OBVIOUS
<1>1. LocationPanics(opts, HasClosest, geo) => ~ geo.cityDB
  <2>1. PICK db, before : geo = LoadZone(opts, HasClosest, db, before)
    BY DEF Init
  <2>2. /\ geo.provider = db.provider /\ geo.cityDB = db.city
        /\ geo.city = (db.provider /\ db.city /\ (before \/ UpperBit(opts) \/ HasClosest))
    BY <2>1 DEF LoadZone
  <2>3. NeedsLocation(opts, HasClosest) => UpperBit(opts) \/ HasClosest
    BY DEF NeedsLocation, UpperBit
  <2>. QED
    BY <2>2, <2>3 DEF LocationPanics
<1>2. GivenInv
  BY <1>1, AnswerAssumption, SMTT(60) DEF Init, GivenInv, QNames
<1>3. HealthInv
  BY SMTT(60) DEF Init, HealthInv, Match
<1>. QED
  BY <1>2, <1>3 DEF Init, AnswerInv

(* The invariant is kept while health changes.                             *)
LEMMA HealthStep ==
    ASSUME AnswerInv, NEW l \in DOMAIN zone, NEW t \in zone[l].types, SetHealth(Match(l, t))
    PROVE  AnswerInv'
<1>1. /\ zone' = zone /\ query' = query /\ targets' = targets /\ client' = client
      /\ opts' = opts /\ closest' = closest /\ geo' = geo /\ pc' = pc /\ ip' = ip /\ m' = m /\ sent' = sent
      /\ stack' = stack /\ labelMatches' = labelMatches /\ called' = called
      /\ steady' \subseteq steady
  BY DEF SetHealth, given, search
<1>2. GivenInv'
  BY GivenKept DEF AnswerInv, SetHealth, given
<1>3. HealthInv'
  BY <1>1, SMTT(60) DEF AnswerInv, HealthInv, SetHealth, Match
<1>4. pc = "find" => SearchInv(stack, labelMatches, called)'
  BY <1>1, SearchPrimed DEF AnswerInv
<1>5. pc = "try" => TryInv(labelMatches)'
  BY <1>1, TryPrimed DEF AnswerInv
<1>6. pc \in {"write", "reply"} => GoodReply(m)'
  BY <1>1, ReplyPrimed DEF AnswerInv
<1>7. sent = None \/ (sent.rcode = "SERVFAIL" /\ sent.shown = None) \/ GoodReply(sent)'
  BY <1>1, SentPrimed DEF AnswerInv
<1>8. HasClosest' = HasClosest
  BY <1>1 DEF HasClosest
<1>. QED
  BY <1>1, <1>2, <1>3, <1>4, <1>5, <1>6, <1>7, <1>8 DEF AnswerInv

(* The search starts with the queried name.                                *)
LEMMA TargetsStep ==
    ASSUME AnswerInv, FindTargets
    PROVE  AnswerInv'
<1>1. /\ zone' = zone /\ query' = query /\ client' = client
      /\ opts' = opts /\ closest' = closest /\ geo' = geo
      /\ live' = live /\ steady' = steady /\ m' = m /\ sent' = sent
      /\ labelMatches' = <<>> /\ ip = client.ip /\ ip' = Zeroed(opts, client.ip)
      /\ m = NoReply /\ sent = None
  BY DEF FindTargets, given, health, AnswerInv
<1>2. /\ HasClosest' = HasClosest
      /\ LocationPanics(opts, HasClosest, geo)' <=> LocationPanics(opts, HasClosest, geo)
  BY <1>1 DEF HasClosest, LocationPanics, NeedsLocation
<1>3. HealthInv'
  BY <1>1 DEF AnswerInv, HealthInv
<1>4. CASE LocationPanics(opts, HasClosest, geo)
  <2>1. pc' = "panic" /\ targets' = targets
    BY <1>4 DEF FindTargets
  <2>2. GivenInv'
    BY <1>1, <2>1, GivenKept DEF AnswerInv, given
  <2>. QED
    BY <1>1, <1>2, <1>3, <1>4, <2>1, <2>2 DEF AnswerInv
<1>5. CASE ~ LocationPanics(opts, HasClosest, geo)
  <2>1. /\ pc' = "find" /\ stack' = <<Call(query.name, 0)>> /\ called' = {query.name}
        /\ targets' = GetTargets(opts, HasClosest, geo, client, client.ip)
    BY <1>1, <1>5 DEF FindTargets
  <2>2. targets' \in Seq(TargetKinds)
    BY <2>1, TargetsType
  <2>3. GivenInv'
    BY <1>1, <1>2, <2>2 DEF AnswerInv, GivenInv
  <2>4. query.name \in QNames
    BY DEF AnswerInv, GivenInv
  <2>5. Call(query.name, 0) \in Frames
    BY <2>4 DEF Call, Frames
  <2>6. /\ stack' \in Seq(Frames) /\ DOMAIN stack' = {1} /\ stack'[1] = Call(query.name, 0)
        /\ stack' # <<>>
    BY <2>1, <2>5, SMTT(60)
  <2>7. /\ stack'[1].s = query.name /\ stack'[1].i = 1 /\ stack'[1].aliased = FALSE
        /\ stack'[1].base = 0
    BY <2>6, SMTT(60) DEF Call
  <2>8. Len(targets') \in Nat /\ DOMAIN targets' = 1..Len(targets')
    BY ONLY <2>2, SMTT(60)
  <2>9. Calls(stack, called)'
    <3>1. query' = query /\ called' = {query.name}
      BY <1>1, <2>1
    <3>2. 1 <= 1 /\ 1 <= Len(targets') + 1
      BY ONLY <2>8, SMTT(60)
    <3>. QED
      BY <2>4, <2>6, <2>7, <3>1, <3>2 DEF Calls
  <2>10. Covered(stack, labelMatches, called)'
    <3>1. \A n \in called' : n = query.name
      BY <2>1
    <3>2. \A j \in DOMAIN targets' : 1 <= j
      BY ONLY <2>8, SMTT(60)
    <3>. QED
      BY <2>6, <2>7, <3>1, <3>2 DEF Covered
  <2>11. Ordered(labelMatches)' /\ DOMAIN labelMatches' = {}
    BY <1>1, SMTT(60) DEF Ordered
  <2>12. OwnListed(stack[1].i, labelMatches)'
    BY <2>7, <2>8, SMTT(60) DEF OwnListed
  <2>13. SearchInv(stack, labelMatches, called)'
    BY <2>9, <2>10, <2>11, <2>12 DEF SearchInv
  <2>14. GetTargets(opts, HasClosest, geo, client, client.ip)'
           = GetTargets(opts, HasClosest, geo, client, client.ip)
    BY <1>1, <1>2
  <2>15. Zeroed(opts, client.ip)' = Zeroed(opts, client.ip)
    BY <1>1
  <2>. QED
    BY <1>1, <1>3, <2>1, <2>3, <2>13, <2>14, <2>15 DEF AnswerInv
<1>. QED
  BY <1>4, <1>5

(* A step of the search that goes on.                                      *)
LEMMA SearchGoesOn ==
    ASSUME AnswerInv, pc = "find", pc' = "find", UNCHANGED <<given, health, ip, targets, m, sent>>,
           SearchInv(stack', labelMatches', called')
    PROVE  AnswerInv'
<1>1. /\ zone' = zone /\ query' = query /\ targets' = targets /\ client' = client
      /\ opts' = opts /\ closest' = closest /\ geo' = geo /\ ip' = ip /\ m' = m /\ sent' = sent
      /\ live' = live /\ steady' = steady
  BY DEF given, health
<1>2. GivenInv'
  BY GivenKept DEF AnswerInv, given
<1>3. HealthInv'
  BY <1>1 DEF AnswerInv, HealthInv
<1>4. SearchInv(stack, labelMatches, called)'
  BY <1>1, SearchPrimed
<1>5. HasClosest' = HasClosest
  BY <1>1 DEF HasClosest
<1>. QED
  BY <1>1, <1>2, <1>3, <1>4, <1>5 DEF AnswerInv

(* Following an alias keeps the invariant.                                 *)
LEMMA AliasStep ==
    ASSUME AnswerInv, FollowAlias
    PROVE  AnswerInv'
<1>1. GivenInv /\ SearchInv(stack, labelMatches, called)
  BY DEF AnswerInv, FollowAlias
<1>2. /\ top = stack[Len(stack)] /\ label = LabelOf(top) /\ top.i <= Len(targets)
      /\ LabelOf(top) \in DOMAIN zone /\ zone[LabelOf(top)].mf # None
  BY DEF FollowAlias, top, label, LabelOf
<1>3. SearchInv(Append([stack EXCEPT ![Len(stack)] = [@ EXCEPT !.aliased = TRUE]],
                       Call(zone[LabelOf(top)].mf, Len(labelMatches))),
                labelMatches, called \cup {zone[LabelOf(top)].mf})
  BY <1>1, <1>2, FollowAliasStep
<1>4. SearchInv(stack', labelMatches', called')
  BY <1>2, <1>3 DEF FollowAlias
<1>. QED
  BY <1>4, SearchGoesOn DEF FollowAlias

(* Looking at the records of a label keeps the invariant.                  *)
LEMMA TypesStep ==
    ASSUME AnswerInv, MatchTypes
    PROVE  AnswerInv'
<1>1. GivenInv /\ SearchInv(stack, labelMatches, called)
  BY DEF AnswerInv, MatchTypes
<1>2. /\ top = stack[Len(stack)] /\ label = LabelOf(top) /\ top.i <= Len(targets)
      /\ LabelOf(top) \in DOMAIN zone /\ zone[LabelOf(top)].mf # None => top.aliased
  BY DEF MatchTypes, top, label, LabelOf
<1>3. label \in QNames \X TargetKinds
  <2>1. top \in Frames /\ Len(stack) \in DOMAIN stack /\ targets \in Seq(TargetKinds)
        /\ Len(targets) \in Nat /\ DOMAIN targets = 1..Len(targets)
    BY <1>1, <1>2, StackFacts DEF SearchInv
  <2>2. top.s \in QNames /\ top.i \in Nat /\ 1 <= top.i
    BY <1>1, <1>2, <2>1 DEF Frames, SearchInv, Calls
  <2>3. top.i \in DOMAIN targets
    BY <1>2, <2>1, <2>2, SMTT(60)
  <2>4. targets[top.i] \in TargetKinds
    BY <2>1, <2>3, SeqElement
  <2>. QED
    BY <2>2, <2>4 DEF label
<1>4. /\ byType(label) \in Seq(Entries)
      /\ \A k \in DOMAIN byType(label) :
            /\ label \in DOMAIN zone
            /\ byType(label)[k].match.label = label
            /\ byType(label)[k].at = stack[1].i
      /\ label \in DOMAIN zone => \A t \in Wanted(label) :
            Has(byType(label), [match |-> Match(label, t), at |-> stack[1].i])
  BY <1>1, <1>3, ByTypeFacts
<1>5. SearchInv([stack EXCEPT ![Len(stack)] = [@ EXCEPT !.i = top.i + 1, !.aliased = FALSE]],
                labelMatches \o byType(label), called)
  <2>. DEFINE add == byType(label)
  <2>1. /\ add \in Seq(Entries)
        /\ \A k \in DOMAIN add :
              LabelOf(top) \in DOMAIN zone /\ add[k].match.label = LabelOf(top) /\ add[k].at = stack[1].i
        /\ LabelOf(top) \in DOMAIN zone => \A t \in Wanted(LabelOf(top)) :
              Has(add, [match |-> Match(LabelOf(top), t), at |-> stack[1].i])
    BY <1>2, <1>4
  <2>. HIDE DEF add
  <2>2. SearchInv([stack EXCEPT ![Len(stack)] = [@ EXCEPT !.i = top.i + 1, !.aliased = FALSE]],
                  labelMatches \o add, called)
    BY <1>1, <1>2, <2>1, MatchTypesStep
  <2>. QED
    BY <2>2 DEF add
<1>6. SearchInv(stack', labelMatches', called')
  BY <1>5 DEF MatchTypes, NextTarget, Added
<1>. QED
  BY <1>6, SearchGoesOn DEF MatchTypes

(* What a call adds for a name that exists.                                *)
LEMMA OrNoErrorFacts ==
    ASSUME GivenInv, SearchInv(stack, labelMatches, called)
    PROVE  LET add == OrNoError(top.s, top.base)
           IN  /\ add \in Seq(Entries)
               /\ \A k \in DOMAIN add : add[k].match.type = None /\ add[k].at = stack[1].i
<1>. DEFINE e == Found(<<top.s, "@">>, None)
<1>1. stack[1].i \in Nat /\ top \in Frames
  BY StackFacts DEF SearchInv, top
<1>2. top.s \in QNames /\ "@" \in TargetKinds
  BY <1>1 DEF Frames, TargetKinds, TargetOptions
<1>3. e \in Entries /\ e.match.type = None /\ e.at = stack[1].i
  BY <1>1, <1>2 DEF Entries, Found, Match
<1>4. OrNoError(top.s, top.base) \in {<<e>>, <<>>}
  BY DEF OrNoError
<1>. HIDE DEF e
<1>5. <<e>> \in Seq(Entries) /\ DOMAIN <<e>> = {1} /\ <<e>>[1] = e
  BY <1>3, SMTT(60)
<1>6. CASE OrNoError(top.s, top.base) = <<e>>
  BY <1>3, <1>5, <1>6
<1>7. CASE OrNoError(top.s, top.base) = <<>>
  BY <1>7, SMTT(60)
<1>. QED
  BY <1>4, <1>6, <1>7

(* No match: no label could have answered the query.                       *)
LEMMA NoMatchIsGood ==
    ASSUME GivenInv, HealthInv, <<query.name, "@">> \notin DOMAIN zone,
           \A l \in Reached : Wanted(l) = {},
           targets = GetTargets(opts, HasClosest, geo, client, client.ip),
           ip = Zeroed(opts, client.ip)
    PROVE  GoodReply(NoMatch)
<1>. DEFINE own == Match(<<query.name, "@">>, "TXT")
<1>1. Dependable(Reached) = {}
  BY DEF Dependable, HealthInv, Wanted
<1>2. own \notin Matches /\ None \notin Matches /\ own # None
  <2>1. <<query.name, "@">> \in QNames \X TargetKinds /\ "TXT" \in RRTypes
    BY DEF GivenInv, TargetKinds, TargetOptions, RRTypes
  <2>2. own \notin Matches
    <3>. SUFFICES ASSUME own \in Matches PROVE FALSE
      OBVIOUS
    <3>1. PICK l \in DOMAIN zone : \E t \in RRTypes \cup {None} : own = Match(l, t)
      BY SMTT(60) DEF Matches
    <3>2. own.label = l /\ own.label = <<query.name, "@">>
      BY <3>1 DEF Match
    <3>. QED
      BY <3>2
  <2>. QED
    BY <2>1, <2>2, MatchesAreSome
<1>. DEFINE again == GetTargets(opts, HasClosest, geo, client, ip)
<1>3. again = targets \/ (client.ip = "v4" /\ targets = <<"ip">> \o again)
  BY TargetsAgain
<1>. HIDE DEF own, again
<1>4. CASE NoMatch.answer = own /\ NoMatch.soa = FALSE /\ NoMatch.rcode = "NOERROR"
           /\ NoMatch.shown \in {again, None}
  BY <1>1, <1>2, <1>3, <1>4 DEF GoodReply
<1>5. CASE NoMatch.answer = None /\ NoMatch.soa = TRUE /\ NoMatch.shown = None
  BY <1>1, <1>2, <1>5 DEF GoodReply
<1>. QED
  BY <1>4, <1>5 DEF NoMatch, NoReply, own, again

(* FindLabels returning keeps the invariant.                               *)
LEMMA ReturnKeeps ==
    ASSUME AnswerInv, Return
    PROVE  AnswerInv'
<1>. DEFINE add == OrNoError(top.s, top.base)
<1>1. /\ GivenInv /\ HealthInv /\ SearchInv(stack, labelMatches, called)
      /\ targets = GetTargets(opts, HasClosest, geo, client, client.ip)
      /\ ip = Zeroed(opts, client.ip) /\ m = NoReply /\ sent = None
  BY DEF AnswerInv, Return
<1>2. /\ top = stack[Len(stack)] /\ top.i > Len(targets)
      /\ labelMatches' = labelMatches \o add
      /\ stack' = SubSeq(stack, 1, Len(stack) - 1)
  BY DEF Return, top
<1>3. add \in Seq(Entries) /\ \A k \in DOMAIN add : add[k].match.type = None /\ add[k].at = stack[1].i
  BY <1>1, OrNoErrorFacts
<1>4. /\ stack \in Seq(Frames) /\ Len(stack) \in Nat /\ Len(stack) >= 1
      /\ labelMatches \in Seq(Entries) /\ Len(targets) \in Nat /\ DOMAIN targets = 1..Len(targets)
  BY <1>1, StackFacts DEF SearchInv, Ordered
<1>5. /\ zone' = zone /\ query' = query /\ targets' = targets /\ client' = client
      /\ opts' = opts /\ closest' = closest /\ geo' = geo /\ ip' = ip /\ called' = called /\ sent' = sent
      /\ live' = live /\ steady' = steady
  BY DEF Return, given, health
<1>6. CASE Len(stack) # 1
  <2>. HIDE DEF add
  <2>1. stack' # <<>>
    <3>. DEFINE n == Len(stack) - 1
    <3>1. n \in Nat /\ n >= 1 /\ n <= Len(stack)
      <4>1. \A k \in Nat : k >= 1 /\ k # 1 => k - 1 \in Nat /\ k - 1 >= 1 /\ k - 1 <= k
        BY SMTT(60)
      <4>. QED
        BY <1>4, <1>6, <4>1
    <3>. HIDE DEF n
    <3>2. Len(SubSeq(stack, 1, n)) = n
      BY <1>4, <3>1, SMTT(60)
    <3>3. SubSeq(stack, 1, n) # <<>>
      BY <3>1, <3>2, SMTT(60)
    <3>. QED
      BY <1>2, <3>3 DEF n
  <2>2. pc = "find" /\ pc' = "find" /\ m' = m
    BY <2>1 DEF Return
  <2>3. SearchInv(stack', labelMatches', called')
    BY <1>1, <1>2, <1>3, <1>5, <1>6, ReturnStep
  <2>. QED
    BY <2>2, <2>3, SearchGoesOn DEF Return
<1>7. CASE Len(stack) = 1
  <2>1. stack' = <<>>
    BY <1>2, <1>4, <1>7, SMTT(60)
  <2>2. /\ Ordered(labelMatches')
        /\ \A l \in Reached : \A t \in Wanted(l) : Lists(labelMatches', Match(l, t))
        /\ OwnListed(Len(targets) + 1, labelMatches')
    <3>. HIDE DEF add
    <3>. QED
      BY <1>1, <1>2, <1>3, <1>7, FinishStep
  <2>3. GivenInv' /\ HealthInv'
    BY <1>1, <1>5, GivenKept DEF Return, HealthInv
  <2>4. HasClosest' = HasClosest
    BY <1>5 DEF HasClosest
  <2>5. CASE labelMatches' = <<>>
    <3>1. m' = NoMatch /\ pc' = "reply"
      BY <2>1, <2>5 DEF Return
    <3>2. labelMatches = <<>> /\ add = <<>>
      <4>. HIDE DEF add
      <4>1. labelMatches \o add = <<>> <=> labelMatches = <<>> /\ add = <<>>
        BY <1>3, <1>4, ConcatEqualIffEmpty, SMTT(60)
      <4>. QED
        BY <1>2, <2>5, <4>1
    <3>3. top.s = query.name /\ top.base = 0
      BY <1>1, <1>2, <1>7 DEF SearchInv, Calls
    <3>4. <<query.name, "@">> \notin DOMAIN zone
      BY <3>2, <3>3 DEF OrNoError
    <3>5. \A l \in Reached : Wanted(l) = {}
      BY <2>2, <2>5, SMTT(60) DEF Lists
    <3>6. GoodReply(m')
      BY <1>1, <3>1, <3>4, <3>5, NoMatchIsGood
    <3>7. GoodReply(m)'
      BY <1>5, <3>6, ReplyPrimed
    <3>. QED
      BY <1>1, <1>5, <2>3, <3>1, <3>7 DEF AnswerInv
  <2>6. CASE labelMatches' # <<>>
    <3>1. m' = m /\ pc' = "try"
      BY <2>1, <2>6 DEF Return
    <3>2. \A x \in Dependable(Reached) : Lists(labelMatches', x)
      <4>. TAKE x \in Dependable(Reached)
      <4>1. x.label \in Reached /\ x.type \in Wanted(x.label) /\ x = Match(x.label, x.type)
        BY <1>1 DEF Dependable, HealthInv, Wanted
      <4>. QED
        BY <2>2, <4>1
    <3>3. ASSUME NEW j \in DOMAIN targets, NEW x \in Dependable({Own(j)})
          PROVE  Has(labelMatches', [match |-> x, at |-> j])
      <4>1. /\ Own(j) \in DOMAIN zone /\ x.type \in Wanted(Own(j))
            /\ x = Match(Own(j), x.type)
        BY <1>1 DEF Dependable, HealthInv, Wanted
      <4>2. j < Len(targets) + 1
        BY <1>4, SMTT(60)
      <4>. QED
        BY <2>2, <4>1, <4>2 DEF OwnListed
    <3>4. TryInv(labelMatches')
      BY <2>2, <3>2, <3>3 DEF TryInv
    <3>5. TryInv(labelMatches)'
      BY <1>5, <3>4, TryPrimed
    <3>. QED
      BY <1>1, <1>5, <2>3, <3>1, <3>5 DEF AnswerInv, NoReply
  <2>. QED
    BY <2>5, <2>6
<1>. QED
  BY <1>6, <1>7

(* A match without a healthy server is dropped: none that keeps one is.    *)
LEMMA TailIsGood ==
    ASSUME HealthInv, TryInv(labelMatches), labelMatches # <<>>, Head(labelMatches).match \notin live
    PROVE  TryInv(Tail(labelMatches))
<1>. DEFINE lm == labelMatches
            rest == Tail(lm)
            n == Len(lm)
<1>1. lm \in Seq(Entries) /\ n \in Nat /\ n >= 1 /\ DOMAIN lm = 1..n /\ Head(lm) = lm[1]
  BY SMTT(60) DEF TryInv, Ordered
<1>2. /\ rest \in Seq(Entries) /\ Len(rest) = n - 1
      /\ \A k \in 1..Len(rest) : rest[k] = lm[k + 1]
  BY <1>1, HeadTailProperties
<1>. HIDE DEF lm, rest, n
<1>3. DOMAIN rest = 1..(n - 1)
  BY <1>1, <1>2, SMTT(60)
<1>4. \A k \in DOMAIN rest : k + 1 \in DOMAIN lm /\ rest[k] = lm[k + 1]
  BY <1>1, <1>2, <1>3, SMTT(60)
<1>5. \A k \in DOMAIN lm : k # 1 => k - 1 \in DOMAIN rest /\ rest[k - 1] = lm[k]
  <2>. TAKE k \in DOMAIN lm
  <2>. HAVE k # 1
  <2>1. k - 1 \in DOMAIN rest /\ (k - 1) + 1 = k
    BY <1>1, <1>3, SMTT(60)
  <2>. QED
    BY <1>4, <2>1
<1>6. Ordered(rest)
  <2>1. ASSUME NEW a \in DOMAIN rest, NEW b \in DOMAIN rest, a <= b
        PROVE  rest[a].at <= rest[b].at
    <3>1. a + 1 <= b + 1
      BY <1>1, <1>3, <2>1, SMTT(60)
    <3>. QED
      BY <1>4, <3>1 DEF TryInv, Ordered, lm
  <2>2. \A k \in DOMAIN rest : rest[k].match.type # None =>
           rest[k].at \in DOMAIN targets /\ LedTo(rest[k].at, rest[k].match.label)
    BY <1>4 DEF TryInv, Ordered, lm
  <2>. QED
    BY <1>2, <2>1, <2>2 DEF Ordered
<1>7. \A S : \A x \in Dependable(S) : x # lm[1].match
  BY <1>1 DEF Dependable, HealthInv, lm
<1>8. \A x \in Dependable(Reached) : Lists(rest, x)
  <2>. TAKE x \in Dependable(Reached)
  <2>1. PICK k \in DOMAIN lm : lm[k].match = x
    BY DEF TryInv, Lists, lm
  <2>2. k # 1
    BY <1>7, <2>1
  <2>. QED
    BY <1>5, <2>1, <2>2 DEF Lists
<1>9. \A j \in DOMAIN targets : \A x \in Dependable({Own(j)}) : Has(rest, [match |-> x, at |-> j])
  <2>. TAKE j \in DOMAIN targets
  <2>. TAKE x \in Dependable({Own(j)})
  <2>1. PICK k \in DOMAIN lm : lm[k] = [match |-> x, at |-> j]
    BY DEF TryInv, Has, lm
  <2>2. k # 1
    BY <1>7, <2>1, SMTT(60)
  <2>. QED
    BY <1>5, <2>1, <2>2 DEF Has
<1>. QED
  BY <1>6, <1>8, <1>9 DEF TryInv, rest, lm

(* The first match with a healthy server makes a good reply: those before  *)
(* it have none, and those after it come from no earlier target.           *)
LEMMA HeadIsGood ==
    ASSUME GivenInv, HealthInv, TryInv(labelMatches), labelMatches # <<>>,
           NEW h, h = Head(labelMatches), h.match \in live,
           NEW near, near => zone[h.match.label].closest
    PROVE  GoodReply([NoReply EXCEPT !.answer = h.match, !.near = near])
<1>. DEFINE lm == labelMatches
            r == [NoReply EXCEPT !.answer = h.match, !.near = near]
<1>. HIDE DEF r
<1>1. lm \in Seq(Entries) /\ 1 \in DOMAIN lm /\ h = lm[1] /\ h \in Entries
  <2>1. lm \in Seq(Entries)
    BY DEF TryInv, Ordered
  <2>. QED
    BY ONLY <2>1, labelMatches # <<>>, h = Head(labelMatches), SMTT(60)
<1>2. /\ h.match = Match(h.match.label, h.match.type)
      /\ h.match.label \in DOMAIN zone /\ h.match.type \in zone[h.match.label].types
  BY DEF HealthInv
<1>3. h.match.label \in QNames \X TargetKinds /\ h.match.type \in RRTypes
  BY <1>2 DEF GivenInv, Labels, LabelType, QNames
<1>4. h.match # None /\ h.match.type # None
  BY <1>2, <1>3, MatchesAreSome, NoneAssumption
<1>5. h.at \in DOMAIN targets /\ LedTo(h.at, h.match.label)
  BY <1>1, <1>4 DEF TryInv, Ordered
<1>6. \A j \in 1..(h.at - 1) : Dependable({Own(j)}) = {}
  <2>. SUFFICES ASSUME NEW j \in 1..(h.at - 1), NEW x \in Dependable({Own(j)}) PROVE FALSE
    OBVIOUS
  <2>1. h.at \in Nat /\ targets \in Seq(TargetKinds) /\ Len(targets) \in Nat
        /\ DOMAIN targets = 1..Len(targets)
    <3>1. h.at \in Nat /\ targets \in Seq(TargetKinds)
      BY <1>1 DEF Entries, GivenInv
    <3>. QED
      BY ONLY <3>1, SMTT(60)
  <2>2. j \in DOMAIN targets /\ j \in Nat /\ j < h.at
    BY ONLY j \in 1..(h.at - 1), <1>5, <2>1, SMTT(60)
  <2>3. PICK k \in DOMAIN lm : lm[k] = [match |-> x, at |-> j]
    BY <2>2 DEF TryInv, Has
  <2>4. 1 <= k
    BY ONLY k \in DOMAIN lm, <1>1, SMTT(60)
  <2>5. lm[1].at <= lm[k].at
    BY <1>1, <2>4 DEF TryInv, Ordered
  <2>6. lm[k].at = j
    BY ONLY <2>3, SMTT(60)
  <2>. QED
    BY ONLY <1>1, <2>1, <2>2, <2>5, <2>6, SMTT(60)
<1>7. /\ r.answer = h.match /\ r.near = near /\ r.rcode = "NOERROR" /\ r.soa = FALSE /\ r.shown = None
  BY DEF NoReply, r
<1>. HIDE DEF lm
<1>8. GoodReply(r)
  BY <1>4, <1>5, <1>6, <1>7 DEF GoodReply
<1>. QED
  BY <1>8 DEF r

(* Trying a match keeps the invariant.                                     *)
LEMMA TryStep ==
    ASSUME AnswerInv, TryMatch
    PROVE  AnswerInv'
<1>. DEFINE h == Head(labelMatches)
<1>1. /\ GivenInv /\ HealthInv /\ TryInv(labelMatches) /\ labelMatches # <<>>
      /\ m = NoReply /\ sent = None
  BY DEF AnswerInv, TryMatch
<1>2. /\ zone' = zone /\ query' = query /\ targets' = targets /\ client' = client
      /\ opts' = opts /\ closest' = closest /\ geo' = geo /\ ip' = ip /\ sent' = sent
      /\ live' = live /\ steady' = steady
      /\ labelMatches' = Tail(labelMatches)
      /\ location' => zone[h.match.label].closest
  BY DEF TryMatch, given, health, NearFor
<1>3. GivenInv' /\ HealthInv'
  BY <1>1, <1>2, GivenKept DEF TryMatch, HealthInv
<1>4. CASE h.match \in live
  <2>1. pc' = "write" /\ m' = [NoReply EXCEPT !.answer = h.match, !.near = location']
    BY <1>1, <1>4 DEF TryMatch
  <2>2. GoodReply(m')
    <3>. HIDE DEF h
    <3>1. h = Head(labelMatches)
      BY DEF h
    <3>. QED
      BY <1>1, <1>2, <1>4, <2>1, <3>1, HeadIsGood
  <2>3. GoodReply(m)'
    BY <1>2, <2>2, ReplyPrimed
  <2>. QED
    BY <1>1, <1>2, <1>3, <2>1, <2>3 DEF AnswerInv
<1>5. CASE h.match \notin live
  <2>1. pc' = "try" /\ m' = m
    BY <1>5 DEF TryMatch
  <2>2. TryInv(labelMatches')
    BY <1>1, <1>2, <1>5, TailIsGood
  <2>3. TryInv(labelMatches)'
    BY <1>2, <2>2, TryPrimed
  <2>. QED
    BY <1>1, <1>2, <1>3, <2>1, <2>3 DEF AnswerInv, NoReply
<1>. QED
  BY <1>4, <1>5

(* Having tried all matches keeps the invariant.                           *)
LEMMA NothingFoundStep ==
    ASSUME AnswerInv, NothingFound
    PROVE  AnswerInv'
<1>1. /\ GivenInv /\ HealthInv /\ TryInv(labelMatches) /\ labelMatches = <<>>
      /\ m = NoReply /\ sent = None
  BY DEF AnswerInv, NothingFound
<1>2. /\ zone' = zone /\ query' = query /\ targets' = targets /\ client' = client
      /\ opts' = opts /\ closest' = closest /\ geo' = geo /\ ip' = ip /\ sent' = sent
      /\ live' = live /\ steady' = steady /\ pc' = "write"
      /\ m' = [NoReply EXCEPT !.soa = TRUE]
  BY <1>1 DEF NothingFound, given, health
<1>3. GivenInv' /\ HealthInv'
  BY <1>1, <1>2, GivenKept DEF NothingFound, HealthInv
<1>4. Dependable(Reached) = {}
  BY <1>1, SMTT(60) DEF TryInv, Lists
<1>5. m'.answer = None /\ m'.soa = TRUE /\ m'.rcode = "NOERROR" /\ m'.shown = None
  BY <1>2 DEF NoReply
<1>6. GoodReply(m')
  BY <1>1, <1>4, <1>5, MatchesAreSome DEF GoodReply
<1>7. GoodReply(m)'
  BY <1>2, <1>6, ReplyPrimed
<1>. QED
  BY <1>1, <1>2, <1>3, <1>7 DEF AnswerInv

(* Sending the reply keeps the invariant.                                  *)
LEMMA WriteStep ==
    ASSUME AnswerInv, WriteReply \/ WriteMsg
    PROVE  AnswerInv'
<1>1. /\ zone' = zone /\ query' = query /\ targets' = targets /\ client' = client
      /\ opts' = opts /\ closest' = closest /\ geo' = geo /\ ip' = ip /\ live' = live /\ steady' = steady
      /\ pc' = "done" /\ m' = m /\ pc \in {"reply", "write"}
      /\ sent' \in {m, None, [NoReply EXCEPT !.rcode = "SERVFAIL"]}
  BY DEF WriteReply, WriteMsg, given, health
<1>2. GivenInv /\ HealthInv /\ GoodReply(m)
  BY <1>1 DEF AnswerInv
<1>3. GivenInv' /\ HealthInv'
  BY <1>1, <1>2, GivenKept DEF given, HealthInv
<1>4. sent' = None \/ (sent'.rcode = "SERVFAIL" /\ sent'.shown = None) \/ GoodReply(sent')
  BY <1>1, <1>2 DEF NoReply
<1>5. GoodReply(sent') => GoodReply(sent)'
  BY <1>1, SentPrimed
<1>. QED
  BY <1>1, <1>3, <1>4, <1>5 DEF AnswerInv

(* Every step keeps the invariant.                                         *)
LEMMA AnswerStep == AnswerInv /\ [Next]_vars => AnswerInv'
<1>. SUFFICES ASSUME AnswerInv, [Next]_vars PROVE AnswerInv'
  OBVIOUS
<1>1. CASE Next
  BY <1>1, TargetsStep, AliasStep, TypesStep, ReturnKeeps, TryStep, NothingFoundStep, WriteStep,
     HealthStep DEF Next
<1>2. CASE UNCHANGED vars
  <2>1. /\ zone' = zone /\ query' = query /\ targets' = targets /\ client' = client
        /\ opts' = opts /\ closest' = closest /\ geo' = geo /\ pc' = pc /\ ip' = ip /\ m' = m /\ sent' = sent
        /\ stack' = stack /\ labelMatches' = labelMatches /\ called' = called
        /\ live' = live /\ steady' = steady
    BY <1>2 DEF vars, given, health, search
  <2>2. GivenInv' /\ HealthInv'
    BY <2>1, GivenKept DEF AnswerInv, given, HealthInv
  <2>3. pc = "find" => SearchInv(stack, labelMatches, called)'
    BY <2>1, SearchPrimed DEF AnswerInv
  <2>4. pc = "try" => TryInv(labelMatches)'
    BY <2>1, TryPrimed DEF AnswerInv
  <2>5. pc \in {"write", "reply"} => GoodReply(m)'
    BY <2>1, ReplyPrimed DEF AnswerInv
  <2>6. sent = None \/ (sent.rcode = "SERVFAIL" /\ sent.shown = None) \/ GoodReply(sent)'
    BY <2>1, SentPrimed DEF AnswerInv
  <2>7. HasClosest' = HasClosest
    BY <2>1 DEF HasClosest
  <2>. QED
    BY <2>1, <2>2, <2>3, <2>4, <2>5, <2>6, <2>7 DEF AnswerInv
<1>. QED
  BY <1>1, <1>2

(* The invariant of Answer holds in every reachable state.                 *)
LEMMA AnswerInvariant == Spec => []AnswerInv
BY AnswerStart, AnswerStep, PTL DEF Spec

-----------------------------------------------------------------------------
(* Whatever the zone, the targets and the aliases, also in a chain, a query*)
(* is answered while some label it may be answered from keeps a healthy    *)
(* server (FindLabels returns the matches of all targets).                 *)
THEOREM SteadyServersGetAnswers == Spec => []SteadyServersAnswer
<1>1. AnswerInv => SteadyServersAnswer
  BY DEF AnswerInv, SteadyServersAnswer, Replied, GoodReply
<1>. QED
  BY <1>1, AnswerInvariant, PTL

(* No label that keeps a healthy server is passed over for one found at a  *)
(* later target, and servers are picked by distance only from a 'closest'  *)
(* label (FindLabels, and the loop of serve() over its matches).           *)
THEOREM SpecificLabelsFirst == Spec => []MostSpecificFirst
<1>1. AnswerInv => MostSpecificFirst
  BY DEF AnswerInv, MostSpecificFirst, Replied, GoodReply, LedTo
<1>. QED
  BY <1>1, AnswerInvariant, PTL

(* GetLocation panics only when there was no city database to open when    *)
(* the zone was loaded.                                                    *)
THEOREM PanicsNeedMissingDB == Spec => []PanicsOnlyWithoutDB
<1>1. AnswerInv => PanicsOnlyWithoutDB
  BY DEF AnswerInv, PanicsOnlyWithoutDB, GivenInv
<1>. QED
  BY <1>1, AnswerInvariant, PTL

(* A _country query shows the targets that were used, found again with an  *)
(* address GetTargets has changed.                                         *)
THEOREM TargetsShown == Spec => []ShowsTargets
<1>1. AnswerInv => ShowsTargets
  BY DEF AnswerInv, ShowsTargets, GoodReply
<1>. QED
  BY <1>1, AnswerInvariant, PTL

-----------------------------------------------------------------------------
\* What the matches say of the names looked up: there are some only if there
\* is something to find, and while there are none, the names with a label of
\* their own are those of calls under way, which will add it.
NameInv(stk, lm, cl) ==
    /\ cl \subseteq Via(query.name)
    /\ lm # <<>> => Findable
    /\ lm = <<>> =>
          /\ \A k \in DOMAIN stk : stk[k].base = 0
          /\ \A n \in cl : <<n, "@">> \in DOMAIN zone => \E k \in DOMAIN stk : stk[k].s = n

SaysWhat(r) == r.rcode = "NXDOMAIN" <=> ~ Findable /\ ~ DebugQuery

NegativeInv ==
    /\ pc = "find" => NameInv(stack, labelMatches, called)
    /\ pc = "try" => Findable
    /\ pc \in {"write", "reply"} => SaysWhat(m)
    /\ sent = None \/ sent.rcode = "SERVFAIL" \/ SaysWhat(sent)

(* A record that matches is something to find.                             *)
LEMMA MatchIsFindable ==
    ASSUME GivenInv, SearchInv(stack, labelMatches, called), NameInv(stack, labelMatches, called),
           top.i <= Len(targets), byType(label) # <<>>
    PROVE  Findable
<1>1. top \in Frames /\ Len(stack) \in DOMAIN stack /\ top = stack[Len(stack)]
      /\ Len(targets) \in Nat /\ DOMAIN targets = 1..Len(targets)
  BY StackFacts DEF SearchInv, top
<1>2. top.s \in called /\ top.i \in Nat /\ 1 <= top.i
  BY <1>1 DEF Frames, SearchInv, Calls
<1>3. top.i \in DOMAIN targets
  BY <1>1, <1>2, SMTT(60)
<1>4. label \in DOMAIN zone /\ Wanted(label) # {}
  <2>1. label \in DOMAIN zone
    BY DEF byType
  <2>2. ofType(label, "CNAME") # <<>> \/ ofType(label, query.type) # <<>>
    <3>1. <<>> \o <<>> = <<>>
      BY SMTT(60)
    <3>. QED
      BY <2>1, <3>1 DEF byType
  <2>. QED
    BY <2>1, <2>2 DEF ofType, Wanted
<1>5. label \in ForTargets /\ label[1] \in Via(query.name)
  <2>1. label \in ForTargets
    BY <1>3, <1>4, LabelForTargets DEF label
  <2>2. label[1] = top.s
    BY DEF label
  <2>. QED
    BY <1>2, <2>1, <2>2 DEF NameInv
<1>. QED
  BY <1>4, <1>5 DEF Findable, Reached, Wanted

(* Following an alias: its name is one the queried name leads to, and the  *)
(* call that looks it up is under way.                                     *)
LEMMA AliasNames ==
    ASSUME AnswerInv, NegativeInv, FollowAlias
    PROVE  NameInv(stack', labelMatches', called')
<1>. DEFINE n == Len(stack)
            a == zone[label].mf
            c == Call(a, Len(labelMatches))
            old == [stack EXCEPT ![n] = [@ EXCEPT !.aliased = TRUE]]
<1>1. /\ GivenInv /\ SearchInv(stack, labelMatches, called) /\ NameInv(stack, labelMatches, called)
      /\ top = stack[n] /\ top.i <= Len(targets) /\ label \in DOMAIN zone /\ a # None
      /\ stack' = Append(old, c) /\ called' = called \cup {a} /\ labelMatches' = labelMatches
  BY DEF AnswerInv, NegativeInv, FollowAlias, top
<1>2. /\ stack \in Seq(Frames) /\ n \in Nat /\ n >= 1 /\ DOMAIN stack = 1..n /\ n \in DOMAIN stack
      /\ top \in Frames /\ Len(targets) \in Nat /\ DOMAIN targets = 1..Len(targets)
  BY <1>1, StackFacts DEF SearchInv
<1>3. top.s \in called /\ top.i \in Nat /\ 1 <= top.i /\ labelMatches \in Seq(Entries)
  BY <1>1, <1>2 DEF Frames, SearchInv, Calls, Ordered
<1>4. top.i \in DOMAIN targets
  BY <1>1, <1>2, <1>3, SMTT(60)
<1>5. a \in Via(query.name)
  <2>1. label \in ForTargets /\ label[1] = top.s
    BY <1>1, <1>4, LabelForTargets DEF label
  <2>2. top.s \in Via(query.name) /\ query.name \in QNames
    BY <1>1, <1>3 DEF NameInv, GivenInv
  <2>. QED
    BY <1>1, <2>1, <2>2, ViaFacts
<1>6. /\ DOMAIN old = 1..n /\ Len(old) = n /\ \A k \in 1..n : old[k].s = stack[k].s
      /\ \A k \in 1..n : old[k].base = stack[k].base
      /\ old \in Seq(Frames)
  <2>1. \A k \in 1..n : stack[k] \in Frames
    BY <1>2, SeqElement
  <2>2. top.aliased \in BOOLEAN
    BY <1>2 DEF Frames
  <2>3. [top EXCEPT !.aliased = TRUE] \in Frames /\ [top EXCEPT !.aliased = TRUE].s = top.s
        /\ [top EXCEPT !.aliased = TRUE].base = top.base
    BY <1>2 DEF Frames
  <2>4. DOMAIN old = 1..n /\ \A k \in 1..n : old[k] = IF k = n THEN [top EXCEPT !.aliased = TRUE]
                                                     ELSE stack[k]
    BY <1>1, <1>2
  <2>5. \A k \in 1..n : old[k] \in Frames
    BY <2>1, <2>3, <2>4
  <2>6. old \in [1..n -> Frames]
    BY <1>1, <1>2, <2>1, <2>3
  <2>. HIDE DEF old, n
  <2>7. old \in Seq(Frames) /\ Len(old) = n
    BY <1>2, <2>6, SMTT(60)
  <2>. QED
    BY <1>1, <2>3, <2>4, <2>7
<1>7. c.s = a /\ c.base = Len(labelMatches) /\ c \in Frames
  <2>1. a \in QNames
    BY <1>5 DEF Via
  <2>2. Len(labelMatches) \in Nat
    BY <1>3, SMTT(60)
  <2>. QED
    BY <2>1, <2>2 DEF Call, Frames
<1>. HIDE DEF n, a, c, old
<1>8. /\ DOMAIN stack' = 1..(n + 1) /\ stack'[n + 1] = c /\ n + 1 \in DOMAIN stack'
      /\ \A k \in 1..n : stack'[k] = old[k] /\ k \in DOMAIN stack'
      /\ \A k \in DOMAIN stack' : k = n + 1 \/ k \in 1..n
  BY <1>1, <1>2, <1>6, <1>7, SMTT(60)
<1>9. ASSUME labelMatches = <<>>
      PROVE  /\ \A k \in DOMAIN stack' : stack'[k].base = 0
             /\ \A x \in called' : <<x, "@">> \in DOMAIN zone => \E k \in DOMAIN stack' : stack'[k].s = x
  <2>1. Len(labelMatches) = 0
    BY <1>9, SMTT(60)
  <2>2. \A k \in 1..n : stack[k].base = 0
    BY <1>1, <1>2, <1>9 DEF NameInv
  <2>3. \A k \in DOMAIN stack' : stack'[k].base = 0
    BY <1>6, <1>7, <1>8, <2>1, <2>2
  <2>4. ASSUME NEW x \in called', <<x, "@">> \in DOMAIN zone
        PROVE  \E k \in DOMAIN stack' : stack'[k].s = x
    <3>1. CASE x = a
      BY <1>7, <1>8, <3>1
    <3>2. CASE x \in called
      <4>1. PICK k \in DOMAIN stack : stack[k].s = x
        BY <1>1, <1>9, <2>4, <3>2 DEF NameInv
      <4>. QED
        BY <1>2, <1>6, <1>8, <4>1
    <3>. QED
      BY <1>1, <2>4, <3>1, <3>2
  <2>. QED
    BY <2>3, <2>4
<1>. QED
  BY <1>1, <1>5, <1>9 DEF NameInv

(* Looking at the records of a label: what matches is something to find.   *)
LEMMA TypesNames ==
    ASSUME AnswerInv, NegativeInv, MatchTypes
    PROVE  NameInv(stack', labelMatches', called')
<1>. DEFINE n == Len(stack)
            add == byType(label)
            f == [stack[n] EXCEPT !.i = NextTarget(add), !.aliased = FALSE]
<1>1. /\ GivenInv /\ SearchInv(stack, labelMatches, called) /\ NameInv(stack, labelMatches, called)
      /\ top.i <= Len(targets) /\ called' = called
      /\ labelMatches' = labelMatches \o add
      /\ stack' = [stack EXCEPT ![n] = f]
  BY DEF AnswerInv, NegativeInv, MatchTypes, Added
<1>2. /\ stack \in Seq(Frames) /\ DOMAIN stack = 1..n /\ n \in DOMAIN stack /\ stack[n] \in Frames
      /\ labelMatches \in Seq(Entries)
  BY <1>1, StackFacts DEF SearchInv, Ordered
<1>3. f.s = stack[n].s /\ f.base = stack[n].base
  BY <1>2 DEF Frames
<1>4. add # <<>> => Findable
  BY <1>1, MatchIsFindable
<1>5. add = <<>> => labelMatches' = labelMatches
  <2>. HIDE DEF add
  <2>. QED
    BY <1>1, <1>2, SMTT(60)
<1>. HIDE DEF n, add, f
<1>6. DOMAIN stack' = DOMAIN stack
      /\ \A k \in DOMAIN stack : stack'[k].s = stack[k].s /\ stack'[k].base = stack[k].base
  BY <1>1, <1>2, <1>3
<1>7. CASE add = <<>>
  BY <1>1, <1>5, <1>6, <1>7 DEF NameInv
<1>8. CASE add # <<>>
  <2>1. labelMatches' # <<>>
    <3>1. add \in Seq(Entries)
      <4>1. label \in QNames \X TargetKinds
        <5>1. label \in DOMAIN zone
          BY <1>8 DEF add, byType
        <5>. QED
          BY <1>1, <5>1 DEF GivenInv, Labels, QNames
      <4>. QED
        BY <1>1, <4>1, ByTypeFacts DEF add
    <3>. QED
      BY <1>1, <1>2, <1>8, <3>1, ConcatEqualIffEmpty, SMTT(60)
  <2>. QED
    BY <1>1, <1>4, <1>8, <2>1 DEF NameInv
<1>. QED
  BY <1>7, <1>8

(* What a call that returns adds: the label of its name, when nothing was  *)
(* found at all and there is one.                                          *)
LEMMA ReturnAdds ==
    ASSUME AnswerInv, NegativeInv, Return
    PROVE  /\ labelMatches' # <<>> => Findable
           /\ labelMatches' = <<>> => labelMatches = <<>> /\ <<top.s, "@">> \notin DOMAIN zone
<1>. DEFINE add == OrNoError(top.s, top.base)
            lm == labelMatches
<1>1. /\ GivenInv /\ SearchInv(stack, lm, called) /\ NameInv(stack, lm, called)
      /\ labelMatches' = lm \o add
  BY DEF AnswerInv, NegativeInv, Return
<1>2. /\ lm \in Seq(Entries) /\ add \in Seq(Entries) /\ Len(stack) \in DOMAIN stack
      /\ top = stack[Len(stack)]
  BY <1>1, OrNoErrorFacts, StackFacts DEF SearchInv, Ordered, top
<1>3. top.s \in Via(query.name)
  BY <1>1, <1>2 DEF SearchInv, Calls, NameInv
<1>4. add # <<>> => Findable
  BY <1>3 DEF OrNoError, Findable
<1>5. lm = <<>> /\ <<top.s, "@">> \in DOMAIN zone => add # <<>>
  <2>. SUFFICES ASSUME lm = <<>>, <<top.s, "@">> \in DOMAIN zone PROVE add # <<>>
    OBVIOUS
  <2>1. top.base = 0
    BY <1>1, <1>2 DEF NameInv
  <2>2. Len(lm) = 0
    BY SMTT(60)
  <2>3. add = <<Found(<<top.s, "@">>, None)>>
    BY <2>1, <2>2 DEF OrNoError
  <2>4. \A x : <<x>> # <<>>
    BY SMTT(60)
  <2>. QED
    BY <2>3, <2>4
<1>. HIDE DEF add
<1>6. labelMatches' = <<>> <=> lm = <<>> /\ add = <<>>
  BY <1>1, <1>2, ConcatEqualIffEmpty, SMTT(60)
<1>. QED
  BY <1>1, <1>4, <1>5, <1>6 DEF NameInv

(* A call that returns to another has no name left to report.              *)
LEMMA ReturnNames ==
    ASSUME AnswerInv, NegativeInv, Return, stack' # <<>>
    PROVE  NameInv(stack', labelMatches', called')
<1>. DEFINE n == Len(stack)
<1>1. /\ GivenInv /\ SearchInv(stack, labelMatches, called) /\ NameInv(stack, labelMatches, called)
      /\ stack' = SubSeq(stack, 1, n - 1) /\ called' = called /\ top = stack[n]
  BY DEF AnswerInv, NegativeInv, Return, top
<1>2. stack \in Seq(Frames) /\ n \in Nat /\ n >= 1 /\ DOMAIN stack = 1..n
  BY <1>1, StackFacts DEF SearchInv
<1>. HIDE DEF n
<1>3. \A k \in DOMAIN stack' : k \in DOMAIN stack /\ stack'[k] = stack[k]
  BY <1>1, <1>2, SMTT(60)
<1>4. \A k \in DOMAIN stack : k = n \/ (k \in DOMAIN stack' /\ stack'[k] = stack[k])
  BY <1>1, <1>2, SMTT(60)
<1>5. ASSUME labelMatches' = <<>>
      PROVE  /\ \A k \in DOMAIN stack' : stack'[k].base = 0
             /\ \A x \in called : <<x, "@">> \in DOMAIN zone => \E k \in DOMAIN stack' : stack'[k].s = x
  <2>1. labelMatches = <<>> /\ <<top.s, "@">> \notin DOMAIN zone
    BY <1>5, ReturnAdds
  <2>2. \A k \in DOMAIN stack' : stack'[k].base = 0
    BY <1>1, <1>3, <2>1 DEF NameInv
  <2>3. ASSUME NEW x \in called, <<x, "@">> \in DOMAIN zone
        PROVE  \E k \in DOMAIN stack' : stack'[k].s = x
    <3>1. PICK k \in DOMAIN stack : stack[k].s = x
      BY <1>1, <2>1, <2>3 DEF NameInv
    <3>2. k # n
      BY <1>1, <2>1, <2>3, <3>1
    <3>. QED
      BY <1>4, <3>1, <3>2
  <2>. QED
    BY <2>2, <2>3
<1>. QED
  BY <1>1, <1>5, ReturnAdds DEF NameInv

(* When the outermost call returns without a match there is nothing to     *)
(* find: every name the queried one leads to was looked up.                *)
LEMMA ReturnFinds ==
    ASSUME AnswerInv, NegativeInv, Return, stack' = <<>>
    PROVE  Findable <=> labelMatches' # <<>>
<1>. DEFINE add == OrNoError(top.s, top.base)
            n == Len(stack)
<1>1. /\ GivenInv /\ SearchInv(stack, labelMatches, called) /\ NameInv(stack, labelMatches, called)
      /\ stack' = SubSeq(stack, 1, n - 1) /\ top = stack[n] /\ top.i > Len(targets)
      /\ labelMatches' = labelMatches \o add
  BY DEF AnswerInv, NegativeInv, Return, top
<1>2. stack \in Seq(Frames) /\ n \in Nat /\ n >= 1 /\ DOMAIN stack = 1..n
  BY <1>1, StackFacts DEF SearchInv
<1>3. n = 1
  <2>. HIDE DEF n, add
  <2>1. n - 1 \in Nat /\ n - 1 <= Len(stack)
    BY ONLY <1>2, SMTT(60) DEF n
  <2>2. Len(SubSeq(stack, 1, n - 1)) = n - 1
    BY ONLY <1>2, <2>1, SMTT(60)
  <2>3. Len(stack') = 0
    BY ONLY stack' = <<>>, SMTT(60)
  <2>. QED
    BY ONLY <1>1, <1>2, <2>2, <2>3, SMTT(60)
<1>4. add \in Seq(Entries) /\ \A k \in DOMAIN add : add[k].match.type = None /\ add[k].at = stack[1].i
  BY <1>1, OrNoErrorFacts
<1>5. ASSUME labelMatches' = <<>> PROVE ~ Findable
  <2>1. labelMatches = <<>> /\ <<top.s, "@">> \notin DOMAIN zone
    BY <1>5, ReturnAdds
  <2>2. /\ \A l \in Reached : \A t \in Wanted(l) : Lists(labelMatches', Match(l, t))
        /\ Via(query.name) \subseteq called
    <3>. HIDE DEF add
    <3>. QED
      BY <1>1, <1>3, <1>4, FinishStep
  <2>3. \A l \in Reached : Wanted(l) = {}
    BY <1>5, <2>2, SMTT(60) DEF Lists
  <2>4. ASSUME NEW x \in Via(query.name), <<x, "@">> \in DOMAIN zone PROVE FALSE
    <3>1. PICK k \in DOMAIN stack : stack[k].s = x
      BY <1>1, <2>1, <2>2, <2>4 DEF NameInv
    <3>2. k = n
      BY <1>2, <1>3, <3>1, SMTT(60)
    <3>. QED
      BY <1>1, <2>1, <2>4, <3>1, <3>2
  <2>. QED
    BY <2>3, <2>4 DEF Findable, Wanted
<1>. QED
  BY <1>5, ReturnAdds

(* Every step keeps what is said of negative replies.                      *)
LEMMA NegativeStep == AnswerInv /\ NegativeInv /\ [Next]_vars => NegativeInv'
<1>. SUFFICES ASSUME AnswerInv, NegativeInv, [Next]_vars PROVE NegativeInv'
  OBVIOUS
<1>1. CASE FindTargets
  <2>1. /\ sent' = sent /\ sent = None /\ labelMatches' = labelMatches /\ labelMatches = <<>>
        /\ query' = query /\ query.name \in QNames
    BY <1>1 DEF FindTargets, AnswerInv, given, GivenInv
  <2>2. CASE pc' = "panic"
    BY <2>1, <2>2 DEF NegativeInv
  <2>3. CASE pc' = "find" /\ stack' = <<Call(query.name, 0)>> /\ called' = {query.name}
    <3>1. query.name \in Via(query.name)'
      BY <2>1 DEF Via
    <3>2. DOMAIN stack' = {1} /\ stack'[1] = Call(query.name, 0)
      BY <2>3, SMTT(60)
    <3>3. stack'[1].s = query.name /\ stack'[1].base = 0
      BY ONLY <3>2, SMTT(60) DEF Call
    <3>4. NameInv(stack, labelMatches, called)'
      BY <2>1, <2>3, <3>1, <3>2, <3>3 DEF NameInv
    <3>. QED
      BY <2>1, <2>3, <3>4 DEF NegativeInv
  <2>. QED
    BY <1>1, <2>2, <2>3 DEF FindTargets
<1>2. CASE ~ FindTargets /\ UNCHANGED <<zone, query, targets>>
  <2>1. /\ zone' = zone /\ query' = query /\ targets' = targets
        /\ (Findable <=> Findable') /\ (DebugQuery <=> DebugQuery')
        /\ \A s : Via(s)' = Via(s)
    BY <1>2, SameZone
  <2>2. NameInv(stack', labelMatches', called') => NameInv(stack, labelMatches, called)'
    BY <2>1 DEF NameInv
  <2>3. (SaysWhat(m') => SaysWhat(m)') /\ (SaysWhat(sent') => SaysWhat(sent)')
    BY <2>1 DEF SaysWhat
  <2>4. SUFFICES /\ pc' = "find" => NameInv(stack', labelMatches', called')
                 /\ pc' = "try" => Findable
                 /\ pc' \in {"write", "reply"} => SaysWhat(m')
                 /\ sent' = None \/ sent'.rcode = "SERVFAIL" \/ SaysWhat(sent')
    BY <2>1, <2>2, <2>3 DEF NegativeInv
  <2>5. CASE UNCHANGED <<pc, stack, labelMatches, called, m, sent>>
    BY <2>5 DEF NegativeInv
  <2>6. CASE FollowAlias
    BY <2>6, AliasNames DEF FollowAlias, NegativeInv
  <2>7. CASE MatchTypes
    BY <2>7, TypesNames DEF MatchTypes, NegativeInv
  <2>8. CASE Return
    <3>1. sent' = None
      BY <2>8 DEF Return, AnswerInv
    <3>2. CASE stack' # <<>>
      BY <2>8, <3>1, <3>2, ReturnNames DEF Return
    <3>3. CASE stack' = <<>> /\ labelMatches' = <<>>
      <4>1. ~ Findable /\ m' = NoMatch /\ pc' = "reply"
        BY <2>8, <3>3, ReturnFinds DEF Return
      <4>2. NoMatch.rcode = "NXDOMAIN" <=> ~ DebugQuery
        BY DEF NoMatch, NoReply
      <4>. QED
        BY <3>1, <4>1, <4>2 DEF SaysWhat
    <3>4. CASE stack' = <<>> /\ labelMatches' # <<>>
      BY <2>8, <3>1, <3>4, ReturnFinds DEF Return
    <3>. QED
      BY <3>2, <3>3, <3>4
  <2>9. CASE TryMatch \/ NothingFound
    <3>1. Findable /\ sent' = None /\ m = NoReply
      BY <2>9 DEF TryMatch, NothingFound, AnswerInv, NegativeInv
    <3>2. m'.rcode = "NOERROR"
      <4>. DEFINE match == Head(labelMatches).match
                  near == location'
      <4>1. /\ NoReply.rcode = "NOERROR"
            /\ [NoReply EXCEPT !.answer = match, !.near = near].rcode = "NOERROR"
            /\ [NoReply EXCEPT !.soa = TRUE].rcode = "NOERROR"
        BY DEF NoReply
      <4>2. \/ m' = NoReply \/ m' = [NoReply EXCEPT !.soa = TRUE]
            \/ m' = [NoReply EXCEPT !.answer = match, !.near = near]
        BY <2>9, <3>1 DEF TryMatch, NothingFound
      <4>. HIDE DEF match, near
      <4>. QED
        BY ONLY <4>1, <4>2, ZenonT(60)
    <3>3. pc' \in {"try", "write"}
      BY <2>9 DEF TryMatch, NothingFound
    <3>. QED
      BY <3>1, <3>2, <3>3 DEF SaysWhat
  <2>10. CASE WriteReply \/ WriteMsg
    <3>1. SaysWhat(m) /\ pc' = "done"
      BY <2>10 DEF WriteReply, WriteMsg, NegativeInv
    <3>2. sent' \in {m, None, [NoReply EXCEPT !.rcode = "SERVFAIL"]}
      BY <2>10 DEF WriteReply, WriteMsg
    <3>. QED
      BY <3>1, <3>2 DEF NoReply
  <2>11. CASE \E l \in DOMAIN zone : \E t \in zone[l].types : SetHealth(Match(l, t))
    <3>1. PICK l \in DOMAIN zone : \E t \in zone[l].types : SetHealth(Match(l, t))
      BY <2>11
    <3>2. PICK t \in zone[l].types : SetHealth(Match(l, t))
      BY <3>1
    <3>. QED
      BY <2>5, <3>2 DEF SetHealth, search
  <2>12. CASE UNCHANGED vars
    BY <2>5, <2>12 DEF vars, search
  <2>. QED
    BY <1>2, <2>6, <2>7, <2>8, <2>9, <2>10, <2>11, <2>12 DEF Next
<1>3. FindTargets \/ UNCHANGED <<zone, query, targets>>
  BY DEF Next, FollowAlias, MatchTypes, Return, TryMatch, NothingFound, WriteReply, WriteMsg,
         SetHealth, vars, given
<1>. QED
  BY <1>1, <1>2, <1>3

(* NXDOMAIN is said of exactly the names of which nothing can be found for *)
(* the client and the type (the last lines of FindLabels, and serve()),    *)
(* and every empty answer has an SOA record.                               *)
THEOREM NegativesAreSound == Spec => []NegativeSound
<1>1. Init => NegativeInv
  BY DEF Init, NegativeInv
<1>2. AnswerInv /\ NegativeInv => NegativeSound
  BY DEF AnswerInv, NegativeInv, NegativeSound, Replied, GoodReply, SaysWhat
<1>. QED
  BY <1>1, <1>2, NegativeStep, AnswerInvariant, PTL DEF Spec

=============================================================================
