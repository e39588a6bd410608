------------------------- MODULE RuleCenter_proofs -------------------------
(***************************************************************************)
(* What the rules of a battle keep to, for any teams and any rules that    *)
(* skills, marks and plugins grant.                                        *)
(***************************************************************************)
EXTENDS RuleCenter, FiniteSetTheorems, TLAPS

\* What a ticket satisfies by itself.
Well(t) ==
  /\ t.category # "IMMUNE" => t.remaining_counts = 0 \/ t.remaining_rounds = 0
  /\ t.category \in {"HIT_INVALID_ATTACK", "HIT_INVALID_ATTRIBUTE"} => t.remaining_rounds = 0
  /\ is_round_type(t) => t.remaining_rounds + Reductions = t.ends
  /\ t.category = "IMMUNE" /\ t.remaining_rounds > 0 =>
       /\ roundCount - t.register_round <= t.remaining_rounds
       /\ currentState = "END" => roundCount - t.register_round < t.remaining_rounds
  /\ t.scope = "ON_STAGE" /\ ~t.benched => t.source_slot \in {NoSlot, on_stage[t.source_owner]}
  /\ is_round_type(t) /\ t.scope = "ON_STAGE" /\ ~t.benched
       => t.source_valid_id = round_effect_valid_id[t.source_owner]

\* The handle of a ticket when h are the immunities' handles and n is the last one.
Handled(t, h, n) ==
  /\ t.category = "IMMUNE" => t.source_id \in h
  /\ t.category = "SEAL" => t.source_id \notin h /\ t.source_id \in 1 .. n
  /\ t.category \notin {"IMMUNE", "SEAL"} => t.source_id = 0

OneHandle(rules) == \A a, b \in rules : a.source_id # 0 /\ a.source_id = b.source_id => a = b

SameRuleKey(a, b) ==
  /\ a.category = b.category
  /\ a.source_owner = b.source_owner /\ a.source_effect_id = b.source_effect_id
  /\ a.subtype = b.subtype

OneKey(rules) == \A a, b \in rules : SameRuleKey(a, b) /\ a.category # "REFLECT" => a = b

Tickets(rules, h, n) ==
  /\ IsFiniteSet(rules) /\ rules \subseteq Ticket
  /\ \A t \in rules : Well(t) /\ Handled(t, h, n)
  /\ OneHandle(rules) /\ OneKey(rules)

\* The inductive invariant.
IInv ==
  /\ TypeOK
  /\ Tickets(all_, handles, next_source_id_)
  /\ handles \subseteq 1 .. next_source_id_
  /\ CountInStep

RoundRules(rules, s) == {t \in rules : t.source_owner = s /\ is_round_type(t)}

-----------------------------------------------------------------------------
\* The image of a finite set under a function is finite.
LEMMA ImageFinite ==
  ASSUME NEW S, IsFiniteSet(S), NEW f, DOMAIN f = S, f = [x \in S |-> f[x]]
  PROVE  IsFiniteSet({f[x] : x \in S})
<1> DEFINE I == {f[x] : x \in S}
<1>1. f \in Surjection(S, I)
  BY DEF Surjection
<1> QED BY <1>1, FS_Surjection

\* recount counts each source's rules that a break can end.
LEMMA Recounts ==
  ASSUME NEW rules, IsFiniteSet(rules)
  PROVE  /\ recount(rules) = [s \in Side |-> Cardinality(RoundRules(rules, s))]
         /\ recount(rules) \in [Side -> Nat]
<1>1. \A s \in Side :
        {t \in rules : is_round_type(t) /\ t.source_owner = s} = RoundRules(rules, s)
  BY DEF RoundRules
<1>2. ASSUME NEW s \in Side PROVE Cardinality(RoundRules(rules, s)) \in Nat
  <2>1. IsFiniteSet(RoundRules(rules, s))
    BY FS_Subset DEF RoundRules
  <2> QED BY <2>1, FS_CardinalityType
<1>3. recount(rules) = [s \in Side |-> Cardinality(RoundRules(rules, s))]
  BY <1>1 DEF recount
<1> QED BY <1>2, <1>3

-----------------------------------------------------------------------------
\* A ticket that lost a count is the same rule.
LEMMA Less ==
  ASSUME NEW t \in Ticket, t.remaining_counts > 1,
         NEW x, x = [t EXCEPT !.remaining_counts = @ - 1]
  PROVE  /\ x \in Ticket
         /\ x.source_owner = t.source_owner /\ x.source_slot = t.source_slot
         /\ x.source_effect_id = t.source_effect_id /\ x.scope = t.scope
         /\ x.source_id = t.source_id /\ x.source_valid_id = t.source_valid_id
         /\ x.category = t.category /\ x.subtype = t.subtype
         /\ x.remaining_counts = t.remaining_counts - 1
         /\ x.remaining_rounds = t.remaining_rounds
         /\ x.register_round = t.register_round /\ x.ends = t.ends
         /\ x.benched = t.benched
BY DEF Ticket

\* Spending counted rules keeps everything, and takes none that a break can end.
LEMMA SpendKeeps ==
  ASSUME NEW rules, NEW h, NEW n, Tickets(rules, h, n),
         NEW taken \in SUBSET rules, \A t \in taken : t.remaining_counts > 0
  PROVE  /\ Tickets(Spend(rules, taken), h, n)
         /\ \A s \in Side : RoundRules(Spend(rules, taken), s) = RoundRules(rules, s)
<1> DEFINE Dec(t) == [t EXCEPT !.remaining_counts = @ - 1]
           D == {o \in taken : o.remaining_counts > 1}
           N == Spend(rules, taken)
           From(x, o) == \/ o \notin taken /\ x = o
                         \/ o \in D /\ x = Dec(o)
<1>1. /\ IsFiniteSet(rules) /\ rules \subseteq Ticket
      /\ \A t \in rules : Well(t) /\ Handled(t, h, n)
      /\ OneHandle(rules) /\ OneKey(rules)
  BY DEF Tickets
<1>2. \A x \in N : \E o \in rules : From(x, o)
  BY DEF Spend
<1>3. ASSUME NEW o \in rules, NEW x, From(x, o)
      PROVE  /\ x \in Ticket
             /\ SameRuleKey(x, o) /\ x.source_id = o.source_id
             /\ x.category = o.category
             /\ Well(x) /\ Handled(x, h, n)
  <2>1. o \in Ticket /\ Well(o) /\ Handled(o, h, n)
    BY <1>1
  <2>2. CASE x = o
    BY <2>1, <2>2 DEF SameRuleKey
  <2>3. CASE o \in D /\ x = Dec(o)
    <3>1. /\ x \in Ticket
          /\ x.source_owner = o.source_owner /\ x.source_slot = o.source_slot
          /\ x.source_effect_id = o.source_effect_id /\ x.scope = o.scope
          /\ x.source_id = o.source_id /\ x.source_valid_id = o.source_valid_id
          /\ x.category = o.category /\ x.subtype = o.subtype
          /\ x.remaining_counts = o.remaining_counts - 1
          /\ x.remaining_rounds = o.remaining_rounds
          /\ x.register_round = o.register_round /\ x.ends = o.ends
          /\ x.benched = o.benched
      BY <2>1, <2>3, Less
    <3>2. o.remaining_counts \in Nat /\ o.remaining_counts > 1
      BY <2>1, <2>3 DEF Ticket
    <3>3. Well(x)
      BY <2>1, <3>1, <3>2 DEF Well, is_round_type
    <3> QED BY <2>1, <3>1, <3>3 DEF SameRuleKey, Handled
  <2> QED BY <1>3, <2>2, <2>3
<1>4. IsFiniteSet(N)
  <2>1. IsFiniteSet(D) /\ IsFiniteSet(rules \ taken)
    BY <1>1, FS_Subset
  <2> DEFINE f == [o \in D |-> Dec(o)]
             I == {f[t] : t \in D}
  <2>2. IsFiniteSet(I)
    <3>1. DOMAIN f = D /\ f = [x \in D |-> f[x]]
      OBVIOUS
    <3> HIDE DEF f, D
    <3> QED BY <2>1, <3>1, ImageFinite
  <2>3. N = (rules \ taken) \cup I
    BY DEF Spend
  <2> HIDE DEF I, N
  <2> QED BY <2>1, <2>2, <2>3, FS_Union
<1>5. N \subseteq Ticket /\ \A x \in N : Well(x) /\ Handled(x, h, n)
  BY <1>2, <1>3
<1>6. OneHandle(N)
  <2> SUFFICES ASSUME NEW a \in N, NEW b \in N, a.source_id # 0, a.source_id = b.source_id
               PROVE  a = b
    BY DEF OneHandle
  <2>1. PICK oa \in rules : From(a, oa)
    BY <1>2
  <2>2. PICK ob \in rules : From(b, ob)
    BY <1>2
  <2>3. oa.source_id = a.source_id /\ ob.source_id = b.source_id
    BY <1>3, <2>1, <2>2
  <2>4. oa = ob
    BY <1>1, <2>3 DEF OneHandle
  <2> QED BY <2>1, <2>2, <2>4
<1>7. OneKey(N)
  <2> SUFFICES ASSUME NEW a \in N, NEW b \in N, SameRuleKey(a, b), a.category # "REFLECT"
               PROVE  a = b
    BY DEF OneKey
  <2>1. PICK oa \in rules : From(a, oa)
    BY <1>2
  <2>2. PICK ob \in rules : From(b, ob)
    BY <1>2
  <2>3. SameRuleKey(a, oa) /\ SameRuleKey(b, ob)
    BY <1>3, <2>1, <2>2
  <2>4. oa = ob
    BY <1>1, <2>3 DEF OneKey, SameRuleKey
  <2> QED BY <2>1, <2>2, <2>4
<1>8. ASSUME NEW s \in Side PROVE RoundRules(N, s) = RoundRules(rules, s)
  <2>1. ASSUME NEW x \in N, is_round_type(x) PROVE x \in rules
    <3>1. PICK o \in rules : From(x, o)
      BY <1>2
    <3>2. CASE o \in D /\ x = Dec(o)
      <4>1. o \in Ticket /\ Well(o) /\ o.remaining_counts > 1
        BY <1>1, <3>2
      <4>2. x.category = o.category /\ x.remaining_rounds = o.remaining_rounds
        BY <3>2, <4>1, Less
      <4> QED BY <2>1, <4>1, <4>2 DEF Well, is_round_type, Ticket
    <3> QED BY <3>1, <3>2
  <2>2. ASSUME NEW x \in rules, is_round_type(x) PROVE x \in N
    <3>1. x \in Ticket /\ Well(x)
      BY <1>1
    <3>2. ~(x.remaining_counts > 0)
      BY <2>2, <3>1 DEF Well, is_round_type, Ticket
    <3> QED BY <3>2 DEF Spend
  <2> QED BY <2>1, <2>2 DEF RoundRules
<1> QED BY <1>4, <1>5, <1>6, <1>7, <1>8 DEF Tickets

\* Fewer tickets are still tickets.
LEMMA SubsetKeeps ==
  ASSUME NEW rules, NEW h, NEW n, Tickets(rules, h, n), NEW some \in SUBSET rules
  PROVE  Tickets(some, h, n)
<1>1. IsFiniteSet(some)
  BY FS_Subset DEF Tickets
<1>2. OneHandle(some) /\ OneKey(some)
  BY DEF Tickets, OneHandle, OneKey
<1> QED BY <1>1, <1>2 DEF Tickets

\* The tickets that a map of tickets to the same rule leaves.
LEMMA MappedKeeps ==
  ASSUME NEW rules, IsFiniteSet(rules), OneHandle(rules), OneKey(rules),
         NEW f, DOMAIN f = rules, f = [x \in rules |-> f[x]],
         \A o \in rules : f[o].source_id = o.source_id /\ SameRuleKey(f[o], o),
         NEW some \in SUBSET {f[o] : o \in rules}
  PROVE  IsFiniteSet(some) /\ OneHandle(some) /\ OneKey(some)
<1>1. IsFiniteSet(some)
  <2>1. IsFiniteSet({f[o] : o \in rules})
    BY ImageFinite
  <2> QED BY <2>1, FS_Subset
<1>2. OneHandle(some)
  BY DEF OneHandle
<1>3. OneKey(some)
  <2> SUFFICES ASSUME NEW a \in some, NEW b \in some, SameRuleKey(a, b), a.category # "REFLECT"
               PROVE  a = b
    BY DEF OneKey
  <2>1. PICK oa \in rules, ob \in rules : a = f[oa] /\ b = f[ob]
    OBVIOUS
  <2>2. SameRuleKey(oa, ob) /\ oa.category # "REFLECT"
    BY <2>1 DEF SameRuleKey
  <2> QED BY <2>1, <2>2 DEF OneKey
<1> QED BY <1>1, <1>2, <1>3

\* A rule whose key and handle are new is added.
LEMMA AddKeeps ==
  ASSUME NEW h, NEW m, Tickets(all_, h, m),
         NEW t \in Ticket, t.category # "REFLECT" => SameKey(t) = {}, Well(t), Handled(t, h, m),
         t.source_id # 0 => \A o \in all_ : o.source_id # t.source_id
  PROVE  Tickets(all_ \cup {t}, h, m)
<1> DEFINE N == all_ \cup {t}
<1>1. /\ IsFiniteSet(all_) /\ all_ \subseteq Ticket
      /\ \A o \in all_ : Well(o) /\ Handled(o, h, m)
      /\ OneHandle(all_) /\ OneKey(all_)
  BY DEF Tickets
<1>2. IsFiniteSet(N)
  BY <1>1, FS_AddElement
<1>3. OneHandle(N)
  BY <1>1 DEF OneHandle
<1>4. OneKey(N)
  BY <1>1 DEF OneKey, SameKey, SameRuleKey
<1>5. N \subseteq Ticket /\ \A x \in N : Well(x) /\ Handled(x, h, m)
  BY <1>1
<1> HIDE DEF N
<1>6. Tickets(N, h, m)
  BY <1>2, <1>3, <1>4, <1>5 DEF Tickets
<1> QED BY <1>6 DEF N

\* A grant refreshes the rule of its key, if there is one.
LEMMA RefreshKeeps ==
  ASSUME NEW h, NEW n \in Nat, Tickets(all_, h, n), NEW m \in Nat, n <= m,
         NEW t \in Ticket, t.category # "REFLECT", Well(t), Handled(t, h, m),
         t.source_id # 0 => \A o \in all_ : o.source_id # t.source_id
  PROVE  Tickets(Refresh(t), h, m)
<1> DEFINE N == Refresh(t)
<1>1. /\ IsFiniteSet(all_) /\ all_ \subseteq Ticket
      /\ \A o \in all_ : Well(o) /\ Handled(o, h, n)
      /\ OneHandle(all_) /\ OneKey(all_)
  BY DEF Tickets
<1>2. \A o \in all_ : Handled(o, h, m)
  BY <1>1 DEF Handled
<1>3. CASE SameKey(t) = {}
  <2>1. N = all_ \cup {t}
    BY <1>3 DEF Refresh
  <2>2. Tickets(all_, h, m)
    BY <1>1, <1>2 DEF Tickets
  <2>3. Tickets(all_ \cup {t}, h, m)
    BY <1>3, <2>2, AddKeeps
  <2> QED BY <2>1, <2>3
<1>4. CASE SameKey(t) # {}
  <2>1. PICK o \in SameKey(t) : TRUE
    BY <1>4
  <2>2. \A p \in SameKey(t) : p = o
    BY <1>1, <2>1 DEF OneKey, SameKey, SameRuleKey
  <2> DEFINE u == [t EXCEPT !.place = o.place]
  <2>3. N = (all_ \ {o}) \cup {u}
    <3>1. SameKey(t) = {o}
      BY <2>1, <2>2
    <3> QED BY <1>4, <3>1 DEF Refresh
  <2>4. o \in all_ /\ o \in Ticket
    BY <1>1, <2>1 DEF SameKey
  <2>5. /\ u \in Ticket
        /\ u.source_owner = t.source_owner /\ u.source_slot = t.source_slot
        /\ u.source_effect_id = t.source_effect_id /\ u.scope = t.scope
        /\ u.source_id = t.source_id /\ u.source_valid_id = t.source_valid_id
        /\ u.category = t.category /\ u.subtype = t.subtype
        /\ u.remaining_counts = t.remaining_counts
        /\ u.remaining_rounds = t.remaining_rounds
        /\ u.register_round = t.register_round /\ u.ends = t.ends
        /\ u.benched = t.benched
    BY <2>4 DEF Ticket
  <2>6. Well(u) /\ Handled(u, h, m)
    BY <2>5 DEF Well, Handled, is_round_type
  <2>7. IsFiniteSet(N)
    <3>1. IsFiniteSet(all_ \ {o})
      BY <1>1, FS_Subset
    <3> HIDE DEF N, u
    <3> QED BY <2>3, <3>1, FS_AddElement
  <2>8. OneHandle(N)
    <3>1. u.source_id # 0 => \A p \in all_ : p.source_id # u.source_id
      BY <2>5
    <3> HIDE DEF u
    <3> QED BY <1>1, <2>3, <3>1 DEF OneHandle
  <2>9. OneKey(N)
    <3>1. \A p \in all_ \ {o} : ~SameRuleKey(p, u) /\ ~SameRuleKey(u, p)
      BY <2>2, <2>5 DEF SameKey, SameRuleKey
    <3> HIDE DEF u
    <3> QED BY <1>1, <2>3, <3>1 DEF OneKey
  <2>10. N \subseteq Ticket /\ \A x \in N : Well(x) /\ Handled(x, h, m)
    <3>1. u \in Ticket
      BY <2>5
    <3> HIDE DEF N, u
    <3> QED BY <1>1, <1>2, <2>3, <2>6, <3>1
  <2> HIDE DEF N, u
  <2>11. Tickets(N, h, m)
    BY <2>7, <2>8, <2>9, <2>10 DEF Tickets
  <2> QED BY <2>11 DEF N
<1> QED BY <1>3, <1>4

-----------------------------------------------------------------------------
\* A step of neither breaks, switches nor rounds keeps the invariant when its
\* tickets are in order and the rules a break can end have been counted.
LEMMA TicketStep ==
  ASSUME IInv, Tickets(all_', handles', next_source_id_'),
         next_source_id_' \in Nat \ {0}, handles' \subseteq 1 .. next_source_id_',
         round_count_' = [s \in Side |-> Cardinality(RoundRules(all_', s))],
         emitted' \in SUBSET Nat, grants' \in Nat,
         UNCHANGED <<round_effect_valid_id, battle>>
  PROVE  IInv'
<1>1. TypeOK'
  <2>1. round_count_' \in [Side -> Nat]
    <3>1. ASSUME NEW s \in Side PROVE Cardinality(RoundRules(all_', s)) \in Nat
      <4>1. IsFiniteSet(all_')
        BY DEF Tickets
      <4>2. IsFiniteSet(RoundRules(all_', s))
        BY <4>1, FS_Subset DEF RoundRules
      <4> QED BY <4>2, FS_CardinalityType
    <3> QED BY <3>1
  <2>2. all_' \subseteq Ticket /\ handles' \subseteq Nat
    BY DEF Tickets
  <2> QED BY <2>1, <2>2 DEF IInv, TypeOK, battle
<1>2. CountInStep'
  <2>1. \A s \in Side : {t \in all_' : t.source_owner = s /\ is_round_type(t)} = RoundRules(all_', s)
    BY DEF RoundRules
  <2> QED BY <2>1 DEF CountInStep, is_round_type
<1>3. Tickets(all_, handles, next_source_id_)'
  BY DEF Tickets, Well, Handled, OneHandle, OneKey, SameRuleKey, is_round_type, Reductions, battle
<1> QED BY <1>1, <1>2, <1>3 DEF IInv

\* A step after which every source has the rules it had that a break can end.
LEMMA QuietStep ==
  ASSUME IInv, Tickets(all_', handles', next_source_id_'),
         \A s \in Side : RoundRules(all_', s) = RoundRules(all_, s),
         next_source_id_' \in Nat \ {0}, handles' \subseteq 1 .. next_source_id_',
         emitted' \in SUBSET Nat, grants' \in Nat,
         UNCHANGED <<round_count_, round_effect_valid_id, battle>>
  PROVE  IInv'
<1>1. \A s \in Side : {t \in all_ : t.source_owner = s /\ is_round_type(t)} = RoundRules(all_, s)
  BY DEF RoundRules
<1>2. round_count_' = [s \in Side |-> Cardinality(RoundRules(all_', s))]
  BY <1>1 DEF IInv, TypeOK, CountInStep
<1> QED BY <1>2, TicketStep

\* Skills, damage and anomalies take counts of rules.
LEMMA AskStep ==
  ASSUME IInv, NEW taken \in SUBSET all_, \A t \in taken : t.remaining_counts > 0,
         all_' = Spend(all_, taken), emitted' \in SUBSET Nat,
         UNCHANGED <<round_count_, next_source_id_, round_effect_valid_id, battle, handles, grants>>
  PROVE  IInv'
<1>1. Tickets(all_, handles, next_source_id_)
  BY DEF IInv
<1>2. /\ Tickets(all_', handles, next_source_id_)
      /\ \A s \in Side : RoundRules(all_', s) = RoundRules(all_, s)
  BY <1>1, SpendKeeps
<1>3. /\ next_source_id_' \in Nat \ {0} /\ handles' \subseteq 1 .. next_source_id_'
      /\ grants' \in Nat
  BY DEF IInv, TypeOK
<1>4. Tickets(all_', handles', next_source_id_')
  BY <1>2
<1> QED BY <1>2, <1>3, <1>4, QuietStep

-----------------------------------------------------------------------------
\* A battle starts with no rules.
LEMMA InitInv == Init => IInv
<1> SUFFICES ASSUME Init PROVE IInv
  OBVIOUS
<1>1. TypeOK
  BY SlotAssumption DEF Init, TypeOK, Side, Timing
<1>2. Tickets(all_, handles, next_source_id_)
  BY FS_EmptySet DEF Init, Tickets, OneHandle, OneKey
<1>3. CountInStep
  <2>1. \A s \in Side : {t \in all_ : t.source_owner = s /\ is_round_type(t)} = {}
    BY DEF Init
  <2>2. Cardinality({}) = 0
    BY FS_EmptySet
  <2> QED BY <2>1, <2>2 DEF Init, CountInStep
<1> QED BY <1>1, <1>2, <1>3 DEF IInv, Init

\* A handle revokes immunities alone, which breaks do not count.
LEMMA RevokeInv == IInv /\ revoke_immunity => IInv'
<1> SUFFICES ASSUME IInv, NEW h \in handles, all_' = {t \in all_ : t.source_id # h}, emitted' = {},
                    UNCHANGED <<round_count_, next_source_id_, round_effect_valid_id, battle,
                                handles, grants>>
             PROVE  IInv'
  BY DEF revoke_immunity
<1>1. Tickets(all_, handles, next_source_id_) /\ handles \subseteq 1 .. next_source_id_
      /\ next_source_id_ \in Nat \ {0} /\ grants \in Nat
  BY DEF IInv, TypeOK
<1>2. Tickets(all_', handles', next_source_id_')
  <2>1. Tickets(all_', handles, next_source_id_)
    BY <1>1, SubsetKeeps
  <2> QED BY <2>1
<1>3. ASSUME NEW s \in Side PROVE RoundRules(all_', s) = RoundRules(all_, s)
  <2>1. ASSUME NEW t \in all_, t.source_id = h PROVE ~is_round_type(t)
    <3>1. Handled(t, handles, next_source_id_) /\ h # 0
      BY <1>1 DEF Tickets
    <3> QED BY <2>1, <3>1 DEF Handled, is_round_type
  <2> QED BY <2>1 DEF RoundRules
<1> QED BY <1>1, <1>2, <1>3, QuietStep

\* An immunity that blocks damage loses a count.
LEMMA BlockInv == ASSUME IInv, NEW target \in Side, block_damage(target) PROVE IInv'
<1> DEFINE taken == First(Counted(Protecting(target, "DAMAGE", 0, BOOLEAN)))
<1>1. taken \in SUBSET all_ /\ \A t \in taken : t.remaining_counts > 0
  BY DEF First, Counted, Protecting
<1>2. all_' = Spend(all_, taken)
  BY DEF block_damage, consume_immune
<1>3. /\ emitted' \in SUBSET Nat
      /\ UNCHANGED <<round_count_, next_source_id_, round_effect_valid_id, battle, handles, grants>>
  BY DEF block_damage, Asked
<1> HIDE DEF taken
<1> QED BY <1>1, <1>2, <1>3, AskStep

\* At most one immunity answers an anomaly.
LEMMA AnomalyInv ==
  ASSUME IInv, NEW target \in Side, NEW status \in Status, apply_anomaly(target, status)
  PROVE  IInv'
<1> DEFINE early == Protecting(target, "ANOMALY", status, {FALSE})
           late == Protecting(target, "ANOMALY", status, {TRUE})
<1>1. /\ emitted' \in SUBSET Nat
      /\ UNCHANGED <<round_count_, next_source_id_, round_effect_valid_id, battle, handles, grants>>
  BY DEF apply_anomaly, Asked
<1>2. ASSUME NEW some \in SUBSET all_, all_' = Spend(all_, First(Counted(some))) PROVE IInv'
  <2> DEFINE taken == First(Counted(some))
  <2>1. taken \in SUBSET all_ /\ \A t \in taken : t.remaining_counts > 0
    BY DEF First, Counted
  <2> HIDE DEF taken
  <2> QED BY <1>1, <1>2, <2>1, AskStep DEF taken
<1>3. CASE all_' = all_
  <2>1. Tickets(all_', handles', next_source_id_') /\ next_source_id_' \in Nat \ {0}
        /\ handles' \subseteq 1 .. next_source_id_' /\ grants' \in Nat
    BY <1>1, <1>3 DEF IInv, TypeOK
  <2> QED BY <1>1, <1>3, <2>1, QuietStep
<1>4. early \in SUBSET all_ /\ late \in SUBSET all_
  BY DEF Protecting
<1>5. \/ all_' = Spend(all_, First(Counted(early))) \/ all_' = all_
      \/ all_' = Spend(all_, First(Counted(late)))
  BY DEF apply_anomaly, consume_immune
<1> HIDE DEF early, late
<1> QED BY <1>2, <1>3, <1>4, <1>5

\* A skill takes counts of seals, then of the rules on its hit.
LEMMA UseSkillInv == IInv /\ UseSkill => IInv'
<1> SUFFICES ASSUME IInv, NEW user \in Side, NEW attribute \in BOOLEAN, NEW ignores \in BOOLEAN,
                    NEW outcome \in {"hits", "misses", "forced"}, NEW failing,
                    query_usage(user, attribute, ignores, outcome, failing)
             PROVE  IInv'
  BY DEF UseSkill
<1> DEFINE met == {t \in all_ : /\ t.category = "SEAL" /\ t.target = user
                                /\ Responds(t, attribute) /\ t \notin failing}
           pierced == {t \in met : t.penetrable /\ ignores}
           taken == Counted((met \ pierced) \cup {t \in pierced : t.consumed_when_pierced})
           notified == Spend(all_, taken)
           kind == IF attribute THEN "HIT_INVALID_ATTRIBUTE" ELSE "HIT_INVALID_ATTACK"
           invalids == {t \in notified : t.category = kind /\ t.target = Other(user)}
           hit == First(Counted(invalids))
<1>1. /\ all_' = notified \/ all_' = Spend(notified, hit)
      /\ emitted' \subseteq {t.source_id : t \in met}
      /\ UNCHANGED <<round_count_, next_source_id_, round_effect_valid_id, battle, handles, grants>>
  BY DEF query_usage
<1>2. taken \in SUBSET all_ /\ \A t \in taken : t.remaining_counts > 0
  BY DEF Counted
<1>3. hit \in SUBSET notified /\ \A t \in hit : t.remaining_counts > 0
  BY DEF First, Counted
<1>4. emitted' \in SUBSET Nat
  <2>1. \A t \in met : t.source_id \in Nat
    BY DEF IInv, TypeOK, Ticket
  <2> HIDE DEF met
  <2> QED BY <1>1, <2>1
<1>5. Tickets(all_, handles, next_source_id_) /\ next_source_id_ \in Nat \ {0}
      /\ handles \subseteq 1 .. next_source_id_ /\ grants \in Nat
  BY DEF IInv, TypeOK
<1> HIDE DEF taken, hit
<1>6. /\ Tickets(notified, handles, next_source_id_)
      /\ \A s \in Side : RoundRules(notified, s) = RoundRules(all_, s)
  BY <1>2, <1>5, SpendKeeps
<1> HIDE DEF notified
<1>7. /\ Tickets(Spend(notified, hit), handles, next_source_id_)
      /\ \A s \in Side : RoundRules(Spend(notified, hit), s) = RoundRules(notified, s)
  BY <1>3, <1>6, SpendKeeps
<1>8. /\ Tickets(all_', handles', next_source_id_')
      /\ \A s \in Side : RoundRules(all_', s) = RoundRules(all_, s)
  BY <1>1, <1>6, <1>7
<1> QED BY <1>1, <1>4, <1>5, <1>8, QuietStep

-----------------------------------------------------------------------------
\* The ticket a grant starts from.
LEMMA NewTicketType ==
  ASSUME TypeOK, NEW owner \in Side, NEW slot \in Slot \cup {NoSlot}, NEW effect \in Effects,
         NEW scope \in Scope, NEW target \in Side, NEW category \in RuleCategory,
         NEW subtype \in Subtype, NEW t, t = NewTicket(owner, slot, effect, scope, target, category, subtype)
  PROVE  /\ t \in Ticket
         /\ t.source_owner = owner /\ t.source_slot = slot /\ t.source_effect_id = effect
         /\ t.scope = scope /\ t.category = category /\ t.subtype = subtype
         /\ t.remaining_counts = 0 /\ t.remaining_rounds = 0 /\ t.source_id = 0
         /\ t.benched = (slot \notin {NoSlot, on_stage[owner]})
BY StatusAssumption DEF TypeOK, NewTicket, Ticket

\* An immunity refreshes by handle, by key, or comes under a handle of its own.
LEMMA GrantImmuneInv == IInv /\ grant_immune => IInv'
<1> SUFFICES ASSUME IInv, grant_immune PROVE IInv'
  OBVIOUS
<1> DEFINE Values(o, g) ==
      [o EXCEPT !.covers = g.covers, !.soul = g.soul, !.scope = g.scope,
                !.source_slot = NoSlot, !.remaining_counts = g.counts,
                !.remaining_rounds = g.rounds, !.register_round = roundCount,
                !.benched = FALSE]
<1>1. PICK owner \in Side, effect \in Effects, g \in Immunities, given \in handles \cup {0} :
        LET t == Values(NewTicket(owner, NoSlot, effect, g.scope, owner, "IMMUNE", g.subtype), g)
            held == {o \in all_ : given # 0 /\ o.category = "IMMUNE" /\ o.source_id = given}
            old == IF held # {} THEN held ELSE SameKey(t)
        IN IF old # {}
           THEN /\ all_' = (all_ \ old) \cup {Values(o, g) : o \in old}
                /\ UNCHANGED <<next_source_id_, handles>>
           ELSE /\ all_' = all_ \cup {[t EXCEPT !.source_id = Handle(given)]}
                /\ next_source_id_' = IF given # 0 THEN next_source_id_ ELSE next_source_id_ + 1
                /\ handles' = handles \cup {Handle(given)}
  BY DEF grant_immune
<1> DEFINE t == Values(NewTicket(owner, NoSlot, effect, g.scope, owner, "IMMUNE", g.subtype), g)
           held == {o \in all_ : given # 0 /\ o.category = "IMMUNE" /\ o.source_id = given}
           old == IF held # {} THEN held ELSE SameKey(t)
<1>2. /\ Tickets(all_, handles, next_source_id_) /\ next_source_id_ \in Nat \ {0}
      /\ handles \subseteq 1 .. next_source_id_ /\ grants \in Nat /\ roundCount \in Nat
  BY DEF IInv, TypeOK
<1>3. /\ grants' \in Nat /\ emitted' \in SUBSET Nat
      /\ UNCHANGED <<round_count_, round_effect_valid_id, battle>>
  <2>1. Granting /\ UNCHANGED round_count_
    BY DEF grant_immune
  <2> QED BY <1>2, <2>1 DEF Granting
<1>4. /\ g.subtype \in ImmunityType /\ g.covers \subseteq Threat /\ g.soul \in BOOLEAN
      /\ g.scope \in Scope /\ g.counts \in Nat /\ g.rounds \in Nat
  BY ImmunitiesAssumption
<1>5. ASSUME NEW o \in Ticket, o.category = "IMMUNE", NEW x, x = Values(o, g)
      PROVE  /\ x \in Ticket /\ x.category = "IMMUNE" /\ x.source_id = o.source_id
             /\ SameRuleKey(x, o) /\ Well(x)
  <2>1. /\ x \in Ticket /\ x.category = "IMMUNE" /\ x.source_id = o.source_id
        /\ x.source_owner = o.source_owner /\ x.source_effect_id = o.source_effect_id
        /\ x.subtype = o.subtype /\ x.scope = g.scope /\ x.source_slot = NoSlot
        /\ x.remaining_rounds = g.rounds /\ x.register_round = roundCount
    BY <1>2, <1>4, <1>5 DEF Ticket
  <2>2. Well(x)
    BY <1>2, <1>4, <2>1 DEF Well, is_round_type
  <2> QED BY <1>5, <2>1, <2>2 DEF SameRuleKey
<1> DEFINE new == NewTicket(owner, NoSlot, effect, g.scope, owner, "IMMUNE", g.subtype)
<1>6. new \in Ticket /\ new.category = "IMMUNE"
  <2>1. g.subtype \in Subtype /\ "IMMUNE" \in RuleCategory /\ TypeOK
    BY <1>4 DEF Subtype, RuleCategory, IInv
  <2> QED BY <1>4, <2>1, NewTicketType
<1>7. t \in Ticket /\ t.category = "IMMUNE" /\ Well(t)
  <2> HIDE DEF new
  <2>1. t = Values(new, g)
    BY DEF new
  <2> HIDE DEF t, Values
  <2> QED BY <1>5, <1>6, <2>1
<1>8. \A o \in old : o \in all_ /\ o \in Ticket /\ o.category = "IMMUNE"
  BY <1>2, <1>7 DEF Tickets, SameKey
<1>9. CASE old # {}
  <2>1. all_' = (all_ \ old) \cup {Values(o, g) : o \in old} /\ UNCHANGED <<next_source_id_, handles>>
    BY <1>1, <1>9
  <2> HIDE DEF old, Values
  <2> DEFINE f == [o \in all_ |-> IF o \in old THEN Values(o, g) ELSE o]
  <2>2. all_' = {f[o] : o \in all_}
    BY <1>8, <2>1
  <2>3. ASSUME NEW o \in all_
        PROVE  /\ f[o] \in Ticket /\ f[o].category = o.category /\ f[o].source_id = o.source_id
               /\ SameRuleKey(f[o], o) /\ Well(f[o])
               /\ f[o] # o => f[o].category = "IMMUNE"
    <3>1. CASE o \in old
      <4>1. o \in Ticket /\ o.category = "IMMUNE" /\ f[o] = Values(o, g)
        BY <1>8, <3>1
      <4> HIDE DEF f
      <4> QED BY <1>5, <4>1
    <3>2. CASE o \notin old
      <4>1. f[o] = o /\ o \in Ticket /\ Well(o)
        BY <1>2, <3>2 DEF Tickets
      <4> HIDE DEF f
      <4> QED BY <4>1 DEF SameRuleKey
    <3> QED BY <3>1, <3>2
  <2>4. DOMAIN f = all_ /\ f = [x \in all_ |-> f[x]]
    OBVIOUS
  <2> HIDE DEF f
  <2>5. IsFiniteSet(all_') /\ OneHandle(all_') /\ OneKey(all_')
    <3>1. IsFiniteSet(all_) /\ OneHandle(all_) /\ OneKey(all_)
      BY <1>2 DEF Tickets
    <3> QED BY <2>2, <2>3, <2>4, <3>1, MappedKeeps
  <2>6. all_' \subseteq Ticket /\ \A x \in all_' : Well(x) /\ Handled(x, handles, next_source_id_)
    BY <1>2, <2>2, <2>3 DEF Tickets, Handled
  <2>7. Tickets(all_', handles', next_source_id_')
    BY <2>1, <2>5, <2>6 DEF Tickets
  <2>8. ASSUME NEW s \in Side PROVE RoundRules(all_', s) = RoundRules(all_, s)
    <3>1. ASSUME NEW o \in all_, is_round_type(o) PROVE f[o] = o
      BY <2>3, <3>1 DEF is_round_type
    <3>2. ASSUME NEW o \in all_, is_round_type(f[o]) PROVE f[o] = o
      BY <2>3, <3>2 DEF is_round_type
    <3> QED BY <2>2, <3>1, <3>2 DEF RoundRules
  <2> QED BY <1>2, <1>3, <2>1, <2>7, <2>8, QuietStep
<1>10. CASE old = {}
  <2> DEFINE x == [t EXCEPT !.source_id = Handle(given)]
             n == IF given # 0 THEN next_source_id_ ELSE next_source_id_ + 1
             h == handles \cup {Handle(given)}
  <2>1. all_' = all_ \cup {x} /\ next_source_id_' = n /\ handles' = h
    BY <1>1, <1>10
  <2>2. held = {} /\ SameKey(t) = {}
    BY <1>10
  <2>3. /\ n \in Nat \ {0} /\ next_source_id_ <= n /\ h \subseteq 1 .. n
        /\ Handle(given) \in h /\ Handle(given) # 0 /\ Handle(given) \in Nat
        /\ given = 0 => Handle(given) = next_source_id_ + 1
        /\ given # 0 => Handle(given) = given /\ h = handles
    BY <1>2 DEF Handle
  <2>4. ASSUME NEW o \in all_ PROVE Handled(o, h, n) /\ o.source_id # Handle(given)
    <3>1. Handled(o, handles, next_source_id_) /\ Well(o) /\ o \in Ticket
      BY <1>2 DEF Tickets
    <3>2. o.source_id = 0 \/ o.source_id \in 1 .. next_source_id_
      BY <1>2, <3>1 DEF Handled, Ticket, RuleCategory
    <3>3. CASE given = 0
      BY <1>2, <2>3, <3>1, <3>2, <3>3 DEF Handled
    <3>4. CASE given # 0
      <4>1. o.category = "IMMUNE" => o.source_id # given
        BY <2>2, <3>4
      <4>2. n = next_source_id_ /\ h = handles /\ Handle(given) = given /\ given \in handles
        BY <2>3, <3>4
      <4> QED BY <2>3, <3>1, <4>1, <4>2 DEF Handled, Ticket, RuleCategory
    <3> QED BY <3>3, <3>4
  <2>5. /\ x \in Ticket /\ x.category = "IMMUNE" /\ x.source_id = Handle(given)
        /\ x.source_owner = t.source_owner /\ x.source_slot = t.source_slot
        /\ x.source_effect_id = t.source_effect_id /\ x.scope = t.scope
        /\ x.subtype = t.subtype
        /\ x.remaining_rounds = t.remaining_rounds /\ x.register_round = t.register_round
        /\ x.benched = t.benched
    <3> HIDE DEF t
    <3> QED BY <1>7, <2>3 DEF Ticket
  <2>6. Well(x) /\ SameKey(x) = {}
    <3> HIDE DEF x, t
    <3> QED BY <1>7, <2>2, <2>5 DEF Well, is_round_type, SameKey
  <2>7. Tickets(all_, h, n)
    BY <1>2, <2>4 DEF Tickets
  <2>8. Handled(x, h, n)
    BY <2>3, <2>5 DEF Handled
  <2> HIDE DEF x, n, h
  <2>9. Tickets(all_ \cup {x}, h, n)
    BY <2>3, <2>4, <2>5, <2>6, <2>7, <2>8, AddKeeps
  <2>10. Tickets(all_', handles', next_source_id_')
    BY <2>1, <2>9
  <2>11. ASSUME NEW s \in Side PROVE RoundRules(all_', s) = RoundRules(all_, s)
    <3>1. ~is_round_type(x)
      BY <2>5 DEF is_round_type
    <3> QED BY <2>1, <3>1 DEF RoundRules
  <2> QED BY <1>3, <2>1, <2>3, <2>10, <2>11, QuietStep
<1> QED BY <1>9, <1>10

\* What a seal and a reflection take from their grant.
Sealed(new, g, v, i, e) ==
  [new EXCEPT !.remaining_counts = g.counts, !.remaining_rounds = g.rounds,
              !.penetrable = g.penetrable, !.conditional = g.conditional,
              !.consumed_when_pierced = g.consumed_when_pierced,
              !.source_valid_id = v, !.source_id = i, !.ends = e]

Reflecting(new, g, v, e) ==
  [new EXCEPT !.remaining_rounds = g.rounds, !.ends = e, !.source_valid_id = v]

\* A seal is what its grant says, under a new handle.
LEMMA SealedTicket ==
  ASSUME NEW new, new \in Ticket, NEW g, g \in Seals, NEW v, v \in Nat, NEW i, i \in Nat,
         NEW e, e \in Nat, NEW t, t = Sealed(new, g, v, i, e)
  PROVE  /\ t \in Ticket
         /\ t.source_owner = new.source_owner /\ t.source_slot = new.source_slot
         /\ t.scope = new.scope /\ t.category = new.category
         /\ t.remaining_counts = g.counts /\ t.remaining_rounds = g.rounds
         /\ t.source_id = i /\ t.source_valid_id = v /\ t.ends = e
         /\ t.benched = new.benched
<1>1. /\ g.counts \in Nat /\ g.rounds \in Nat /\ g.penetrable \in BOOLEAN
      /\ g.conditional \in BOOLEAN /\ g.consumed_when_pierced \in BOOLEAN
  BY SealsAssumption
<1> QED BY <1>1 DEF Ticket, Sealed

\* A reflection has no counts and no handle.
LEMMA ReflectingTicket ==
  ASSUME NEW new, new \in Ticket, NEW g, g \in Reflections, NEW v, v \in Nat, NEW e, e \in Nat,
         NEW t, t = Reflecting(new, g, v, e)
  PROVE  /\ t \in Ticket
         /\ t.source_owner = new.source_owner /\ t.source_slot = new.source_slot
         /\ t.scope = new.scope /\ t.category = new.category
         /\ t.remaining_counts = new.remaining_counts /\ t.remaining_rounds = g.rounds
         /\ t.source_id = new.source_id /\ t.source_valid_id = v /\ t.ends = e
         /\ t.benched = new.benched
<1>1. g.rounds \in Nat
  BY ReflectionsAssumption
<1> QED BY <1>1 DEF Ticket, Reflecting

\* A seal refreshes the one of its key and is counted.
LEMMA GrantSealInv == IInv /\ grant_seal => IInv'
<1> SUFFICES ASSUME IInv, grant_seal PROVE IInv'
  OBVIOUS
<1>1. Granting /\ next_source_id_' = next_source_id_ + 1 /\ round_count_' = recount(all_')
      /\ UNCHANGED handles
  BY DEF grant_seal
<1>2. PICK source \in Side, target \in Side, slot \in SourceSlots, effect \in Effects, g \in Seals :
        all_' = Refresh(
          [NewTicket(source, slot, effect, g.scope, target, "SEAL", g.subtype) EXCEPT
             !.remaining_counts = g.counts, !.remaining_rounds = g.rounds,
             !.penetrable = g.penetrable, !.conditional = g.conditional,
             !.consumed_when_pierced = g.consumed_when_pierced,
             !.source_valid_id = round_effect_valid_id[source],
             !.source_id = next_source_id_ + 1, !.ends = Reductions + g.rounds])
  BY DEF grant_seal
<1>3. /\ Tickets(all_, handles, next_source_id_) /\ next_source_id_ \in Nat \ {0}
      /\ handles \subseteq 1 .. next_source_id_ /\ grants \in Nat /\ roundCount \in Nat
      /\ TypeOK /\ round_effect_valid_id[source] \in Nat
  BY DEF IInv, TypeOK
<1>4. /\ grants' \in Nat /\ emitted' \in SUBSET Nat
      /\ UNCHANGED <<round_effect_valid_id, battle>>
  BY <1>1, <1>3 DEF Granting
<1>5. /\ g.subtype \in SealKind /\ g.scope \in Scope /\ g.counts \in Nat /\ g.rounds \in Nat
      /\ g.penetrable \in BOOLEAN /\ g.consumed_when_pierced \in BOOLEAN
      /\ g.conditional \in BOOLEAN /\ (g.counts = 0 \/ g.rounds = 0)
  BY SealsAssumption
<1>6. slot \in Slot \cup {NoSlot}
  BY SourceSlotsAssumption
<1>7. Reductions \in Nat
  BY <1>3 DEF Reductions
<1> DEFINE new == NewTicket(source, slot, effect, g.scope, target, "SEAL", g.subtype)
           t == Sealed(new, g, round_effect_valid_id[source], next_source_id_ + 1,
                       Reductions + g.rounds)
           n == next_source_id_ + 1
<1>8. /\ new \in Ticket
      /\ new.source_owner = source /\ new.source_slot = slot /\ new.source_effect_id = effect
      /\ new.scope = g.scope /\ new.category = "SEAL" /\ new.subtype = g.subtype
      /\ new.benched = (slot \notin {NoSlot, on_stage[source]})
  <2>1. "SEAL" \in RuleCategory /\ g.subtype \in Subtype
    BY <1>5 DEF RuleCategory, Subtype
  <2> QED BY <1>3, <1>5, <1>6, <2>1, NewTicketType
<1> HIDE DEF new
<1>9. /\ t \in Ticket
      /\ t.source_owner = source /\ t.source_slot = slot /\ t.scope = g.scope
      /\ t.category = "SEAL" /\ t.remaining_counts = g.counts /\ t.remaining_rounds = g.rounds
      /\ t.source_id = n /\ t.source_valid_id = round_effect_valid_id[source]
      /\ t.ends = Reductions + g.rounds
      /\ t.benched = (slot \notin {NoSlot, on_stage[source]})
  <2> DEFINE e == Reductions + g.rounds
             v == round_effect_valid_id[source]
  <2>1. e \in Nat /\ v \in Nat /\ n \in Nat
    BY <1>3, <1>5, <1>7
  <2> HIDE DEF e, v
  <2>2. /\ t \in Ticket
        /\ t.source_owner = new.source_owner /\ t.source_slot = new.source_slot
        /\ t.scope = new.scope /\ t.category = new.category
        /\ t.remaining_counts = g.counts /\ t.remaining_rounds = g.rounds
        /\ t.source_id = n /\ t.source_valid_id = v /\ t.ends = e
        /\ t.benched = new.benched
    <3>1. t = Sealed(new, g, v, n, e)
      BY DEF e, v
    <3>2. new \in Ticket
      BY <1>8
    <3> HIDE DEF t, n
    <3> QED BY <2>1, <3>1, <3>2, SealedTicket
  <2> QED BY <1>8, <2>2 DEF e, v
<1>10. all_' = Refresh(t)
  BY <1>2 DEF new, Sealed
<1> HIDE DEF t
<1>11. Well(t)
  <2>1. t.scope = "ON_STAGE" /\ ~t.benched => t.source_slot \in {NoSlot, on_stage[t.source_owner]}
    BY <1>9
  <2> QED BY <1>5, <1>7, <1>9, <2>1 DEF Well, is_round_type
<1>12. Handled(t, handles, n)
  BY <1>3, <1>9 DEF Handled
<1>13. ASSUME NEW o \in all_ PROVE o.source_id # n
  <2>1. Handled(o, handles, next_source_id_)
    BY <1>3 DEF Tickets
  <2>2. o.source_id = 0 \/ o.source_id \in 1 .. next_source_id_
    BY <1>3, <2>1 DEF Handled
  <2> QED BY <1>3, <2>2
<1>14. Tickets(all_', handles, n)
  <2>1. n \in Nat /\ next_source_id_ <= n /\ next_source_id_ \in Nat
    BY <1>3
  <2> HIDE DEF n
  <2>2. Tickets(Refresh(t), handles, n)
    BY <1>3, <1>9, <1>11, <1>12, <1>13, <2>1, RefreshKeeps
  <2> QED BY <1>10, <2>2
<1>15. round_count_' = [s \in Side |-> Cardinality(RoundRules(all_', s))]
  <2>1. IsFiniteSet(all_')
    BY <1>14 DEF Tickets
  <2> QED BY <1>1, <2>1, Recounts
<1>16. /\ Tickets(all_', handles', next_source_id_') /\ next_source_id_' \in Nat \ {0}
       /\ handles' \subseteq 1 .. next_source_id_'
  BY <1>1, <1>3, <1>14
<1> QED BY <1>4, <1>15, <1>16, TicketStep

\* A rule on hits has counts only, so the count of rounds stands.
LEMMA GrantHitInvalidInv == IInv /\ grant_hit_invalid => IInv'
<1> SUFFICES ASSUME IInv, grant_hit_invalid PROVE IInv'
  OBVIOUS
<1>1. Granting /\ UNCHANGED <<round_count_, next_source_id_, handles>>
  BY DEF grant_hit_invalid
<1>2. PICK target \in Side, effect \in Effects, g \in Invalids :
        all_' = Refresh([NewTicket(target, NoSlot, effect, "ON_STAGE", target, g.category, g.subtype)
                         EXCEPT !.remaining_counts = g.counts])
  BY DEF grant_hit_invalid
<1>3. /\ Tickets(all_, handles, next_source_id_) /\ next_source_id_ \in Nat \ {0}
      /\ handles \subseteq 1 .. next_source_id_ /\ grants \in Nat /\ TypeOK
  BY DEF IInv, TypeOK
<1>4. /\ grants' \in Nat /\ emitted' \in SUBSET Nat
      /\ UNCHANGED <<round_effect_valid_id, battle>>
  BY <1>1, <1>3 DEF Granting
<1>5. /\ g.category \in {"HIT_INVALID_ATTACK", "HIT_INVALID_ATTRIBUTE"}
      /\ g.subtype \in HitInvalidMode /\ g.counts \in Nat
  BY InvalidsAssumption
<1> DEFINE new == NewTicket(target, NoSlot, effect, "ON_STAGE", target, g.category, g.subtype)
           t == [new EXCEPT !.remaining_counts = g.counts]
<1>6. /\ new \in Ticket /\ new.source_slot = NoSlot /\ new.category = g.category
      /\ new.remaining_rounds = 0 /\ new.source_id = 0
  <2>1. g.category \in RuleCategory /\ g.subtype \in Subtype /\ "ON_STAGE" \in Scope
        /\ NoSlot \in Slot \cup {NoSlot}
    BY <1>5 DEF RuleCategory, Subtype, Scope
  <2> QED BY <1>3, <2>1, NewTicketType
<1> HIDE DEF new
<1>7. /\ t \in Ticket /\ t.source_slot = NoSlot /\ t.category = g.category
      /\ t.remaining_rounds = 0 /\ t.source_id = 0
  BY <1>5, <1>6 DEF Ticket
<1>8. all_' = Refresh(t)
  BY <1>2 DEF new
<1> HIDE DEF t
<1>9. Well(t) /\ Handled(t, handles, next_source_id_) /\ t.category # "REFLECT"
  BY <1>5, <1>7 DEF Well, Handled, is_round_type
<1>10. Tickets(all_', handles, next_source_id_)
  <2>1. next_source_id_ \in Nat /\ next_source_id_ <= next_source_id_
    BY <1>3
  <2>2. Tickets(Refresh(t), handles, next_source_id_)
    BY <1>3, <1>7, <1>9, <2>1, RefreshKeeps
  <2> QED BY <1>8, <2>2
<1>11. ASSUME NEW s \in Side PROVE RoundRules(all_', s) = RoundRules(all_, s)
  <2>1. ASSUME NEW o \in SameKey(t) PROVE ~is_round_type(o)
                                          /\ ~is_round_type([t EXCEPT !.place = o.place])
    <3>1. o \in Ticket /\ Well(o) /\ o.category = g.category
      BY <1>3, <1>7 DEF Tickets, SameKey
    <3>2. o.remaining_rounds = 0
      BY <1>5, <3>1 DEF Well
    <3>3. [t EXCEPT !.place = o.place].remaining_rounds = 0
      BY <1>7 DEF Ticket
    <3> QED BY <3>2, <3>3 DEF is_round_type
  <2>2. ~is_round_type(t) /\ SameKey(t) \subseteq all_
    BY <1>7 DEF is_round_type, SameKey
  <2> QED BY <1>8, <2>1, <2>2 DEF RoundRules, Refresh
<1>12. /\ Tickets(all_', handles', next_source_id_') /\ next_source_id_' \in Nat \ {0}
       /\ handles' \subseteq 1 .. next_source_id_' /\ UNCHANGED round_count_
  BY <1>1, <1>3, <1>10
<1> QED BY <1>4, <1>11, <1>12, QuietStep

\* A reflection is added and counted.
LEMMA GrantReflectInv == IInv /\ grant_reflect => IInv'
<1> SUFFICES ASSUME IInv, grant_reflect PROVE IInv'
  OBVIOUS
<1>1. Granting /\ round_count_' = recount(all_') /\ UNCHANGED <<next_source_id_, handles>>
  BY DEF grant_reflect
<1>2. PICK source \in Side, target \in Side, slot \in SourceSlots, effect \in Effects,
           g \in Reflections :
        all_' = all_ \cup
          {[NewTicket(source, slot, effect, g.scope, target, "REFLECT", "none") EXCEPT
              !.remaining_rounds = g.rounds, !.ends = Reductions + g.rounds,
              !.source_valid_id = round_effect_valid_id[source]]}
  BY DEF grant_reflect
<1>3. /\ Tickets(all_, handles, next_source_id_) /\ next_source_id_ \in Nat \ {0}
      /\ handles \subseteq 1 .. next_source_id_ /\ grants \in Nat /\ roundCount \in Nat
      /\ TypeOK /\ round_effect_valid_id[source] \in Nat
  BY DEF IInv, TypeOK
<1>4. /\ grants' \in Nat /\ emitted' \in SUBSET Nat
      /\ UNCHANGED <<round_effect_valid_id, battle>>
  BY <1>1, <1>3 DEF Granting
<1>5. g.scope \in Scope /\ g.rounds \in Nat
  BY ReflectionsAssumption
<1>6. slot \in Slot \cup {NoSlot}
  BY SourceSlotsAssumption
<1>7. Reductions \in Nat
  BY <1>3 DEF Reductions
<1> DEFINE new == NewTicket(source, slot, effect, g.scope, target, "REFLECT", "none")
           t == Reflecting(new, g, round_effect_valid_id[source], Reductions + g.rounds)
<1>8. /\ new \in Ticket /\ new.source_owner = source /\ new.source_slot = slot
      /\ new.scope = g.scope /\ new.category = "REFLECT"
      /\ new.remaining_counts = 0 /\ new.source_id = 0
      /\ new.benched = (slot \notin {NoSlot, on_stage[source]})
  <2>1. "REFLECT" \in RuleCategory /\ "none" \in Subtype
    BY DEF RuleCategory, Subtype
  <2> QED BY <1>3, <1>5, <1>6, <2>1, NewTicketType
<1> HIDE DEF new
<1>9. /\ t \in Ticket
      /\ t.source_owner = source /\ t.source_slot = slot /\ t.scope = g.scope
      /\ t.category = "REFLECT" /\ t.remaining_counts = 0 /\ t.remaining_rounds = g.rounds
      /\ t.source_id = 0 /\ t.source_valid_id = round_effect_valid_id[source]
      /\ t.ends = Reductions + g.rounds
      /\ t.benched = (slot \notin {NoSlot, on_stage[source]})
  <2> DEFINE e == Reductions + g.rounds
             v == round_effect_valid_id[source]
  <2>1. e \in Nat /\ v \in Nat
    BY <1>3, <1>5, <1>7
  <2> HIDE DEF e, v
  <2>2. /\ t \in Ticket
        /\ t.source_owner = new.source_owner /\ t.source_slot = new.source_slot
        /\ t.scope = new.scope /\ t.category = new.category
        /\ t.remaining_counts = new.remaining_counts /\ t.remaining_rounds = g.rounds
        /\ t.source_id = new.source_id /\ t.source_valid_id = v /\ t.ends = e
        /\ t.benched = new.benched
    <3>1. t = Reflecting(new, g, v, e)
      BY DEF e, v
    <3>2. new \in Ticket
      BY <1>8
    <3> HIDE DEF t
    <3> QED BY <2>1, <3>1, <3>2, ReflectingTicket
  <2> QED BY <1>8, <2>2 DEF e, v
<1>10. all_' = all_ \cup {t}
  BY <1>2 DEF new, Reflecting
<1> HIDE DEF t
<1>11. Well(t) /\ Handled(t, handles, next_source_id_)
  <2>1. t.scope = "ON_STAGE" /\ ~t.benched => t.source_slot \in {NoSlot, on_stage[t.source_owner]}
    BY <1>9
  <2> QED BY <1>5, <1>7, <1>9, <2>1 DEF Well, Handled, is_round_type
<1>12. Tickets(all_', handles, next_source_id_)
  <2>1. Tickets(all_ \cup {t}, handles, next_source_id_)
    BY <1>3, <1>9, <1>11, AddKeeps
  <2> QED BY <1>10, <2>1
<1>13. round_count_' = [s \in Side |-> Cardinality(RoundRules(all_', s))]
  <2>1. IsFiniteSet(all_')
    BY <1>12 DEF Tickets
  <2> QED BY <1>1, <2>1, Recounts
<1>14. /\ Tickets(all_', handles', next_source_id_') /\ next_source_id_' \in Nat \ {0}
       /\ handles' \subseteq 1 .. next_source_id_'
  BY <1>1, <1>3, <1>12
<1> QED BY <1>4, <1>13, <1>14, TicketStep

-----------------------------------------------------------------------------
\* A step that counts the rules again.
LEMMA RecountStep ==
  ASSUME TypeOK, Tickets(all_, handles, next_source_id_)', round_count_' = recount(all_'),
         UNCHANGED <<next_source_id_, handles, grants>>, handles \subseteq 1 .. next_source_id_,
         round_effect_valid_id' \in [Side -> Nat \ {0}], on_stage' \in [Side -> Slot],
         roundCount' \in Nat, currentState' \in Timing, emitted' = {}
  PROVE  IInv'
<1>1. IsFiniteSet(all_') /\ all_' \subseteq Ticket
  BY DEF Tickets
<1>2. /\ round_count_' = [s \in Side |-> Cardinality(RoundRules(all_', s))]
      /\ round_count_' \in [Side -> Nat]
  BY <1>1, Recounts
<1>3. TypeOK'
  BY <1>1, <1>2 DEF TypeOK
<1>4. CountInStep'
  <2>1. \A s \in Side : {t \in all_' : t.source_owner = s /\ is_round_type(t)} = RoundRules(all_', s)
    BY DEF RoundRules
  <2> QED BY <1>2, <2>1 DEF CountInStep, is_round_type
<1> QED BY <1>3, <1>4 DEF IInv

\* A break takes its target's rules before their version is gone.
LEMMA BreakInv ==
  ASSUME IInv, NEW target \in Side, NEW effects \in BOOLEAN, break_round_effects(target, effects)
  PROVE  IInv'
<1>1. /\ round_effect_valid_id' = [round_effect_valid_id EXCEPT ![target] = @ + 1]
      /\ all_' = {t \in all_ : ~(t.source_owner = target /\ is_round_type(t))}
      /\ round_count_' = recount(all_') /\ emitted' = {}
      /\ UNCHANGED <<next_source_id_, handles, grants, on_stage, roundCount, currentState>>
  BY DEF break_round_effects, battle
<1>2. /\ TypeOK /\ Tickets(all_, handles, next_source_id_)
      /\ handles \subseteq 1 .. next_source_id_
  BY DEF IInv
<1>3. Tickets(all_', handles, next_source_id_)
  BY <1>1, <1>2, SubsetKeeps
<1>4. ASSUME NEW t \in all_' PROVE Well(t)' /\ Handled(t, handles, next_source_id_)'
  <2>1. Well(t) /\ Handled(t, handles, next_source_id_) /\ t \in Ticket
    BY <1>3 DEF Tickets
  <2>2. is_round_type(t) => t.source_owner # target
    BY <1>1
  <2>3. is_round_type(t) => round_effect_valid_id'[t.source_owner] = round_effect_valid_id[t.source_owner]
    BY <1>1, <1>2, <2>1, <2>2 DEF TypeOK, Ticket
  <2> QED BY <1>1, <2>1, <2>3 DEF Well, Handled, is_round_type, Reductions
<1>5. Tickets(all_, handles, next_source_id_)'
  BY <1>3, <1>4 DEF Tickets, OneHandle, OneKey, SameRuleKey
<1>6. round_effect_valid_id' \in [Side -> Nat \ {0}] /\ on_stage' \in [Side -> Slot]
      /\ roundCount' \in Nat /\ currentState' \in Timing
  BY <1>1, <1>2 DEF TypeOK
<1> QED BY <1>1, <1>2, <1>5, <1>6, RecountStep

\* The rules that would be stale, or away from their pet, leave with it.
LEMMA SwitchInv ==
  ASSUME IInv, NEW owner \in Side, NEW slot \in Slot, perform_switch(owner, slot)
  PROVE  IInv'
<1>1. /\ round_effect_valid_id' = [round_effect_valid_id EXCEPT ![owner] = @ + 1]
      /\ all_' = all_ \ LeavesWith(owner, on_stage[owner])
      /\ on_stage' = [on_stage EXCEPT ![owner] = slot]
      /\ round_count_' = recount(all_') /\ emitted' = {}
      /\ UNCHANGED <<next_source_id_, handles, grants, roundCount, currentState>>
  BY DEF perform_switch
<1>2. /\ TypeOK /\ Tickets(all_, handles, next_source_id_)
      /\ handles \subseteq 1 .. next_source_id_
  BY DEF IInv
<1>3. Tickets(all_', handles, next_source_id_)
  BY <1>1, <1>2, SubsetKeeps
<1>4. ASSUME NEW t \in all_' PROVE Well(t)' /\ Handled(t, handles, next_source_id_)'
  <2>1. Well(t) /\ Handled(t, handles, next_source_id_) /\ t \in Ticket
    BY <1>3 DEF Tickets
  <2>2. t.scope = "ON_STAGE" /\ ~t.benched => t.source_owner # owner
    BY <1>1, <2>1 DEF Well, LeavesWith
  <2>3. t.source_owner # owner =>
          /\ round_effect_valid_id'[t.source_owner] = round_effect_valid_id[t.source_owner]
          /\ on_stage'[t.source_owner] = on_stage[t.source_owner]
    BY <1>1, <1>2, <2>1 DEF TypeOK, Ticket
  <2> QED BY <1>1, <2>1, <2>2, <2>3 DEF Well, Handled, is_round_type, Reductions
<1>5. Tickets(all_, handles, next_source_id_)'
  BY <1>3, <1>4 DEF Tickets, OneHandle, OneKey, SameRuleKey
<1>6. round_effect_valid_id' \in [Side -> Nat \ {0}] /\ on_stage' \in [Side -> Slot]
      /\ roundCount' \in Nat /\ currentState' \in Timing
  BY <1>1, <1>2 DEF TypeOK
<1> QED BY <1>1, <1>2, <1>5, <1>6, RecountStep

Ticked(t) == [t EXCEPT !.remaining_rounds = @ - 1]

\* A rule that lost a round is the same rule.
LEMMA TickedTicket ==
  ASSUME NEW t \in Ticket, t.remaining_rounds > 1, NEW x, x = Ticked(t)
  PROVE  /\ x \in Ticket
         /\ x.source_owner = t.source_owner /\ x.source_slot = t.source_slot
         /\ x.source_effect_id = t.source_effect_id /\ x.scope = t.scope
         /\ x.source_id = t.source_id /\ x.source_valid_id = t.source_valid_id
         /\ x.category = t.category /\ x.subtype = t.subtype
         /\ x.remaining_counts = t.remaining_counts
         /\ x.remaining_rounds = t.remaining_rounds - 1
         /\ x.register_round = t.register_round /\ x.ends = t.ends
         /\ x.benched = t.benched
BY DEF Ticket, Ticked

\* Rules lose a round, and immunities go in their last round.
LEMMA ReduceInv == IInv /\ Reduce => IInv'
<1> SUFFICES ASSUME IInv, Reduce PROVE IInv'
  OBVIOUS
<1>1. /\ currentState = "FIGHT" /\ currentState' = "END"
      /\ all_' = {t \in tick_rounds : ~(t.category = "IMMUNE" /\ WindowOver(t))}
      /\ round_count_' = recount(all_') /\ emitted' = {}
      /\ UNCHANGED <<next_source_id_, round_effect_valid_id, on_stage, roundCount, handles, grants>>
  BY DEF Reduce
<1>2. /\ TypeOK /\ Tickets(all_, handles, next_source_id_)
      /\ handles \subseteq 1 .. next_source_id_
  BY DEF IInv
<1> DEFINE Long == {o \in all_ : is_round_type(o) /\ o.remaining_rounds > 1}
           f == [o \in all_ |-> IF o \in Long THEN Ticked(o) ELSE o]
<1>3. ASSUME NEW x \in all_'
      PROVE  \E o \in all_ : /\ x = f[o]
                             /\ is_round_type(o) => o \in Long
                             /\ o.category = "IMMUNE" => ~WindowOver(o)
  <2>1. \/ x \in all_ /\ ~is_round_type(x) /\ ~(x.category = "IMMUNE" /\ WindowOver(x))
        \/ \E o \in Long : x = Ticked(o)
    BY <1>1 DEF tick_rounds, Ticked
  <2>2. CASE x \in all_ /\ ~is_round_type(x) /\ ~(x.category = "IMMUNE" /\ WindowOver(x))
    <3>1. x = f[x]
      BY <2>2
    <3> HIDE DEF f
    <3> QED BY <2>2, <3>1
  <2>3. CASE \E o \in Long : x = Ticked(o)
    <3>1. PICK o \in Long : x = Ticked(o)
      BY <2>3
    <3>2. x = f[o] /\ o \in all_ /\ o.category # "IMMUNE"
      BY <3>1 DEF is_round_type
    <3> HIDE DEF f
    <3> QED BY <3>1, <3>2
  <2> QED BY <2>1, <2>2, <2>3
<1>4. ASSUME NEW o \in all_
      PROVE  /\ o \in Ticket /\ Well(o) /\ Handled(o, handles, next_source_id_)
             /\ f[o] \in Ticket
             /\ f[o].source_owner = o.source_owner /\ f[o].source_slot = o.source_slot
             /\ f[o].source_effect_id = o.source_effect_id /\ f[o].scope = o.scope
             /\ f[o].source_id = o.source_id /\ f[o].source_valid_id = o.source_valid_id
             /\ f[o].category = o.category /\ f[o].subtype = o.subtype
             /\ f[o].remaining_counts = o.remaining_counts
             /\ f[o].remaining_rounds = IF o \in Long THEN o.remaining_rounds - 1
                                                      ELSE o.remaining_rounds
             /\ f[o].register_round = o.register_round /\ f[o].ends = o.ends
             /\ f[o].benched = o.benched
  <2>1. o \in Ticket /\ Well(o) /\ Handled(o, handles, next_source_id_)
    BY <1>2 DEF Tickets
  <2>2. CASE o \in Long
    <3>1. f[o] = Ticked(o) /\ o.remaining_rounds > 1
      BY <2>2
    <3> HIDE DEF f, Long
    <3> QED BY <2>1, <2>2, <3>1, TickedTicket
  <2>3. CASE o \notin Long
    <3>1. f[o] = o
      BY <2>3
    <3> HIDE DEF f, Long
    <3> QED BY <2>1, <2>3, <3>1
  <2> QED BY <2>2, <2>3
<1>5. IsFiniteSet(all_') /\ OneHandle(all_') /\ OneKey(all_')
  <2>1. IsFiniteSet(all_) /\ OneHandle(all_) /\ OneKey(all_)
    BY <1>2 DEF Tickets
  <2>2. DOMAIN f = all_ /\ f = [x \in all_ |-> f[x]]
    OBVIOUS
  <2> HIDE DEF f
  <2>3. \A o \in all_ : f[o].source_id = o.source_id /\ SameRuleKey(f[o], o)
    BY <1>4 DEF SameRuleKey
  <2>4. all_' \in SUBSET {f[o] : o \in all_}
    BY <1>3
  <2> QED BY <2>1, <2>2, <2>3, <2>4, MappedKeeps
<1>6. ASSUME NEW x \in all_' PROVE x \in Ticket /\ Well(x)' /\ Handled(x, handles, next_source_id_)'
  <2>1. PICK o \in all_ : /\ x = f[o]
                          /\ is_round_type(o) => o \in Long
                          /\ o.category = "IMMUNE" => ~WindowOver(o)
    BY <1>3
  <2>2. o \in Long => is_round_type(o) /\ o.remaining_rounds > 1
    OBVIOUS
  <2> HIDE DEF f, Long
  <2>3. /\ o \in Ticket /\ Well(o) /\ Handled(o, handles, next_source_id_)
        /\ x \in Ticket
        /\ x.source_owner = o.source_owner /\ x.source_slot = o.source_slot
        /\ x.scope = o.scope
        /\ x.source_id = o.source_id /\ x.source_valid_id = o.source_valid_id
        /\ x.category = o.category
        /\ x.remaining_counts = o.remaining_counts
        /\ x.remaining_rounds = IF o \in Long THEN o.remaining_rounds - 1 ELSE o.remaining_rounds
        /\ x.register_round = o.register_round /\ x.ends = o.ends
        /\ x.benched = o.benched
    BY <1>4, <2>1
  <2>4. /\ o.remaining_rounds \in Nat /\ o.ends \in Nat /\ roundCount \in Nat
        /\ o.remaining_counts \in Nat /\ o.register_round \in Nat
        /\ Reductions = roundCount /\ Reductions' = roundCount + 1
    BY <1>1, <1>2, <2>3 DEF TypeOK, Ticket, Reductions
  <2>5. x.category # "IMMUNE" => x.remaining_counts = 0 \/ x.remaining_rounds = 0
    <3>1. CASE o \in Long
      BY <2>2, <2>3, <2>4, <3>1 DEF Well, is_round_type
    <3>2. CASE o \notin Long
      BY <2>3, <3>2 DEF Well
    <3> QED BY <3>1, <3>2
  <2>6. x.category \in {"HIT_INVALID_ATTACK", "HIT_INVALID_ATTRIBUTE"} => x.remaining_rounds = 0
    <3>1. CASE o \in Long
      BY <2>2, <2>3, <2>4, <3>1 DEF Well
    <3>2. CASE o \notin Long
      BY <2>3, <3>2 DEF Well
    <3> QED BY <3>1, <3>2
  <2>7. is_round_type(x)' =>
          /\ o \in Long /\ is_round_type(o)
          /\ x.remaining_rounds + Reductions' = x.ends
    BY <2>1, <2>2, <2>3, <2>4 DEF Well, is_round_type
  <2>8. x.category = "IMMUNE" /\ x.remaining_rounds > 0 =>
          roundCount - x.register_round < x.remaining_rounds
    <3>1. x.category = "IMMUNE" => o \notin Long
      BY <2>2, <2>3 DEF is_round_type
    <3> QED BY <2>1, <2>3, <2>4, <3>1 DEF WindowOver
  <2>9. Well(x)'
    <3>1. x.scope = "ON_STAGE" /\ ~x.benched => x.source_slot \in {NoSlot, on_stage[x.source_owner]}
      BY <2>3 DEF Well
    <3>2. is_round_type(x)' /\ x.scope = "ON_STAGE" /\ ~x.benched
            => x.source_valid_id = round_effect_valid_id[x.source_owner]
      BY <2>3, <2>7 DEF Well
    <3>3. x.category = "IMMUNE" /\ x.remaining_rounds > 0 =>
            roundCount - x.register_round <= x.remaining_rounds
      BY <2>3, <2>4, <2>8 DEF Ticket
    <3> QED BY <1>1, <2>5, <2>6, <2>7, <2>8, <3>1, <3>2, <3>3 DEF Well, NoSlot
  <2> QED BY <1>1, <2>3, <2>9 DEF Handled
<1>7. Tickets(all_, handles, next_source_id_)'
  BY <1>5, <1>6 DEF Tickets, OneHandle, OneKey, SameRuleKey
<1>8. round_effect_valid_id' \in [Side -> Nat \ {0}] /\ on_stage' \in [Side -> Slot]
      /\ roundCount' \in Nat /\ currentState' \in Timing
  BY <1>1, <1>2 DEF TypeOK, Timing
<1> QED BY <1>1, <1>2, <1>7, <1>8, RecountStep

\* The next round starts with the rules that the reduction left.
LEMMA AdvanceInv == IInv /\ advanceRound => IInv'
<1> SUFFICES ASSUME IInv, advanceRound PROVE IInv'
  OBVIOUS
<1>1. /\ currentState = "END" /\ currentState' = "FIGHT" /\ roundCount' = roundCount + 1
      /\ emitted' = {}
      /\ UNCHANGED <<all_, round_count_, next_source_id_, round_effect_valid_id, on_stage,
                     handles, grants>>
  BY DEF advanceRound
<1>2. TypeOK' /\ CountInStep'
  BY <1>1 DEF IInv, TypeOK, Timing, CountInStep, is_round_type
<1>3. ASSUME NEW t \in all_ PROVE Well(t)' /\ Handled(t, handles, next_source_id_)'
  <2>1. Well(t) /\ Handled(t, handles, next_source_id_) /\ t \in Ticket /\ roundCount \in Nat
    BY DEF IInv, TypeOK, Tickets
  <2>2. Reductions' = Reductions
    BY <1>1 DEF Reductions
  <2>3. t.category = "IMMUNE" /\ t.remaining_rounds > 0 =>
          roundCount' - t.register_round <= t.remaining_rounds
    BY <1>1, <2>1 DEF Well, Ticket
  <2> QED BY <1>1, <2>1, <2>2, <2>3 DEF Well, Handled, is_round_type
<1>4. Tickets(all_, handles, next_source_id_)'
  BY <1>1, <1>3 DEF IInv, Tickets, OneHandle, OneKey, SameRuleKey
<1> QED BY <1>1, <1>2, <1>4 DEF IInv

\* A step that changes nothing.
LEMMA StutterInv == IInv /\ UNCHANGED vars => IInv'
BY DEF IInv, TypeOK, Tickets, Well, Handled, OneHandle, OneKey, SameRuleKey, CountInStep,
       is_round_type, Reductions, vars, battle

\* Every step keeps the rules in order.
LEMMA NextInv == IInv /\ [Next]_vars => IInv'
<1> SUFFICES ASSUME IInv, Next PROVE IInv'
  BY StutterInv
<1>1. CASE grant_immune
  BY <1>1, GrantImmuneInv
<1>2. CASE grant_seal
  BY <1>2, GrantSealInv
<1>3. CASE grant_hit_invalid
  BY <1>3, GrantHitInvalidInv
<1>4. CASE grant_reflect
  BY <1>4, GrantReflectInv
<1>5. CASE revoke_immunity
  BY <1>5, RevokeInv
<1>6. CASE \E target \in Side : \/ block_damage(target)
                                \/ \E status \in Status : apply_anomaly(target, status)
  BY <1>6, BlockInv, AnomalyInv
<1>7. CASE UseSkill
  BY <1>7, UseSkillInv
<1>8. CASE \E target \in Side, effects \in BOOLEAN : break_round_effects(target, effects)
  BY <1>8, BreakInv
<1>9. CASE \E owner \in Side, slot \in Slot : perform_switch(owner, slot)
  BY <1>9, SwitchInv
<1>10. CASE Reduce
  BY <1>10, ReduceInv
<1>11. CASE advanceRound
  BY <1>11, AdvanceInv
<1> QED BY <1>1, <1>2, <1>3, <1>4, <1>5, <1>6, <1>7, <1>8, <1>9, <1>10, <1>11 DEF Next

-----------------------------------------------------------------------------
\* The rules are in order in every state of a battle.
THEOREM Invariance == Spec => []IInv
<1> QED BY InitInv, NextInv, PTL DEF Spec

\* Type correctness.
THEOREM TypeCorrect == Spec => []TypeOK
<1>1. IInv => TypeOK
  BY DEF IInv
<1> QED BY <1>1, Invariance, PTL

\* A break is decided by a count that agrees with the rules, through every order
\* of grants, questions, revocations, breaks, switches and rounds.
THEOREM BreaksCountRules == Spec => []CountInStep
<1>1. IInv => CountInStep
  BY DEF IInv
<1> QED BY <1>1, Invariance, PTL

\* A handle names at most one rule, whichever handles grants bring back.
THEOREM HandlesAreUnique == Spec => []HandlesUnique
<1>1. IInv => HandlesUnique
  BY DEF IInv, Tickets, OneHandle, HandlesUnique
<1> QED BY <1>1, Invariance, PTL

\* A source has one rule of each kind that is refreshed.
THEOREM KeysAreUnique == Spec => []OneTicketPerKey
<1>1. IInv => OneTicketPerKey
  BY DEF IInv, Tickets, OneKey, SameRuleKey, OneTicketPerKey
<1> QED BY <1>1, Invariance, PTL

\* A rule is told from every other one, by its handle and by what refreshes it.
THEOREM TicketsAreUnique == Spec => []TicketsUnique
<1> QED BY HandlesAreUnique, KeysAreUnique, PTL DEF TicketsUnique

\* Rules of N rounds end with the N-th reduction of rounds.
THEOREM RulesEnd == Spec => []RulesEndInTime
<1>1. IInv => RulesEndInTime
  BY DEF IInv, Tickets, Well, RulesEndInTime
<1> QED BY <1>1, Invariance, PTL

\* No rule granted on stage outlives the stay of its pet.
THEOREM RulesLeave == Spec => []RulesLeaveWithPet
<1>1. IInv => RulesLeaveWithPet
  BY DEF IInv, Tickets, Well, RulesLeaveWithPet
<1> QED BY <1>1, Invariance, PTL

\* No rule that a break can end is of a version gone by.
THEOREM RulesAreCurrent == Spec => []NoStaleRule
<1>1. IInv => NoStaleRule
  BY DEF IInv, Tickets, Well, NoStaleRule
<1> QED BY <1>1, Invariance, PTL

\* Rules granted on stage follow their pet and their version.
THEOREM RulesFollow == Spec => []RulesFollowPet
<1> QED BY RulesLeave, RulesAreCurrent, PTL DEF RulesFollowPet
=============================================================================
