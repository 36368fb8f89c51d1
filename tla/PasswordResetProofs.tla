------------------------- MODULE PasswordResetProofs -------------------------
(* A link changes the password at most once per client and lost use, and few *)
(* links are stored at a time: for every number of clients, tokens, faults.  *)
EXTENDS PasswordReset, FiniteSetTheorems, TLAPS

Requests == {Idle} \cup [pc : {"invalidate", "create"}]
                   \cup [pc : {"mail", "update", "mark"}, with : Tokens]

\* The requests that have found t usable and not changed the password, and
\* those that have changed it and not marked t.
AtUpdate(t) == {c \in Clients : At(c, "update") /\ req[c].with = t}
AtMark(t) == {c \in Clients : At(c, "mark") /\ req[c].with = t}

\* No request has marked t.
Unmarked(t) == token[t] = Unissued \/ (Exists(t) /\ ~token[t].used)

\* Resets work only with tokens that were stored.
Issued ==
    \A c \in Clients :
        At(c, "update") \/ At(c, "mark") => token[req[c].with] # Unissued

\* Each use of an unmarked token is about to mark it or was lost; and those
\* that are about to use a token are within its allowance.
Accounted ==
    \A t \in Tokens :
        /\ lost[t] <= faults
        /\ Unmarked(t) => uses[t] <= lost[t] + Cardinality(AtMark(t))
        /\ uses[t] + Cardinality(AtUpdate(t)) <= Cardinality(Clients) + lost[t]

IInv == TypeOK /\ FewLinks /\ Issued /\ Accounted

Numbers == Cardinality(Clients) \in Nat /\ MaxFaults \in Nat /\ Many \in Nat

LEMMA Sizes == Numbers
BY FiniteAssumption, FaultAssumption, FS_CardinalityType DEF Numbers, Many

LEMMA SubsetSize ==
    ASSUME NEW S \in SUBSET Clients
    PROVE  /\ IsFiniteSet(S)
           /\ Cardinality(S) \in Nat
           /\ Cardinality(S) <= Cardinality(Clients)
BY FiniteAssumption, FS_Subset, FS_CardinalityType

\* A client leaves or enters a group of clients.
LEMMA OneLess ==
    ASSUME NEW S \in SUBSET Clients, NEW c \in S
    PROVE  Cardinality(S) = Cardinality(S \ {c}) + 1
BY SubsetSize, FS_RemoveElement, FS_CardinalityType

LEMMA OneMore ==
    ASSUME NEW S \in SUBSET Clients, NEW c, c \notin S
    PROVE  Cardinality(S \cup {c}) = Cardinality(S) + 1
BY SubsetSize, FS_AddElement, FS_CardinalityType

\* Two groups with no client in common fit into the clients.
LEMMA TwoGroups ==
    ASSUME NEW S \in SUBSET Clients, NEW T \in SUBSET Clients, S \cap T = {}
    PROVE  Cardinality(S) + Cardinality(T) <= Cardinality(Clients)
<1>1. IsFiniteSet(S) /\ IsFiniteSet(T)
  BY SubsetSize
<1>2. Cardinality(S \cup T) = Cardinality(S) + Cardinality(T) - Cardinality({})
  BY <1>1, FS_Union
<1>3. Cardinality(S) \in Nat /\ Cardinality(T) \in Nat /\ Cardinality({}) = 0
  BY SubsetSize, FS_EmptySet
<1> QED
  BY <1>2, <1>3, SubsetSize

\* What a request may be, by its pc.
LEMMA RequestCases ==
    ASSUME TypeOK, NEW c \in Clients
    PROVE  /\ req[c] \in Requests
           /\ req[c].pc \in {"idle", "invalidate", "create", "mail", "update", "mark"}
           /\ req[c] = Idle <=> At(c, "idle")
           /\ req[c].pc \in {"mail", "update", "mark"}
                => /\ req[c] \in [pc : {"mail", "update", "mark"}, with : Tokens]
                   /\ req[c].with \in Tokens
BY DEF TypeOK, Requests, Idle, At

-----------------------------------------------------------------------------
LEMMA InitIInv == Init => IInv
<1> SUFFICES ASSUME Init PROVE IInv
  OBVIOUS
<1> USE Sizes DEF Numbers
<1>1. TypeOK
  <2>2. token \in [Tokens -> Rows \cup {Unissued, Deleted}]
    BY DEF Init
  <2>3. uses \in [Tokens -> 0..Many]
    BY DEF Init
  <2>4. lost \in [Tokens -> 0..MaxFaults]
    BY DEF Init
  <2>5. req \in [Clients -> {Idle} \cup [pc : {"invalidate", "create"}]
                              \cup [pc : {"mail", "update", "mark"}, with : Tokens]]
    BY DEF Init
  <2>6. mailed \subseteq Tokens /\ faults \in 0..MaxFaults
    BY DEF Init
  <2>7. cut \in BOOLEAN
    BY DEF Init
  <2> QED
    BY <2>2, <2>3, <2>4, <2>5, <2>6, <2>7 DEF TypeOK
<1>2. Creating = {} /\ {t \in Tokens : Exists(t)} = {}
  BY DEF Init, Creating, At, Idle, Exists
<1>3. FewLinks
  BY <1>2, FS_EmptySet DEF FewLinks
<1>4. Issued
  BY DEF Init, Issued, At, Idle
<1>5. \A t \in Tokens : AtUpdate(t) = {} /\ AtMark(t) = {}
  BY DEF Init, AtUpdate, AtMark, At, Idle
<1>6. Accounted
  BY <1>5, FS_EmptySet DEF Init, Accounted
<1> QED
  BY <1>1, <1>3, <1>4, <1>6 DEF IInv

\* The types are kept by every step; that lost counts faults is needed for it.
LEMMA TypeStep ==
    ASSUME IInv, [Next]_vars
    PROVE  TypeOK'
<1> USE Sizes DEF Numbers
<1>0. TypeOK /\ \A t \in Tokens : lost[t] <= faults
  BY DEF IInv, Accounted
<1>1. CASE UNCHANGED vars
  BY <1>0, <1>1 DEF vars, history, TypeOK
<1>2. ASSUME NEW c \in Clients, BeginRequest(c)
      PROVE  TypeOK'
  BY <1>0, <1>2 DEF BeginRequest, history, TypeOK
<1>3. ASSUME NEW c \in Clients, DeleteForUser(c)
      PROVE  TypeOK'
  BY <1>0, <1>3 DEF DeleteForUser, history, TypeOK
<1>4. ASSUME NEW c \in Clients, SendEmail(c)
      PROVE  TypeOK'
  <2>1. req[c].with \in Tokens
    BY <1>0, <1>4, RequestCases DEF SendEmail, At
  <2> QED
    BY <1>0, <1>4, <2>1 DEF SendEmail, history, TypeOK
<1>5. ASSUME NEW c \in Clients, UpdatePassword(c)
      PROVE  TypeOK'
  <2>1. /\ req[c] \in [pc : {"mail", "update", "mark"}, with : Tokens]
        /\ req[c].with \in Tokens
    BY <1>0, <1>5, RequestCases DEF UpdatePassword, At
  <2>2. [req[c] EXCEPT !.pc = "mark"]
          \in [pc : {"mail", "update", "mark"}, with : Tokens]
    BY <2>1
  <2>3. req' = [req EXCEPT ![c] = [req[c] EXCEPT !.pc = "mark"]]
    BY <1>5 DEF UpdatePassword
  <2>4. uses' \in [Tokens -> 0..Many]
    BY <1>0, <1>5, <2>1 DEF UpdatePassword, TypeOK
  <2> QED
    BY <1>0, <1>5, <2>2, <2>3, <2>4 DEF UpdatePassword, history, TypeOK
<1>6. ASSUME NEW c \in Clients, MarkUsed(c)
      PROVE  TypeOK'
  <2>1. req[c].with \in Tokens
    BY <1>0, <1>6, RequestCases DEF MarkUsed, At
  <2>2. Exists(req[c].with)
          => [token[req[c].with] EXCEPT !.used = TRUE] \in Rows
    BY <1>0, <2>1 DEF TypeOK, Exists, Rows
  <2>3. token' \in [Tokens -> Rows \cup {Unissued, Deleted}]
    BY <1>0, <1>6, <2>1, <2>2 DEF MarkUsed, TypeOK
  <2> QED
    BY <1>0, <1>6, <2>3 DEF MarkUsed, history, TypeOK
<1>7. ASSUME NEW c \in Clients, Abandon(c)
      PROVE  TypeOK'
  <2>1. faults' \in 0..MaxFaults /\ faults' = faults + 1
    BY <1>0, <1>7 DEF Abandon, TypeOK
  <2>2. lost' \in [Tokens -> 0..MaxFaults]
    <3>1. CASE At(c, "mark")
      <4>1. req[c].with \in Tokens
        BY <1>0, <3>1, RequestCases DEF At
      <4>2. lost[req[c].with] + 1 \in 0..MaxFaults
        BY <1>0, <1>7, <4>1 DEF Abandon, TypeOK
      <4> QED
        BY <1>0, <1>7, <3>1, <4>2 DEF Abandon, TypeOK
    <3>2. CASE ~At(c, "mark")
      BY <1>0, <1>7, <3>2 DEF Abandon, TypeOK
    <3> QED
      BY <3>1, <3>2
  <2>3. cut' \in BOOLEAN
    BY <1>7 DEF Abandon
  <2>4. req' \in [Clients -> {Idle} \cup [pc : {"invalidate", "create"}]
                              \cup [pc : {"mail", "update", "mark"}, with : Tokens]]
    BY <1>0, <1>7 DEF Abandon, TypeOK
  <2> QED
    BY <1>0, <1>7, <2>1, <2>2, <2>3, <2>4 DEF Abandon, TypeOK
<1>8. ASSUME NEW c \in Clients, NEW t \in Tokens, Create(c, t)
      PROVE  TypeOK'
  BY <1>0, <1>8 DEF Create, history, TypeOK, Fresh, Rows
<1>9. ASSUME NEW c \in Clients, NEW t \in Tokens, BeginReset(c, t)
      PROVE  TypeOK'
  BY <1>0, <1>9 DEF BeginReset, history, TypeOK
<1>10. ASSUME NEW t \in Tokens, Expire(t)
       PROVE  TypeOK'
  <2>1. [token[t] EXCEPT !.expired = TRUE] \in Rows
    BY <1>0, <1>10 DEF Expire, Exists, TypeOK, Rows
  <2> QED
    BY <1>0, <1>10, <2>1 DEF Expire, history, TypeOK
<1> QED
  BY <1>1, <1>2, <1>3, <1>4, <1>5, <1>6, <1>7, <1>8, <1>9, <1>10 DEF Next, Step

-----------------------------------------------------------------------------
\* Deleting empties the table, so what is stored afterwards was created by
\* clients that had deleted before: each of them counts once.
LEMMA FewLinksStep ==
    ASSUME IInv, [Next]_vars
    PROVE  FewLinks'
<1> DEFINE Stored == {t \in Tokens : Exists(t)}
<1> USE Sizes DEF Numbers
<1>0. /\ TypeOK
      /\ Cardinality(Stored) + Cardinality(Creating) <= Cardinality(Clients)
      /\ IsFiniteSet(Stored) /\ Cardinality(Stored) \in Nat
      /\ Creating \in SUBSET Clients /\ Cardinality(Creating) \in Nat
  <2>1. IsFiniteSet(Stored)
    BY FS_Subset, FiniteAssumption
  <2> QED
    BY <2>1, FS_CardinalityType, SubsetSize DEF IInv, FewLinks, Creating
<1>a. FewLinks' <=> Cardinality(Stored') + Cardinality(Creating')
                        <= Cardinality(Clients)
  BY DEF FewLinks
<1> HIDE DEF Stored
<1>1. ASSUME Stored' = Stored, Creating' \subseteq Creating
      PROVE  FewLinks'
  <2>1. /\ Cardinality(Creating') \in Nat
        /\ Cardinality(Creating') <= Cardinality(Creating)
    BY <1>0, <1>1, SubsetSize, FS_Subset, FS_CardinalityType
  <2> QED
    BY <1>0, <1>a, <1>1, <2>1
<1>2. ASSUME NEW c \in Clients, DeleteForUser(c)
      PROVE  FewLinks'
  <2>1. Stored' = {}
    BY <1>2 DEF DeleteForUser, Exists, Stored
  <2>2. Creating' \in SUBSET Clients
    BY DEF Creating
  <2>3. Cardinality(Creating') \in Nat /\ Cardinality(Creating') <= Cardinality(Clients)
    BY <2>2, SubsetSize
  <2> QED
    BY <1>a, <2>1, <2>3, FS_EmptySet
<1>3. ASSUME NEW c \in Clients, NEW t \in Tokens, Create(c, t)
      PROVE  FewLinks'
  <2>1. Stored' = Stored \cup {t} /\ t \notin Stored
    BY <1>0, <1>3 DEF Create, Exists, Stored, Fresh,
                      Unissued, Deleted, TypeOK
  <2>2. Creating' = Creating \ {c} /\ c \in Creating
    BY <1>0, <1>3 DEF Create, Creating, At, TypeOK
  <2>3. Cardinality(Stored') = Cardinality(Stored) + 1
    BY <1>0, <2>1, FS_AddElement
  <2>4. Cardinality(Creating) = Cardinality(Creating') + 1
    BY <1>0, <2>2, OneLess
  <2>5. Cardinality(Creating') \in Nat
    BY <1>0, <2>2, SubsetSize
  <2> QED
    BY <1>0, <1>a, <2>3, <2>4, <2>5
<1>4. ASSUME NEW c \in Clients,
             BeginRequest(c) \/ SendEmail(c) \/ UpdatePassword(c) \/ Abandon(c)
      PROVE  FewLinks'
  <2>1. Stored' = Stored
    BY <1>4 DEF BeginRequest, SendEmail, UpdatePassword, Abandon, Exists, Stored
  <2>2. Creating' \subseteq Creating
    BY <1>0, <1>4 DEF BeginRequest, SendEmail, UpdatePassword, Abandon, Creating,
                      At, Idle, TypeOK
  <2> QED
    BY <1>1, <2>1, <2>2
<1>5. ASSUME NEW c \in Clients, MarkUsed(c)
      PROVE  FewLinks'
  <2>1. Stored' = Stored
    BY <1>0, <1>5 DEF MarkUsed, Exists, Stored, TypeOK, Unissued, Deleted, Rows
  <2>2. Creating' \subseteq Creating
    BY <1>0, <1>5 DEF MarkUsed, Creating, At, Idle, TypeOK
  <2> QED
    BY <1>1, <2>1, <2>2
<1>6. ASSUME NEW c \in Clients, NEW t \in Tokens, BeginReset(c, t)
      PROVE  FewLinks'
  <2>1. Stored' = Stored
    BY <1>6 DEF BeginReset, Exists, Stored
  <2>2. Creating' \subseteq Creating
    BY <1>0, <1>6 DEF BeginReset, Creating, At, Idle, TypeOK
  <2> QED
    BY <1>1, <2>1, <2>2
<1>7. ASSUME NEW t \in Tokens, Expire(t)
      PROVE  FewLinks'
  <2>1. Stored' = Stored
    BY <1>0, <1>7 DEF Expire, Exists, Stored, TypeOK, Unissued, Deleted, Rows
  <2>2. Creating' = Creating
    BY <1>7 DEF Expire, Creating, At
  <2> QED
    BY <1>1, <2>1, <2>2
<1>8. CASE UNCHANGED vars
  <2>1. Stored' = Stored /\ Creating' = Creating
    BY <1>8 DEF vars, Exists, Stored, Creating, At
  <2> QED
    BY <1>1, <2>1
<1> QED
  BY <1>2, <1>3, <1>4, <1>5, <1>6, <1>7, <1>8 DEF Next, Step
-----------------------------------------------------------------------------
\* A token in a request was stored, and no token goes back to unissued.
LEMMA IssuedStep ==
    ASSUME IInv, [Next]_vars
    PROVE  Issued'
<1>0. TypeOK /\ Issued
  BY DEF IInv
<1>1. ASSUME \A c \in Clients :
                 At(c, "update")' \/ At(c, "mark")'
                   => \/ (At(c, "update") \/ At(c, "mark")) /\ req'[c].with = req[c].with
                      \/ Exists(req'[c].with),
             \A c \in Clients : At(c, "update")' \/ At(c, "mark")' => req'[c].with \in Tokens,
             \A t \in Tokens : token[t] # Unissued => token'[t] # Unissued
      PROVE  Issued'
  BY <1>0, <1>1 DEF Issued, Exists
<1>2. \A c \in Clients : At(c, "update")' \/ At(c, "mark")' => req'[c].with \in Tokens
  <2>1. TypeOK'
    BY TypeStep
  <2> QED
    BY <2>1 DEF TypeOK, At, Idle
<1>3. ASSUME NEW c \in Clients,
             BeginRequest(c) \/ SendEmail(c) \/ Abandon(c)
      PROVE  Issued'
  BY <1>0, <1>1, <1>2, <1>3 DEF BeginRequest, SendEmail, Abandon, At, Idle, TypeOK
<1>4. ASSUME NEW c \in Clients, DeleteForUser(c)
      PROVE  Issued'
  <2>1. \A t \in Tokens : token[t] # Unissued => token'[t] # Unissued
    BY <1>4 DEF DeleteForUser, Unissued, Deleted
  <2> QED
    BY <1>0, <1>1, <1>2, <1>4, <2>1 DEF DeleteForUser, At, TypeOK
<1>5. ASSUME NEW c \in Clients, UpdatePassword(c)
      PROVE  Issued'
  <2>1. req[c] \in [pc : {"mail", "update", "mark"}, with : Tokens]
    BY <1>0, <1>5, RequestCases DEF UpdatePassword, At
  <2>2. req'[c] = [req[c] EXCEPT !.pc = "mark"] /\ At(c, "update")
    BY <1>0, <1>5 DEF UpdatePassword, TypeOK
  <2>3. req'[c].with = req[c].with
    BY <2>1, <2>2
  <2>4. \A d \in Clients : d # c => req'[d] = req[d]
    BY <1>0, <1>5 DEF UpdatePassword, TypeOK
  <2>5. \A t \in Tokens : token'[t] = token[t]
    BY <1>5 DEF UpdatePassword
  <2> QED
    BY <1>1, <1>2, <2>2, <2>3, <2>4, <2>5 DEF At
<1>6. ASSUME NEW c \in Clients, MarkUsed(c)
      PROVE  Issued'
  <2>1. \A t \in Tokens : token[t] # Unissued => token'[t] # Unissued
    BY <1>0, <1>6 DEF MarkUsed, Exists, TypeOK, Unissued, Deleted, Rows
  <2> QED
    BY <1>0, <1>1, <1>2, <1>6, <2>1 DEF MarkUsed, At, Idle, TypeOK
<1>7. ASSUME NEW c \in Clients, NEW t \in Tokens, Create(c, t)
      PROVE  Issued'
  <2>1. \A s \in Tokens : token[s] # Unissued => token'[s] # Unissued
    BY <1>0, <1>7 DEF Create, TypeOK
  <2> QED
    BY <1>0, <1>1, <1>2, <1>7, <2>1 DEF Create, At, TypeOK
<1>8. ASSUME NEW c \in Clients, NEW t \in Tokens, BeginReset(c, t)
      PROVE  Issued'
  BY <1>0, <1>1, <1>2, <1>8 DEF BeginReset, Usable, At, TypeOK
<1>9. ASSUME NEW t \in Tokens, Expire(t)
      PROVE  Issued'
  <2>1. \A s \in Tokens : token[s] # Unissued => token'[s] # Unissued
    BY <1>0, <1>9 DEF Expire, Exists, TypeOK, Unissued, Deleted, Rows
  <2> QED
    BY <1>0, <1>1, <1>2, <1>9, <2>1 DEF Expire, At
<1>10. CASE UNCHANGED vars
  BY <1>0, <1>10 DEF vars, Issued, At
<1> QED
  BY <1>3, <1>4, <1>5, <1>6, <1>7, <1>8, <1>9, <1>10 DEF Next, Step

-----------------------------------------------------------------------------
\* The groups around a token: they are disjoint sets of clients.
LEMMA Groups ==
    ASSUME NEW t
    PROVE  /\ AtUpdate(t) \in SUBSET Clients /\ AtMark(t) \in SUBSET Clients
           /\ Cardinality(AtUpdate(t)) \in Nat /\ Cardinality(AtMark(t)) \in Nat
           /\ Cardinality(AtUpdate(t)) + Cardinality(AtMark(t)) <= Cardinality(Clients)
<1>1. /\ AtUpdate(t) \in SUBSET Clients /\ AtMark(t) \in SUBSET Clients
      /\ AtUpdate(t) \cap AtMark(t) = {}
  BY DEF AtUpdate, AtMark, At
<1> QED
  BY <1>1, SubsetSize, TwoGroups

\* A use is let in by an unmarked token, all of whose earlier uses are lost or
\* about to mark it: those and the ones let in fit into the clients.
LEMMA AccountedStep ==
    ASSUME IInv, [Next]_vars
    PROVE  Accounted'
<1> USE Sizes DEF Numbers
<1>0. TypeOK /\ Issued /\ Accounted /\ TypeOK'
  BY TypeStep DEF IInv
<1>1. \A t \in Tokens :
        /\ uses[t] \in Nat /\ lost[t] \in Nat /\ faults \in Nat
        /\ uses'[t] \in Nat /\ lost'[t] \in Nat /\ faults' \in Nat
  BY <1>0 DEF TypeOK
\* A step that leaves the groups and the history alone.
<1>2. ASSUME uses' = uses, lost' = lost, faults' >= faults,
             \A t \in Tokens : AtUpdate(t)' = AtUpdate(t) /\ AtMark(t)' = AtMark(t),
             \A t \in Tokens : Unmarked(t)' => Unmarked(t)
      PROVE  Accounted'
  BY <1>0, <1>1, <1>2, Groups DEF Accounted
<1>3. ASSUME NEW c \in Clients, BeginRequest(c) \/ SendEmail(c)
      PROVE  Accounted'
  <2>1. \A t \in Tokens : AtUpdate(t)' = AtUpdate(t) /\ AtMark(t)' = AtMark(t)
    BY <1>0, <1>3 DEF BeginRequest, SendEmail, AtUpdate, AtMark, At, Idle, TypeOK
  <2> QED
    BY <1>1, <1>2, <1>3, <2>1, <1>0
       DEF BeginRequest, SendEmail, history, Unmarked, Exists, TypeOK
<1>4. ASSUME NEW c \in Clients, DeleteForUser(c)
      PROVE  Accounted'
  <2>1. \A t \in Tokens : AtUpdate(t)' = AtUpdate(t) /\ AtMark(t)' = AtMark(t)
    BY <1>0, <1>4 DEF DeleteForUser, AtUpdate, AtMark, At, TypeOK
  <2>2. \A t \in Tokens : Unmarked(t)' => Unmarked(t)
    BY <1>4 DEF DeleteForUser, Unmarked, Exists, Unissued, Deleted
  <2> QED
    BY <1>0, <1>1, <1>2, <1>4, <2>1, <2>2 DEF DeleteForUser, history, TypeOK
<1>5. ASSUME NEW c \in Clients, NEW t \in Tokens, Create(c, t)
      PROVE  Accounted'
  <2>1. \A s \in Tokens : AtUpdate(s)' = AtUpdate(s) /\ AtMark(s)' = AtMark(s)
    BY <1>0, <1>5 DEF Create, AtUpdate, AtMark, At, TypeOK
  <2>2. \A s \in Tokens : Unmarked(s)' => Unmarked(s)
    BY <1>0, <1>5 DEF Create, Unmarked, Exists, TypeOK
  <2> QED
    BY <1>0, <1>1, <1>2, <1>5, <2>1, <2>2 DEF Create, history, TypeOK
<1>6. ASSUME NEW c \in Clients, NEW t \in Tokens, BeginReset(c, t)
      PROVE  Accounted'
  <2>1. /\ AtUpdate(t)' = AtUpdate(t) \cup {c} /\ c \notin AtUpdate(t)
        /\ AtMark(t)' = AtMark(t) /\ Unmarked(t)
        /\ \A s \in Tokens \ {t} :
              AtUpdate(s)' = AtUpdate(s) /\ AtMark(s)' = AtMark(s)
    BY <1>0, <1>6 DEF BeginReset, Usable, Unmarked, AtUpdate, AtMark, At, Idle, TypeOK
  <2>2. \A s \in Tokens : Unmarked(s)' <=> Unmarked(s)
    BY <1>6 DEF BeginReset, Unmarked, Exists
  <2>3. uses' = uses /\ lost' = lost /\ faults' = faults
    BY <1>6 DEF BeginReset, history
  <2>4. \A s \in Tokens :
          /\ lost'[s] <= faults'
          /\ Unmarked(s)' => uses'[s] <= lost'[s] + Cardinality(AtMark(s)')
    BY <1>0, <2>1, <2>2, <2>3 DEF Accounted
  <2>5. uses'[t] + Cardinality(AtUpdate(t)') <= Cardinality(Clients) + lost'[t]
    <3>1. Cardinality(AtUpdate(t)') + Cardinality(AtMark(t)') <= Cardinality(Clients)
      <4>1. AtUpdate(t)' \in SUBSET Clients /\ AtMark(t)' \in SUBSET Clients
            /\ AtUpdate(t)' \cap AtMark(t)' = {}
        BY DEF AtUpdate, AtMark, At
      <4> QED
        BY <4>1, TwoGroups
    <3>2. Cardinality(AtUpdate(t)') \in Nat
      BY <2>1, Groups, OneMore
    <3>3. uses[t] <= lost[t] + Cardinality(AtMark(t))
      BY <1>0, <2>1 DEF Accounted
    <3> QED
      BY <1>1, <2>1, <2>3, <3>1, <3>2, <3>3, Groups
  <2>6. \A s \in Tokens \ {t} :
          uses'[s] + Cardinality(AtUpdate(s)') <= Cardinality(Clients) + lost'[s]
    BY <1>0, <2>1, <2>3 DEF Accounted
  <2>7. \A s \in Tokens :
          /\ lost'[s] <= faults'
          /\ Unmarked(s)' => uses'[s] <= lost'[s] + Cardinality(AtMark(s)')
          /\ uses'[s] + Cardinality(AtUpdate(s)') <= Cardinality(Clients) + lost'[s]
    BY <2>4, <2>5, <2>6
  <2> QED
    BY <2>7 DEF Accounted
<1>7. ASSUME NEW c \in Clients, UpdatePassword(c)
      PROVE  Accounted'
  <2>0. PICK t \in Tokens :
          /\ t = req[c].with /\ req[c].pc = "update"
          /\ req[c] \in [pc : {"mail", "update", "mark"}, with : Tokens]
    BY <1>0, <1>7, RequestCases DEF UpdatePassword, At
  <2>1. /\ req'[c].pc = "mark" /\ req'[c].with = t
        /\ \A d \in Clients \ {c} : req'[d] = req[d]
    <3>1. req'[c] = [req[c] EXCEPT !.pc = "mark"]
          /\ \A d \in Clients \ {c} : req'[d] = req[d]
      BY <1>0, <1>7 DEF UpdatePassword, TypeOK
    <3> QED
      BY <2>0, <3>1
  <2>2. /\ AtUpdate(t)' = AtUpdate(t) \ {c} /\ c \in AtUpdate(t)
        /\ AtMark(t)' = AtMark(t) \cup {c} /\ c \notin AtMark(t)
        /\ \A s \in Tokens \ {t} :
              AtUpdate(s)' = AtUpdate(s) /\ AtMark(s)' = AtMark(s)
    BY <2>0, <2>1 DEF AtUpdate, AtMark, At
  <2>3. Cardinality(AtUpdate(t)) = Cardinality(AtUpdate(t)') + 1
        /\ Cardinality(AtMark(t)') = Cardinality(AtMark(t)) + 1
    BY <2>2, Groups, OneLess, OneMore
  <2>4. Cardinality(AtUpdate(t)') \in Nat
    BY <2>2, Groups, SubsetSize
  <2>5. /\ uses'[t] <= uses[t] + 1
        /\ \A s \in Tokens \ {t} : uses'[s] = uses[s]
        /\ lost' = lost /\ faults' = faults
        /\ \A s \in Tokens : Unmarked(s)' <=> Unmarked(s)
    BY <1>0, <1>1, <1>7, <2>0 DEF UpdatePassword, Unmarked, Exists, TypeOK
  <2>6. \A s \in Tokens \ {t} :
          /\ lost'[s] <= faults'
          /\ Unmarked(s)' => uses'[s] <= lost'[s] + Cardinality(AtMark(s)')
          /\ uses'[s] + Cardinality(AtUpdate(s)') <= Cardinality(Clients) + lost'[s]
    BY <1>0, <2>2, <2>5 DEF Accounted
  <2>7. /\ lost'[t] <= faults'
        /\ Unmarked(t)' => uses'[t] <= lost'[t] + Cardinality(AtMark(t)')
        /\ uses'[t] + Cardinality(AtUpdate(t)') <= Cardinality(Clients) + lost'[t]
    <3>1. /\ lost[t] <= faults
          /\ Unmarked(t) => uses[t] <= lost[t] + Cardinality(AtMark(t))
          /\ uses[t] + Cardinality(AtUpdate(t)) <= Cardinality(Clients) + lost[t]
      BY <1>0, <2>0 DEF Accounted
    <3> QED
      BY <1>1, <2>0, <2>3, <2>4, <2>5, <3>1, Groups
  <2> QED
    BY <2>6, <2>7 DEF Accounted
<1>8. ASSUME NEW c \in Clients, MarkUsed(c)
      PROVE  Accounted'
  <2>0. PICK t \in Tokens :
          t = req[c].with /\ At(c, "mark") /\ token[t] # Unissued
    BY <1>0, <1>8, RequestCases DEF MarkUsed, At, Issued
  <2>1. /\ AtMark(t)' = AtMark(t) \ {c}
        /\ \A s \in Tokens : AtUpdate(s)' = AtUpdate(s)
        /\ \A s \in Tokens \ {t} : AtMark(s)' = AtMark(s)
    BY <1>0, <1>8, <2>0 DEF MarkUsed, AtUpdate, AtMark, At, Idle, TypeOK
  <2>2. ~Unmarked(t)' /\ \A s \in Tokens \ {t} : Unmarked(s)' <=> Unmarked(s)
    <3>1. CASE Exists(t)
      <4>1. token[t] \in Rows
        BY <1>0, <2>0, <3>1 DEF TypeOK, Exists
      <4>2. token'[t] = [token[t] EXCEPT !.used = TRUE]
            /\ \A s \in Tokens \ {t} : token'[s] = token[s]
        BY <1>0, <1>8, <2>0, <3>1 DEF MarkUsed, TypeOK
      <4>3. token'[t] \in Rows /\ token'[t].used
        BY <4>1, <4>2 DEF Rows
      <4>4. token'[t] # Unissued
        BY <4>3 DEF Rows, Unissued
      <4> QED
        BY <4>2, <4>3, <4>4 DEF Unmarked, Exists
    <3>2. CASE ~Exists(t)
      BY <1>8, <2>0, <3>2 DEF MarkUsed, Unmarked, Exists
    <3> QED
      BY <3>1, <3>2
  <2>3. uses' = uses /\ lost' = lost /\ faults' = faults
    BY <1>8 DEF MarkUsed, history
  <2> QED
    BY <1>0, <2>0, <2>1, <2>2, <2>3 DEF Accounted
<1>9. ASSUME NEW c \in Clients, Abandon(c)
      PROVE  Accounted'
  <2>1. faults' = faults + 1 /\ uses' = uses /\ token' = token
    BY <1>9 DEF Abandon
  <2>2. \A s \in Tokens : Unmarked(s)' <=> Unmarked(s)
    BY <2>1 DEF Unmarked, Exists
  <2>3. \A s \in Tokens : AtUpdate(s)' = AtUpdate(s) \ {c} /\ AtMark(s)' = AtMark(s) \ {c}
    BY <1>0, <1>9 DEF Abandon, AtUpdate, AtMark, At, Idle, TypeOK
  <2>4. \A s \in Tokens :
          /\ Cardinality(AtUpdate(s)') \in Nat
          /\ Cardinality(AtUpdate(s)') <= Cardinality(AtUpdate(s))
    <3>1. TAKE s \in Tokens
    <3>2. CASE c \in AtUpdate(s)
      BY <2>3, <3>2, Groups, OneLess, SubsetSize
    <3>3. CASE c \notin AtUpdate(s)
      <4>1. AtUpdate(s)' = AtUpdate(s)
        BY <2>3, <3>3
      <4> QED
        BY <4>1, Groups
    <3> QED
      BY <3>2, <3>3
  <2>5. \A s \in Tokens :
          /\ lost'[s] \in {lost[s], lost[s] + 1}
          /\ lost'[s] + Cardinality(AtMark(s)') = lost[s] + Cardinality(AtMark(s))
    <3>1. TAKE s \in Tokens
    <3>2. CASE c \in AtMark(s)
      <4>1. Cardinality(AtMark(s)) = Cardinality(AtMark(s)') + 1
        BY <2>3, <3>2, Groups, OneLess
      <4>2. lost'[s] = lost[s] + 1
        BY <1>0, <1>9, <3>2 DEF Abandon, AtMark, At, TypeOK
      <4>3. Cardinality(AtMark(s)') \in Nat
        BY <2>3, Groups, SubsetSize
      <4> QED
        BY <1>1, <4>1, <4>2, <4>3
    <3>3. CASE c \notin AtMark(s)
      <4>1. AtMark(s)' = AtMark(s)
        BY <2>3, <3>3
      <4>2. lost'[s] = lost[s]
        BY <1>0, <1>9, <3>3 DEF Abandon, AtMark, At, TypeOK
      <4> QED
        BY <4>1, <4>2
    <3> QED
      BY <3>2, <3>3
  <2>6. \A s \in Tokens :
          /\ lost'[s] <= faults'
          /\ Unmarked(s)' => uses'[s] <= lost'[s] + Cardinality(AtMark(s)')
          /\ uses'[s] + Cardinality(AtUpdate(s)') <= Cardinality(Clients) + lost'[s]
    <3>1. TAKE s \in Tokens
    <3>2. /\ lost[s] <= faults
          /\ Unmarked(s) => uses[s] <= lost[s] + Cardinality(AtMark(s))
          /\ uses[s] + Cardinality(AtUpdate(s)) <= Cardinality(Clients) + lost[s]
      BY <1>0 DEF Accounted
    <3> QED
      BY <1>1, <2>1, <2>2, <2>4, <2>5, <3>2, Groups
  <2> QED
    BY <2>6 DEF Accounted
<1>10. ASSUME NEW t \in Tokens, Expire(t)
       PROVE  Accounted'
  <2>1. \A s \in Tokens : AtUpdate(s)' = AtUpdate(s) /\ AtMark(s)' = AtMark(s)
    BY <1>10 DEF Expire, AtUpdate, AtMark, At
  <2>2. \A s \in Tokens : Unmarked(s)' => Unmarked(s)
    <3>1. /\ token[t] \in Rows /\ Exists(t)
          /\ token' = [token EXCEPT ![t] = [token[t] EXCEPT !.expired = TRUE]]
      BY <1>0, <1>10 DEF Expire, Exists, TypeOK
    <3>2. token'[t] \in Rows /\ token'[t].used = token[t].used
      BY <1>0, <3>1 DEF Rows, TypeOK
    <3>3. token'[t] # Unissued
      BY <3>2 DEF Rows, Unissued
    <3>4. \A s \in Tokens \ {t} : token'[s] = token[s]
      BY <1>0, <3>1 DEF TypeOK
    <3> QED
      BY <3>1, <3>2, <3>3, <3>4 DEF Unmarked, Exists
  <2> QED
    BY <1>0, <1>1, <1>2, <1>10, <2>1, <2>2 DEF Expire, history, TypeOK
<1>11. CASE UNCHANGED vars
  <2>1. \A t \in Tokens : AtUpdate(t)' = AtUpdate(t) /\ AtMark(t)' = AtMark(t)
    BY <1>11 DEF vars, AtUpdate, AtMark, At
  <2> QED
    BY <1>0, <1>1, <1>2, <1>11, <2>1 DEF vars, history, Unmarked, Exists, TypeOK
<1> QED
  BY <1>3, <1>4, <1>5, <1>6, <1>7, <1>8, <1>9, <1>10, <1>11 DEF Next, Step

-----------------------------------------------------------------------------
THEOREM IInvHolds == Spec => []IInv
<1>1. Init => IInv
  BY InitIInv
<1>2. IInv /\ [Next]_vars => IInv'
  BY TypeStep, FewLinksStep, IssuedStep, AccountedStep DEF IInv
<1> QED
  BY <1>1, <1>2, PTL DEF Spec

\* Every state of RequestPasswordReset and ResetPassword has the types of TypeOK.
THEOREM TypeCorrect == Spec => []TypeOK
<1>1. IInv => TypeOK
  BY DEF IInv
<1> QED
  BY <1>1, IInvHolds, PTL

\* For any number of clients, at most one link per client is stored at a time.
THEOREM FewLinksStored == Spec => []FewLinks
<1>1. IInv => FewLinks
  BY DEF IInv
<1> QED
  BY <1>1, IInvHolds, PTL

\* For any number of clients, tokens and faults, a link changes the password at
\* most once per client and once more for every use lost before MarkUsed.
THEOREM SpentOnce == Spec => []SpentOncePerClient
<1>1. IInv => SpentOncePerClient
  <2> SUFFICES ASSUME IInv, NEW t \in Tokens
               PROVE  uses[t] <= Cardinality(Clients) + lost[t]
    BY DEF SpentOncePerClient
  <2>1. uses[t] + Cardinality(AtUpdate(t)) <= Cardinality(Clients) + lost[t]
    BY DEF IInv, Accounted
  <2>2. uses[t] \in Nat /\ lost[t] \in Nat /\ Cardinality(Clients) \in Nat
    BY Sizes DEF IInv, TypeOK, Numbers
  <2> QED
    BY <2>1, <2>2, Groups
<1> QED
  BY <1>1, IInvHolds, PTL

-----------------------------------------------------------------------------
\* SomeLinkStored is not inductive.  Once a link has been created, one of them
\* is stored and in the mailbox or about to be, or a request that has still to
\* create its own is on the way: what a request deletes it replaces.
LinkComing ==
    \/ \E c \in Clients : req[c].pc \in {"invalidate", "create"}
    \/ \E c \in Clients : At(c, "mail") /\ Exists(req[c].with)

Replaced ==
    ~cut /\ (mailed # {} \/ \E c \in Clients : At(c, "mail"))
        => LinkComing \/ \E t \in mailed : Exists(t)

LEMMA InitReplaced == Init => Replaced
BY DEF Init, Replaced, At, Idle

\* The steps that neither delete nor mail a link.
LEMMA LinksStay ==
    ASSUME TypeOK, Replaced, mailed' = mailed, cut => cut',
           \A t \in Tokens : Exists(t) => Exists(t)',
           \A c \in Clients :
               /\ At(c, "mail")' => At(c, "mail")
               /\ req[c].pc \in {"invalidate", "create", "mail"}
                    => req'[c] = req[c] \/ cut'
    PROVE  Replaced'
<1> SUFFICES ASSUME ~cut', mailed' # {} \/ \E c \in Clients : At(c, "mail")'
             PROVE  LinkComing' \/ \E t \in mailed' : Exists(t)'
  BY DEF Replaced
<1>1. LinkComing \/ \E t \in mailed : Exists(t)
  BY DEF Replaced
<1>2. CASE LinkComing
  <2>1. \A c \in Clients : At(c, "mail") => req[c].with \in Tokens
    BY RequestCases DEF At
  <2> QED
    BY <1>2, <2>1 DEF LinkComing, At
<1>3. CASE \E t \in mailed : Exists(t)
  BY <1>3 DEF TypeOK
<1> QED
  BY <1>1, <1>2, <1>3

LEMMA ReplacedStep ==
    ASSUME TypeOK, Replaced, [Next]_vars
    PROVE  Replaced'
<1>1. ASSUME NEW c \in Clients,
             BeginRequest(c) \/ UpdatePassword(c) \/ MarkUsed(c) \/ Abandon(c)
      PROVE  Replaced'
  <2> DEFINE Asking == req[c].pc \in {"invalidate", "create", "mail"}
  <2>1. mailed' = mailed /\ (cut => cut') /\ (Abandon(c) /\ Asking => cut')
    <3>1. mailed' = mailed /\ (UNCHANGED cut \/ Abandon(c))
      BY <1>1 DEF BeginRequest, UpdatePassword, MarkUsed, Abandon, history
    <3>2. Abandon(c) => cut' = (cut \/ Asking)
      BY DEF Abandon
    <3> HIDE DEF Asking
    <3>3. Abandon(c) /\ (cut \/ Asking) => cut'
      BY <3>2, Zenon
    <3>4. UNCHANGED cut => (cut => cut')
      OBVIOUS
    <3> QED
      BY <3>1, <3>3, <3>4
  <2>2. \A t \in Tokens : Exists(t) => Exists(t)'
    <3>1. CASE UNCHANGED token
      BY <3>1 DEF Exists
    <3>2. CASE MarkUsed(c)
      BY <3>2 DEF MarkUsed, Exists, TypeOK, Unissued, Deleted, Rows
    <3> QED
      BY <1>1, <3>1, <3>2 DEF BeginRequest, UpdatePassword, Abandon
  <2>3. /\ \A d \in Clients : d # c => req'[d] = req[d]
        /\ ~At(c, "mail")'
        /\ Asking => cut'
    <3>1. CASE UpdatePassword(c)
      <4>1. req[c] \in [pc : {"mail", "update", "mark"}, with : Tokens]
        BY <3>1, RequestCases DEF UpdatePassword, At
      <4>2. req'[c] = [req[c] EXCEPT !.pc = "mark"]
        BY <3>1 DEF UpdatePassword, TypeOK
      <4> QED
        BY <3>1, <4>1, <4>2 DEF UpdatePassword, At, TypeOK
    <3>2. CASE BeginRequest(c) \/ MarkUsed(c) \/ Abandon(c)
      <4>1. /\ \A d \in Clients : d # c => req'[d] = req[d]
            /\ ~At(c, "mail")'
        BY <3>2 DEF BeginRequest, MarkUsed, Abandon, At, Idle, TypeOK
      <4>2. Asking => Abandon(c)
        BY <3>2 DEF BeginRequest, MarkUsed, At, Idle
      <4> QED
        BY <2>1, <4>1, <4>2
    <3> QED
      BY <1>1, <3>1, <3>2
  <2> QED
    BY <2>1, <2>2, <2>3, LinksStay DEF At
<1>2. ASSUME NEW c \in Clients, DeleteForUser(c)
      PROVE  Replaced'
  <2>1. req'[c].pc = "create"
    BY <1>2 DEF DeleteForUser, TypeOK
  <2> QED
    BY <2>1 DEF Replaced, LinkComing
<1>3. ASSUME NEW c \in Clients, NEW t \in Tokens, Create(c, t)
      PROVE  Replaced'
  <2>1. req'[c].pc = "mail" /\ req'[c].with = t
    BY <1>3 DEF Create, TypeOK
  <2>2. Exists(t)'
    BY <1>3 DEF Create, Exists, Fresh, Unissued, Deleted, TypeOK
  <2> QED
    BY <2>1, <2>2 DEF Replaced, LinkComing, At, Exists
<1>4. ASSUME NEW c \in Clients, SendEmail(c)
      PROVE  Replaced'
  <2>1. /\ \A d \in Clients : d # c => req'[d] = req[d]
        /\ At(c, "mail") /\ mailed' = mailed \cup {req[c].with}
        /\ UNCHANGED <<token, cut>>
    BY <1>4 DEF SendEmail, TypeOK, history
  <2>2. SUFFICES ASSUME ~cut'
                 PROVE  LinkComing' \/ \E t \in mailed' : Exists(t)'
    BY DEF Replaced
  <2>3. LinkComing \/ \E t \in mailed : Exists(t)
    BY <2>1, <2>2 DEF Replaced
  <2> QED
    BY <2>1, <2>3 DEF LinkComing, At, Exists
<1>5. ASSUME NEW c \in Clients, NEW t \in Tokens, BeginReset(c, t)
      PROVE  Replaced'
  <2>1. /\ \A d \in Clients : d # c => req'[d] = req[d]
        /\ req[c].pc = "idle" /\ req'[c].pc = "update"
        /\ UNCHANGED <<token, mailed, cut>>
    BY <1>5 DEF BeginReset, Idle, TypeOK, history
  <2> QED
    BY <2>1, LinksStay DEF At, Exists
<1>6. ASSUME NEW t \in Tokens, Expire(t)
      PROVE  Replaced'
  <2>1. \A s \in Tokens : Exists(s) => Exists(s)'
    BY <1>6 DEF Expire, Exists, TypeOK, Unissued, Deleted, Rows
  <2> QED
    BY <1>6, <2>1, LinksStay DEF Expire, At, history
<1>7. CASE UNCHANGED vars
  BY <1>7, LinksStay DEF vars, history, At, Exists
<1> QED
  BY <1>1, <1>2, <1>3, <1>4, <1>5, <1>6, <1>7 DEF Next, Step

\* However many requests for a link overlap and delete each other's tokens, when
\* they have all been answered a link in the mailbox is still stored
\* (auth/service.go:253-290).
THEOREM MailboxHasALink == Spec => []SomeLinkStored
<1>1. Replaced => SomeLinkStored
  BY DEF Replaced, SomeLinkStored, LinkComing, At
<1> QED
  BY <1>1, InitReplaced, ReplacedStep, TypeCorrect, PTL DEF Spec
=============================================================================
