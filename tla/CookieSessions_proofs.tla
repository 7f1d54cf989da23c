------------------------ MODULE CookieSessions_proofs ------------------------
(* Theorems about CookieSessions, for every table size, clock and set of     *)
(* users and ids.                                                          *)
EXTENDS CookieSessions, FiniteSetTheorems, TLAPS

(* No id stands twice in the table. *)
DistinctIds ==
    \A i, j \in DOMAIN m_session_list :
        m_session_list[i].m_id = m_session_list[j].m_id => i = j

(* Every session belongs to the user its cookie was handed out to, by this   *)
(* process.                                                                *)
Attributed ==
    \A i \in DOMAIN m_session_list :
        /\ m_session_list[i].m_id \in cookies
        /\ issued[m_session_list[i].m_id] = m_session_list[i].m_user

CookiesIssued == \A id \in cookies : issued[id] # NoUser

Recorded ==
    \A id \in cookies :
        \E i \in DOMAIN m_session_list : m_session_list[i].m_id = id

(* Either each cookie of this process has its session, or the table is full  *)
(* and was full when the cookies without one were handed out.              *)
Counted ==
    /\ IsFiniteSet(cookies)
    /\ \/ Cardinality(cookies) = Len(m_session_list) /\ Recorded
       \/ Cardinality(cookies) > MaxSessions /\ Len(m_session_list) = MaxSessions

(* A session is never used before it was made, nor after now. *)
Dated ==
    \A i \in DOMAIN m_session_list : m_session_list[i].m_last_used <= clock

IInv ==
    TypeOK /\ DistinctIds /\ Attributed /\ CookiesIssued /\ Counted /\ Dated

-----------------------------------------------------------------------------

(* Looking an id up: ids are distinct, so the first match is the only one.   *)
LEMMA FirstMatchMatches ==
    ASSUME TypeOK, DistinctIds, NEW id, Matching(id) # {}
    PROVE  /\ FirstMatch(id) \in DOMAIN m_session_list
           /\ m_session_list[FirstMatch(id)].m_id = id
<1>1. PICK k \in DOMAIN m_session_list : m_session_list[k].m_id = id
  BY DEF Matching
<1>2. k \in Nat
  BY DEF TypeOK
<1>3. k \in Matching(id) /\ \A j \in Matching(id) : k <= j
  BY <1>1, <1>2 DEF DistinctIds, Matching
<1>4. FirstMatch(id) \in Matching(id)
  BY <1>3 DEF FirstMatch
<1>. QED BY <1>4 DEF Matching

(* The record of a new session, and the table it is appended to. *)
LEMMA NewSessionType ==
    ASSUME TypeOK, NEW id \in SessionIds, NEW u \in Users
    PROVE  NewSession(id, u) \in Session
BY DEF TypeOK, NewSession, Session, Time

(* GetSession changes one field of one session, and only for the better. *)
LEMMA GetSessionEffect ==
    ASSUME IInv, NEW id \in SessionIds, GetSession(id)
    PROVE  /\ m_session_list' \in Seq(Session)
           /\ Len(m_session_list') = Len(m_session_list)
           /\ \A i \in DOMAIN m_session_list : SessionKept(i)
           /\ \A i \in DOMAIN m_session_list :
                m_session_list'[i].m_last_used <= clock
<1>1. CASE Matching(id) = {}
  <2>1. m_session_list' = m_session_list
    BY <1>1 DEF GetSession
  <2>2. ASSUME NEW i \in DOMAIN m_session_list
        PROVE  m_session_list[i].m_last_used \in Nat
    <3>1. m_session_list[i] \in Session
      BY <2>2 DEF IInv, TypeOK
    <3>2. Time \subseteq Nat
      BY DEF Time
    <3>. QED BY <3>1, <3>2 DEF Session
  <2>. QED BY <2>1, <2>2 DEF IInv, TypeOK, Dated, SessionKept
<1>2. CASE Matching(id) # {}
  <2> DEFINE k == FirstMatch(id)
  <2>1. k \in DOMAIN m_session_list
    BY <1>2, FirstMatchMatches DEF IInv
  <2>2. m_session_list' = [m_session_list EXCEPT ![k] =
                             [m_session_list[k] EXCEPT !.m_last_used = clock]]
    BY <1>2 DEF GetSession
  <2>3. /\ m_session_list \in Seq(Session)
        /\ m_session_list[k] \in Session
        /\ clock \in Time
    BY <2>1 DEF IInv, TypeOK
  <2>4. [m_session_list[k] EXCEPT !.m_last_used = clock] \in Session
    BY <2>3 DEF Session
  <2>5. /\ m_session_list' \in Seq(Session)
        /\ Len(m_session_list') = Len(m_session_list)
    BY <2>1, <2>2, <2>3, <2>4
  <2>6. ASSUME NEW i \in DOMAIN m_session_list
        PROVE  SessionKept(i) /\ m_session_list'[i].m_last_used <= clock
    <3>1. m_session_list[i] \in Session /\ m_session_list[i].m_last_used <= clock
      BY <2>3, <2>6 DEF IInv, Dated
    <3>2. CASE i = k
      <4>1. m_session_list'[i] = [m_session_list[i] EXCEPT !.m_last_used = clock]
        BY <2>2, <2>3, <3>2
      <4>2. /\ m_session_list'[i].m_id = m_session_list[i].m_id
            /\ m_session_list'[i].m_user = m_session_list[i].m_user
            /\ m_session_list'[i].m_created = m_session_list[i].m_created
            /\ m_session_list'[i].m_last_used = clock
        BY <3>1, <4>1 DEF Session
      <4>3. i \in DOMAIN m_session_list'
        BY <2>2, <2>3, <2>6
      <4>4. clock \in Nat
        BY <2>3 DEF Time
      <4>. QED BY <3>1, <4>2, <4>3, <4>4 DEF SessionKept
    <3>3. CASE i # k
      BY <2>1, <2>2, <2>3, <2>5, <3>1, <3>3 DEF SessionKept, Session, Time
    <3>. QED BY <3>2, <3>3
  <2>. QED BY <2>5, <2>6
<1>. QED BY <1>1, <1>2

-----------------------------------------------------------------------------

LEMMA InitIInv == Init => IInv
<1>. SUFFICES ASSUME Init PROVE IInv
  OBVIOUS
<1>1. /\ m_session_list = <<>> /\ DOMAIN m_session_list = {}
      /\ cookies = {}
  BY DEF Init
<1>2. TypeOK
  BY <1>1, SessionsAssumption DEF Init, TypeOK, Time
<1>3. Counted
  BY <1>1, FS_EmptySet DEF Counted, Recorded
<1>. QED BY <1>1, <1>2, <1>3 DEF IInv, DistinctIds, Attributed, CookiesIssued, Dated

(* Handing out a fresh id: cookies grows by exactly one. *)
LEMMA HandOutEffect ==
    ASSUME IInv, NEW id \in SessionIds, NEW u \in Users, Fresh(id), HandOut(id, u)
    PROVE  /\ id \notin cookies
           /\ cookies' \in SUBSET SessionIds
           /\ issued' \in [SessionIds -> Users \cup {NoUser}]
           /\ issued'[id] = u /\ u # NoUser
           /\ \A c \in cookies : issued'[c] = issued[c]
           /\ CookiesIssued'
           /\ IsFiniteSet(cookies')
           /\ Cardinality(cookies') = Cardinality(cookies) + 1
<1>1. id \notin cookies
  BY DEF IInv, CookiesIssued, Fresh
<1>2. u # NoUser
  BY SessionsAssumption
<1>3. IsFiniteSet(cookies') /\ Cardinality(cookies') = Cardinality(cookies) + 1
  BY <1>1, FS_AddElement DEF IInv, Counted, HandOut
<1>4. CookiesIssued'
  BY <1>1, <1>2 DEF IInv, TypeOK, HandOut, CookiesIssued
<1>. QED BY <1>1, <1>2, <1>3, <1>4 DEF IInv, TypeOK, HandOut

LEMMA NextIInv == IInv /\ [Next]_vars => IInv'
<1>. SUFFICES ASSUME IInv, [Next]_vars PROVE IInv'
  OBVIOUS
<1>. USE DEF IInv
<1>1. ASSUME NEW id \in SessionIds, NEW u \in Users, CreateInRoom(id, u)
      PROVE  IInv'
  <2> DEFINE s == NewSession(id, u)
             n == Len(m_session_list)
  <2>1. /\ Fresh(id) /\ HandOut(id, u) /\ n < MaxSessions
        /\ m_session_list' = Append(m_session_list, s)
        /\ UNCHANGED <<up, clock, past_end>>
    BY <1>1 DEF CreateInRoom
  <2>2. s \in Session /\ s.m_id = id /\ s.m_user = u /\ s.m_last_used = clock
    BY NewSessionType DEF NewSession
  <2>3. /\ m_session_list' \in Seq(Session)
        /\ DOMAIN m_session_list' = 1..(n + 1)
        /\ DOMAIN m_session_list = 1..n
        /\ n \in Nat
        /\ Len(m_session_list') = n + 1
        /\ m_session_list'[n + 1] = s
        /\ \A i \in 1..n : m_session_list'[i] = m_session_list[i]
    BY <2>1, <2>2 DEF TypeOK
  <2>4. /\ id \notin cookies
        /\ cookies' = cookies \cup {id}
        /\ cookies' \in SUBSET SessionIds
        /\ issued' \in [SessionIds -> Users \cup {NoUser}]
        /\ issued'[id] = u
        /\ \A c \in cookies : issued'[c] = issued[c]
        /\ CookiesIssued'
        /\ IsFiniteSet(cookies')
        /\ Cardinality(cookies') = Cardinality(cookies) + 1
    BY <2>1, HandOutEffect DEF HandOut
  <2>5. TypeOK'
    BY <2>1, <2>3, <2>4, SessionsAssumption DEF TypeOK
  <2>6. DistinctIds'
    BY <2>2, <2>3, <2>4 DEF DistinctIds, Attributed
  <2>7. Attributed'
    BY <2>2, <2>3, <2>4 DEF Attributed
  <2>8. Counted'
    <3>1. Cardinality(cookies) = n /\ Recorded
      <4>1. Len(m_session_list) # MaxSessions
        BY <2>1, SessionsAssumption DEF TypeOK
      <4>. QED BY <4>1 DEF Counted
    <3>2. Recorded'
      BY <2>2, <2>3, <2>4, <3>1 DEF Recorded
    <3>. QED BY <2>3, <2>4, <3>1, <3>2 DEF Counted
  <2>9. Dated'
    BY <2>1, <2>2, <2>3 DEF Dated, TypeOK, Time
  <2>. QED BY <2>4, <2>5, <2>6, <2>7, <2>8, <2>9
<1>2. ASSUME NEW id \in SessionIds, NEW u \in Users, CreatePastEnd(id, u)
      PROVE  IInv'
  <2>1. /\ Fresh(id) /\ HandOut(id, u) /\ Len(m_session_list) >= MaxSessions
        /\ past_end' = NewSession(id, u)
        /\ UNCHANGED <<up, clock, m_session_list>>
    BY <1>2 DEF CreatePastEnd
  <2>2. /\ cookies' = cookies \cup {id}
        /\ cookies' \in SUBSET SessionIds
        /\ issued' \in [SessionIds -> Users \cup {NoUser}]
        /\ \A c \in cookies : issued'[c] = issued[c]
        /\ CookiesIssued'
        /\ IsFiniteSet(cookies')
        /\ Cardinality(cookies') = Cardinality(cookies) + 1
    BY <2>1, HandOutEffect DEF HandOut
  <2>3. TypeOK'
    BY <2>1, <2>2, NewSessionType DEF TypeOK
  <2>4. DistinctIds' /\ Attributed' /\ Dated'
    BY <2>1, <2>2 DEF DistinctIds, Attributed, Dated
  <2>5. Counted'
    <3>1. Len(m_session_list) = MaxSessions
      BY <2>1, SessionsAssumption DEF TypeOK
    <3>2. Cardinality(cookies) \in Nat /\ Cardinality(cookies) >= MaxSessions
      BY <3>1, SessionsAssumption, FS_CardinalityType DEF Counted
    <3>3. Cardinality(cookies') > MaxSessions
      BY <2>2, <3>2, SessionsAssumption
    <3>. QED BY <2>1, <2>2, <3>1, <3>3 DEF Counted
  <2>. QED BY <2>2, <2>3, <2>4, <2>5
<1>3. ASSUME Die PROVE IInv'
  <2>1. /\ m_session_list' = <<>> /\ DOMAIN m_session_list' = {}
        /\ Len(m_session_list') = 0 /\ cookies' = {}
        /\ m_session_list' \in Seq(Session)
    BY <1>3 DEF Die
  <2>2. TypeOK'
    <3>1. /\ up' = FALSE /\ past_end' = Raw /\ clock' = clock /\ issued' = issued
      BY <1>3 DEF Die
    <3>2. Len(m_session_list') <= MaxSessions
      BY <2>1, SessionsAssumption
    <3>. QED BY <2>1, <3>1, <3>2 DEF TypeOK
  <2>3. Counted'
    BY <2>1, FS_EmptySet DEF Counted, Recorded
  <2>. QED BY <2>1, <2>2, <2>3 DEF DistinctIds, Attributed, CookiesIssued, Dated
<1>4. ASSUME NEW id \in SessionIds, GetSession(id)
      PROVE  IInv'
  <2>1. /\ m_session_list' \in Seq(Session)
        /\ Len(m_session_list') = Len(m_session_list)
        /\ \A i \in DOMAIN m_session_list : SessionKept(i)
        /\ \A i \in DOMAIN m_session_list :
             m_session_list'[i].m_last_used <= clock
    BY <1>4, GetSessionEffect
  <2>2. DOMAIN m_session_list' = DOMAIN m_session_list
    BY <2>1 DEF TypeOK
  <2>3. UNCHANGED <<up, clock, past_end, cookies, issued>>
    BY <1>4 DEF GetSession
  <2>4. TypeOK'
    <3>1. m_session_list' \in Seq(Session) /\ Len(m_session_list') <= MaxSessions
      BY <2>1 DEF TypeOK
    <3>. QED BY <2>3, <3>1 DEF TypeOK
  <2>5. DistinctIds' /\ Attributed'
    BY <2>1, <2>2, <2>3 DEF DistinctIds, Attributed, SessionKept
  <2>6. Counted'
    <3>1. Recorded => Recorded'
      BY <2>1, <2>2, <2>3 DEF Recorded, SessionKept
    <3>. QED BY <2>1, <2>3, <3>1 DEF Counted
  <2>. QED BY <2>1, <2>2, <2>3, <2>4, <2>5, <2>6 DEF CookiesIssued, Dated
<1>5. ASSUME Tick PROVE IInv'
  <2>1. /\ clock' = clock + 1 /\ clock < MaxClock
        /\ UNCHANGED <<up, m_session_list, past_end, cookies, issued>>
    BY <1>5 DEF Tick
  <2>2. TypeOK'
    BY <2>1, SessionsAssumption DEF TypeOK, Time
  <2>3. Dated'
    <3>1. ASSUME NEW i \in DOMAIN m_session_list
          PROVE  m_session_list[i].m_last_used \in Nat
      <4>1. m_session_list[i] \in Session
        BY <3>1 DEF TypeOK
      <4>. QED BY <4>1 DEF Session, Time
    <3>. QED BY <2>1, <3>1 DEF Dated, TypeOK, Time
  <2>. QED BY <2>1, <2>2, <2>3
           DEF DistinctIds, Attributed, CookiesIssued, Counted, Recorded
<1>6. ASSUME Restart PROVE IInv'
  BY <1>6 DEF Restart, TypeOK, DistinctIds, Attributed, CookiesIssued,
              Counted, Recorded, Dated
<1>7. ASSUME UNCHANGED vars PROVE IInv'
  BY <1>7 DEF vars, TypeOK, DistinctIds, Attributed, CookiesIssued,
              Counted, Recorded, Dated
<1>. QED
  BY <1>1, <1>2, <1>3, <1>4, <1>5, <1>6, <1>7
     DEF Next, CreateReleasesRaw, Kill

THEOREM Invariance == Spec => []IInv
<1>1. Init => IInv
  BY InitIInv
<1>2. IInv /\ [Next]_vars => IInv'
  BY NextIInv
<1>. QED BY <1>1, <1>2, PTL DEF Spec

(* The variables keep their types, and the vector never outgrows             *)
(* m_max_sessions.                                                         *)
THEOREM TypeCorrect == Spec => []TypeOK
<1>1. IInv => TypeOK
  BY DEF IInv
<1>. QED BY <1>1, Invariance, PTL

(* A request is never taken for another user's, nor for anyone's by a cookie *)
(* of an earlier process: GetSession answers an id with the user this      *)
(* process handed it out to, or not at all.                                *)
THEOREM NoMistakenIdentity == Spec => []AnsweredAsIssued
<1>1. ASSUME IInv, NEW id \in SessionIds, UserOf(id) # NoUser
      PROVE  id \in cookies /\ UserOf(id) = issued[id]
  <2>1. Matching(id) # {}
    BY <1>1 DEF UserOf
  <2>2. /\ FirstMatch(id) \in DOMAIN m_session_list
        /\ m_session_list[FirstMatch(id)].m_id = id
    BY <1>1, <2>1, FirstMatchMatches DEF IInv
  <2>. QED BY <1>1, <2>1, <2>2 DEF UserOf, IInv, Attributed
<1>2. IInv => AnsweredAsIssued
  BY <1>1 DEF AnsweredAsIssued
<1>. QED BY <1>2, Invariance, PTL

(* The logins that found a place are honoured: an id without a session was  *)
(* handed out when the table was full, and none was before MaxSessions     *)
(* others.                                                                 *)
THEOREM PlacesAreHonoured == Spec => []FirstLoginsHonoured
<1>1. ASSUME IInv,
             Cardinality(cookies) <= MaxSessions \/ Len(m_session_list) < MaxSessions,
             NEW id \in cookies
      PROVE  UserOf(id) # NoUser
  <2>1. /\ Cardinality(cookies) \in Nat /\ Len(m_session_list) \in Nat
        /\ MaxSessions \in Nat
    BY <1>1, SessionsAssumption, FS_CardinalityType DEF IInv, TypeOK, Counted
  <2>2. Recorded
    BY <1>1, <2>1 DEF IInv, Counted
  <2>3. Matching(id) # {}
    BY <2>2, <1>1 DEF Recorded, Matching
  <2>4. FirstMatch(id) \in DOMAIN m_session_list
    BY <1>1, <2>3, FirstMatchMatches DEF IInv
  <2>5. m_session_list[FirstMatch(id)] \in Session
    BY <1>1, <2>4 DEF IInv, TypeOK
  <2>. QED BY <2>3, <2>5, SessionsAssumption DEF UserOf, Session
<1>2. IInv => FirstLoginsHonoured
  BY <1>1 DEF FirstLoginsHonoured
<1>. QED BY <1>2, Invariance, PTL

(* No login disturbs a session that is there, and GetSession touches its     *)
(* time of last use only.                                                  *)
THEOREM SessionsAreKept == Spec => SessionsSurvive
<1> DEFINE Kept == up' => \A i \in DOMAIN m_session_list : SessionKept(i)
<1>1. IInv /\ [Next]_vars => [Kept]_vars
  <2>. SUFFICES ASSUME IInv, Next, up', NEW i \in DOMAIN m_session_list
                PROVE  SessionKept(i)
    BY DEF Kept
  <2>1. m_session_list[i] \in Session /\ m_session_list[i].m_last_used \in Nat
    <3>1. m_session_list[i] \in Session
      BY DEF IInv, TypeOK
    <3>. QED BY <3>1 DEF Session, Time
  <2>2. m_session_list' = m_session_list => SessionKept(i)
    BY <2>1 DEF SessionKept
  <2>3. ASSUME NEW id \in SessionIds, NEW u \in Users, CreateInRoom(id, u)
        PROVE  SessionKept(i)
    <3>1. /\ m_session_list' = Append(m_session_list, NewSession(id, u))
          /\ m_session_list \in Seq(Session) /\ NewSession(id, u) \in Session
      BY <2>3, NewSessionType DEF CreateInRoom, IInv, TypeOK
    <3>2. i \in DOMAIN m_session_list' /\ m_session_list'[i] = m_session_list[i]
      BY <3>1
    <3>. QED BY <2>1, <3>2 DEF SessionKept
  <2>4. ASSUME NEW id \in SessionIds, GetSession(id)
        PROVE  SessionKept(i)
    BY <2>4, GetSessionEffect
  <2>. QED
    BY <2>2, <2>3, <2>4
       DEF Next, CreatePastEnd, CreateReleasesRaw, Die, Kill, Tick, Restart
<1>. QED BY <1>1, Invariance, PTL DEF Spec, SessionsSurvive, Kept

-----------------------------------------------------------------------------
(* The table implements AuthTable.                                         *)

Ids == {m_session_list[i].m_id : i \in DOMAIN m_session_list}

(* What an id means: the user of the one session that has it, or nobody. *)
LEMMA UserOfSession ==
    ASSUME IInv
    PROVE  /\ \A i \in DOMAIN m_session_list :
                UserOf(m_session_list[i].m_id) = m_session_list[i].m_user
           /\ \A id : id \notin Ids => UserOf(id) = NoUser
           /\ \A id \in SessionIds : UserOf(id) # NoUser <=> id \in Ids
<1>1. ASSUME NEW i \in DOMAIN m_session_list
      PROVE  /\ UserOf(m_session_list[i].m_id) = m_session_list[i].m_user
             /\ m_session_list[i].m_user # NoUser
  <2> DEFINE id == m_session_list[i].m_id
  <2>1. Matching(id) # {}
    BY <1>1 DEF Matching
  <2> HIDE DEF id
  <2>2. FirstMatch(id) \in DOMAIN m_session_list
        /\ m_session_list[FirstMatch(id)].m_id = id
    BY <2>1, FirstMatchMatches DEF IInv
  <2>3. FirstMatch(id) = i
    BY <1>1, <2>2 DEF IInv, DistinctIds, id
  <2>4. m_session_list[i] \in Session
    BY <1>1 DEF IInv, TypeOK
  <2> QED BY <2>1, <2>3, <2>4, SessionsAssumption DEF UserOf, id, Session
<1>2. ASSUME NEW id, id \notin Ids PROVE UserOf(id) = NoUser
  BY <1>2 DEF UserOf, Matching, Ids
<1> QED BY <1>1, <1>2 DEF Ids

(* The cookies that mean something are as many as there are sessions. *)
LEMMA KnownCounted ==
    ASSUME IInv
    PROVE  Cardinality(Auth!Known) = Len(m_session_list)
<1> DEFINE n == Len(m_session_list)
           f == [i \in 1..n |-> m_session_list[i].m_id]
<1>1. /\ n \in Nat /\ DOMAIN m_session_list = 1..n
      /\ \A i \in 1..n : m_session_list[i].m_id \in SessionIds
  <2>1. m_session_list \in Seq(Session)
    BY DEF IInv, TypeOK
  <2>2. n \in Nat /\ DOMAIN m_session_list = 1..n
    BY <2>1
  <2>3. \A i \in 1..n : m_session_list[i] \in Session
    BY <2>1
  <2> QED BY <2>2, <2>3 DEF Session
<1>2. Auth!Known = Ids
  <2>1. Auth!Known = {id \in SessionIds : UserOf(id) # NoUser}
    BY DEF Auth!Known
  <2>2. Ids \subseteq SessionIds
    BY <1>1 DEF Ids
  <2> QED BY <2>1, <2>2, UserOfSession
<1> HIDE DEF n
<1>3. f \in Bijection(1..n, Ids)
  <2>1. f \in [1..n -> Ids]
    BY <1>1 DEF Ids
  <2>2. \A i, j \in 1..n : f[i] = f[j] => i = j
    BY <1>1 DEF IInv, DistinctIds
  <2>3. \A id \in Ids : \E i \in 1..n : f[i] = id
    BY <1>1 DEF Ids
  <2> QED BY <2>1, <2>2, <2>3 DEF Bijection, Injection, Surjection, IsInjective
<1>4. ExistsBijection(1..n, Ids)
  BY <1>3 DEF ExistsBijection
<1>5. IsFiniteSet(1..n) /\ Cardinality(1..n) = n
  <2>1. 1 \in Int /\ n \in Int /\ (1 > n => n = 0) /\ n - 1 + 1 = n
    BY <1>1
  <2> QED BY <2>1, FS_Interval
<1>6. Cardinality(Ids) = n
  BY <1>4, <1>5, FS_Bijection
<1> QED BY <1>2, <1>6 DEF n

(* A step after which every id means what it did. *)
LEMMA SameMeaning ==
    ASSUME DOMAIN m_session_list' = DOMAIN m_session_list,
           \A i \in DOMAIN m_session_list :
               /\ m_session_list'[i].m_id = m_session_list[i].m_id
               /\ m_session_list'[i].m_user = m_session_list[i].m_user,
           IInv, NEW id
    PROVE  UserOf(id)' = UserOf(id)
<1>1. Matching(id)' = Matching(id)
  BY DEF Matching
<1>2. FirstMatch(id)' = FirstMatch(id)
  BY <1>1 DEF FirstMatch
<1>3. Matching(id) # {} => FirstMatch(id) \in DOMAIN m_session_list
  BY FirstMatchMatches DEF IInv
<1> QED BY <1>1, <1>2, <1>3 DEF UserOf

LEMMA SameTable == ASSUME m_session_list' = m_session_list, NEW id
                   PROVE  UserOf(id)' = UserOf(id)
BY DEF UserOf, FirstMatch, Matching

(* Handing a cookie out draws it, and draws no other. *)
LEMMA DrawnGrows ==
    ASSUME IInv, NEW id \in SessionIds, NEW u \in Users,
           issued' = [issued EXCEPT ![id] = u]
    PROVE  {x \in SessionIds : issued[x] # NoUser}' =
             {x \in SessionIds : issued[x] # NoUser} \cup {id}
<1>1. \A x \in SessionIds : issued'[x] = IF x = id THEN u ELSE issued[x]
  BY DEF IInv, TypeOK
<1>2. u # NoUser
  BY SessionsAssumption
<1>3. \A x \in SessionIds : issued'[x] # NoUser <=> issued[x] # NoUser \/ x = id
  BY <1>1, <1>2
<1> QED BY <1>3

(* AuthTable counts with the Cardinality of its own instance of FiniteSets. *)
LEMMA SameCount == \A S : Auth!Cardinality(S) = Cardinality(S)
BY DEF Auth!Cardinality, Cardinality

(* A login that finds a place is admitted. *)
LEMMA CreateAdmits ==
    ASSUME IInv, NEW id \in SessionIds, NEW u \in Users, CreateInRoom(id, u)
    PROVE  Auth!Admit(id, u)
<1> DEFINE n == Len(m_session_list)
           s == NewSession(id, u)
<1>1. /\ issued[id] = NoUser /\ issued' = [issued EXCEPT ![id] = u]
      /\ n < MaxSessions
      /\ m_session_list' = Append(m_session_list, s)
  BY DEF CreateInRoom, Fresh, HandOut
<1>2. /\ n \in Nat /\ DOMAIN m_session_list = 1..n
      /\ DOMAIN m_session_list' = 1..(n + 1)
      /\ m_session_list'[n + 1] = s
      /\ \A i \in 1..n : m_session_list'[i] = m_session_list[i]
  BY <1>1, NewSessionType DEF IInv, TypeOK
<1>3. s.m_id = id /\ s.m_user = u
  BY DEF NewSession
<1> HIDE DEF n, s
<1>4. id \notin Ids
  BY <1>1 DEF Ids, IInv, Attributed, CookiesIssued
<1>5. UserOf(id)' = u
  <2>1. Matching(id)' = {n + 1}
    BY <1>2, <1>3, <1>4 DEF Matching, Ids
  <2>2. FirstMatch(id)' = n + 1
    BY <1>2, <2>1 DEF FirstMatch
  <2> QED BY <1>2, <1>3, <2>1, <2>2 DEF UserOf
<1>6. ASSUME NEW x \in SessionIds, x # id PROVE UserOf(x)' = UserOf(x)
  <2>1. Matching(x)' = Matching(x)
    BY <1>2, <1>3, <1>6 DEF Matching
  <2>2. FirstMatch(x)' = FirstMatch(x)
    BY <2>1 DEF FirstMatch
  <2>3. Matching(x) # {} => FirstMatch(x) \in 1..n
    BY <1>2, FirstMatchMatches DEF IInv
  <2> QED BY <1>2, <2>1, <2>2, <2>3 DEF UserOf
<1>7. [x \in SessionIds |-> UserOf(x)]' =
        [[x \in SessionIds |-> UserOf(x)] EXCEPT ![id] = u]
  BY <1>5, <1>6
<1>8. {x \in SessionIds : issued[x] # NoUser}' =
        {x \in SessionIds : issued[x] # NoUser} \cup {id}
  BY <1>1, DrawnGrows
<1>9. Cardinality(Auth!Known) < MaxSessions
  BY <1>1, KnownCounted DEF n
<1> QED BY <1>1, <1>7, <1>8, <1>9, SameCount DEF Auth!Admit, Auth!Draw

(* A login into a full table costs a session, its own. *)
LEMMA PastEndDisplaces ==
    ASSUME IInv, NEW id \in SessionIds, NEW u \in Users, CreatePastEnd(id, u)
    PROVE  Auth!Displace(id, u)
<1>1. /\ issued[id] = NoUser /\ issued' = [issued EXCEPT ![id] = u]
      /\ Len(m_session_list) >= MaxSessions
      /\ m_session_list' = m_session_list
  BY DEF CreatePastEnd, Fresh, HandOut
<1>2. Cardinality(Auth!Known) = MaxSessions
  <2>1. Len(m_session_list) = MaxSessions
    BY <1>1, SessionsAssumption DEF IInv, TypeOK
  <2> QED BY <2>1, KnownCounted
<1>3. {x \in SessionIds : issued[x] # NoUser}' =
        {x \in SessionIds : issued[x] # NoUser} \cup {id}
  BY <1>1, DrawnGrows
<1>4. [x \in SessionIds |-> UserOf(x)]' = [x \in SessionIds |-> UserOf(x)]
  BY <1>1, SameTable
<1>5. UserOf(id) = NoUser
  BY <1>1, UserOfSession DEF Ids, IInv, Attributed, CookiesIssued
<1>6. [x \in SessionIds |-> UserOf(x)] =
        [[[x \in SessionIds |-> UserOf(x)] EXCEPT ![id] = u] EXCEPT ![id] = NoUser]
  BY <1>5
<1> QED BY <1>1, <1>2, <1>3, <1>4, <1>6, SameCount DEF Auth!Displace, Auth!Draw

(* The end of the process forgets everything and draws nothing. *)
LEMMA DeathForgets ==
    ASSUME Die
    PROVE  Auth!ForgetAll
<1>1. m_session_list' = <<>> /\ issued' = issued
  BY DEF Die
<1>2. \A id : UserOf(id)' = NoUser
  BY <1>1 DEF UserOf, Matching
<1>3. [x \in SessionIds |-> UserOf(x)]' = [x \in SessionIds |-> NoUser]
  BY <1>2
<1> QED BY <1>1, <1>3 DEF Auth!ForgetAll, Auth!Nobody

(* The table implements AuthTable: a login draws one cookie and gives it a    *)
(* meaning exactly when there is room, the process's end takes all          *)
(* meanings away, and nothing else changes what any cookie means.           *)
LEMMA StepOfAuth == IInv /\ [Next]_vars => [Auth!AuthNext]_Auth!authVars
<1> SUFFICES ASSUME IInv, [Next]_vars PROVE [Auth!AuthNext]_Auth!authVars
  OBVIOUS
<1>1. ASSUME NEW id \in SessionIds, NEW u \in Users, CreateInRoom(id, u)
      PROVE  Auth!AuthNext
  BY <1>1, CreateAdmits DEF Auth!AuthNext
<1>2. ASSUME NEW id \in SessionIds, NEW u \in Users, CreatePastEnd(id, u)
      PROVE  Auth!AuthNext
  BY <1>2, PastEndDisplaces DEF Auth!AuthNext
<1>3. CASE Die
  BY <1>3, DeathForgets DEF Auth!AuthNext
<1>4. ASSUME \A id \in SessionIds : UserOf(id)' = UserOf(id), issued' = issued
      PROVE  UNCHANGED Auth!authVars
  BY <1>4 DEF Auth!authVars
<1>5. ASSUME NEW id \in SessionIds, GetSession(id) PROVE UNCHANGED Auth!authVars
  <2>1. /\ m_session_list' \in Seq(Session)
        /\ Len(m_session_list') = Len(m_session_list)
        /\ \A i \in DOMAIN m_session_list : SessionKept(i)
    BY <1>5, GetSessionEffect
  <2>2. DOMAIN m_session_list' = DOMAIN m_session_list
    BY <2>1 DEF IInv, TypeOK
  <2>3. \A x \in SessionIds : UserOf(x)' = UserOf(x)
    BY <2>1, <2>2, SameMeaning DEF SessionKept
  <2> QED BY <1>4, <1>5, <2>3 DEF GetSession
<1>6. CASE Tick \/ Restart \/ UNCHANGED vars
  <2>1. m_session_list' = m_session_list /\ issued' = issued
    BY <1>6 DEF Tick, Restart, vars
  <2> QED BY <1>4, <2>1, SameTable
<1> QED BY <1>1, <1>2, <1>3, <1>5, <1>6 DEF Next, CreateReleasesRaw, Kill

(* Whatever logins, lookups, crashes and restarts come, the vector behaves as  *)
(* the abstract map from cookies to users.                                  *)
THEOREM TableIsAuthTable == Spec => ImplementsAuthTable
<1>1. Init => Auth!AuthInit
  <2> SUFFICES ASSUME Init PROVE Auth!AuthInit
    OBVIOUS
  <2>1. \A id : UserOf(id) = NoUser
    BY DEF Init, UserOf, Matching
  <2>2. {id \in SessionIds : issued[id] # NoUser} = {}
    BY DEF Init
  <2> QED BY <2>1, <2>2 DEF Auth!AuthInit, Auth!Nobody
<1> QED BY <1>1, StepOfAuth, Invariance, PTL
        DEF Spec, ImplementsAuthTable, Auth!AuthSpec

=============================================================================
