---------------------------- MODULE WebUpdateProofs ----------------------------
(***************************************************************************)
(* Proofs about WebUpdate, for every number of browsers, every set of      *)
(* files, hosts and addresses, and every patience.                         *)
(***************************************************************************)
EXTENDS WebUpdate, FiniteSetTheorems, SequenceTheorems, TLAPS

USE WebAssumption

-----------------------------------------------------------------------------
(* Connections and requests.                                               *)

\* What the backlog contains.
LEMMA ContainsDef ==
    ASSUME NEW q \in Seq(Clients), NEW c
    PROVE  Contains(q, c) <=> \E k \in DOMAIN q : q[k] = c
    BY LenProperties DEF Contains

\* Requests are told apart by their path.
LEMMA RequestsAre ==
    /\ Silence \notin Requests
    /\ \A req \in Requests : req.path \in {"page", "reboot", "update", "store"}
    /\ \A req \in Requests : req.path \in {"update", "store"} => req.file \in Files
    /\ \A req \in Requests : req.path = "reboot" => req = Reboot
    /\ Reboot \in Requests /\ Page(ApIp) \in Requests
<1>1. \A req \in Requests :
        \/ \E host \in Hosts : req = Page(host)
        \/ req = Reboot
        \/ \E path \in {"update", "store"}, file \in Files : req = Post(path, file)
    BY DEF Requests
<1>2. \A host : Page(host).path = "page"
    BY DEF Page
<1>3. Reboot.path = "reboot" /\ Silence.path = "silent"
    BY DEF Reboot, Silence
<1>4. \A path, file : Post(path, file).path = path /\ Post(path, file).file = file
    BY DEF Post
<1>5. Reboot \in Requests /\ Page(ApIp) \in Requests
    BY DEF Requests
<1> QED BY <1>1, <1>2, <1>3, <1>4, <1>5

\* Distinct connections are no more than there are clients.
LEMMA DistinctLength ==
    ASSUME NEW q \in Seq(Clients), NEW T \in SUBSET Clients,
           \A k \in DOMAIN q : q[k] \in T,
           \A j, k \in DOMAIN q : q[j] = q[k] => j = k
    PROVE  Len(q) <= Cardinality(T) /\ Cardinality(T) \in Nat
<1> DEFINE S == 1..Len(q)
<1>1. Len(q) \in Nat /\ DOMAIN q = S
    BY LenProperties
<1>2. IsFiniteSet(T)
    BY FS_Subset
<1>3. IsFiniteSet(S) /\ Cardinality(S) = Len(q)
    BY <1>1, FS_Interval
<1>4. q \in Injection(S, T)
    <2> HIDE DEF S
    <2>1. q \in [S -> T]
        BY <1>1
    <2> QED BY <1>1, <2>1 DEF Injection, IsInjective
<1>5. Cardinality(S) <= Cardinality(T)
    <2> HIDE DEF S
    <2> QED BY <1>2, <1>4, FS_Injection DEF ExistsInjection
<1> QED BY <1>2, <1>3, <1>5, FS_CardinalityType

\* The backlog and the current connection.
LEMMA ConnectionsCount ==
    ASSUME TypeOK, Connected
    PROVE  /\ Len(backlog) <= Cardinality(Clients) /\ Cardinality(Clients) \in Nat
           /\ cur # Nobody => Len(backlog) + 1 <= Cardinality(Clients)
<1>1. backlog \in Seq(Clients) /\ cur \in Clients \cup {Nobody}
    BY DEF TypeOK
<1>2. /\ \A j, k \in DOMAIN backlog : backlog[j] = backlog[k] => j = k
      /\ \A k \in DOMAIN backlog : backlog[k] \in Clients /\ backlog[k] # cur
    BY <1>1, ElementOfSeq, LenProperties DEF Connected
<1>3. Len(backlog) <= Cardinality(Clients) /\ Cardinality(Clients) \in Nat
    BY <1>1, <1>2, DistinctLength
<1>4. ASSUME cur # Nobody PROVE Len(backlog) + 1 <= Cardinality(Clients)
    <2>1. Len(backlog) <= Cardinality(Clients \ {cur}) /\ Cardinality(Clients \ {cur}) \in Nat
        BY <1>1, <1>2, DistinctLength
    <2>2. Cardinality(Clients \ {cur}) = Cardinality(Clients) - 1
        BY <1>1, <1>4, FS_RemoveElement
    <2> QED BY <1>1, <1>3, <2>1, <2>2, LenProperties
<1> QED BY <1>3, <1>4

-----------------------------------------------------------------------------
(* Whom the server looks at.                                               *)

\* The connection that is served: the current one, unless it has been silent too
\* long, and else the first of the backlog.
LEMMA CurrentIs ==
    ASSUME TypeOK, Connected
    PROVE  /\ backlog \in Seq(Clients)
           /\ \A k \in DOMAIN backlog : backlog[k] \in Clients /\ backlog[k] # cur
           /\ Current \in Clients \cup {Nobody}
           /\ Accepts => /\ backlog # <<>> /\ Current \in Clients /\ 1 \in DOMAIN backlog
                         /\ Current = backlog[1] /\ (cur = Nobody \/ dropsIdleClient)
           /\ ~Accepts => Current = Kept
           /\ Kept = IF dropsIdleClient THEN Nobody ELSE cur
           /\ ~Accepts /\ backlog # <<>> => cur # Nobody /\ ~dropsIdleClient
           /\ cur # Nobody /\ Has(cur) => Current = cur /\ ~Accepts /\ ~dropsIdleClient
<1>1. backlog \in Seq(Clients) /\ cur \in Clients \cup {Nobody} /\ Nobody \notin Clients
    BY DEF TypeOK, Nobody
<1>2. \A k \in DOMAIN backlog : backlog[k] \in Clients /\ backlog[k] # cur
    BY <1>1, ElementOfSeq, LenProperties DEF Connected
<1>3. backlog # <<>> => 1 \in DOMAIN backlog /\ Head(backlog) = backlog[1]
    BY <1>1, HeadTailProperties, LenProperties, EmptySeq
<1> QED BY <1>1, <1>2, <1>3 DEF Current, Accepts, Kept, dropsIdleClient

\* What is left in the backlog keeps its order.
LEMMA AcceptKeeps ==
    ASSUME TypeOK, Connected, Accept
    PROVE  /\ backlog' \in Seq(Clients) /\ Len(backlog') <= Len(backlog)
           /\ Accepts => \A k \in DOMAIN backlog' :
                k + 1 \in DOMAIN backlog /\ backlog'[k] = backlog[k + 1]
           /\ ~Accepts => backlog' = backlog
           /\ \A k \in DOMAIN backlog : \/ Accepts /\ k = 1
                                        \/ \E l \in DOMAIN backlog' : backlog'[l] = backlog[k]
<1>1. backlog \in Seq(Clients) /\ Len(backlog) \in Nat /\ DOMAIN backlog = 1..Len(backlog)
    BY LenProperties DEF TypeOK
<1>2. CASE Accepts
    <2>1. backlog' = Tail(backlog) /\ backlog # <<>>
        BY <1>2 DEF Accept, Accepts
    <2>2. /\ backlog' \in Seq(Clients) /\ Len(backlog') = Len(backlog) - 1
          /\ \A k \in 1..Len(backlog') : backlog'[k] = backlog[k + 1]
        BY <1>1, <2>1, HeadTailProperties
    <2>3. DOMAIN backlog' = 1..Len(backlog')
        BY <2>2, LenProperties
    <2>4. ASSUME NEW k \in DOMAIN backlog, k # 1
          PROVE  k - 1 \in DOMAIN backlog' /\ backlog'[k - 1] = backlog[k]
        BY <1>1, <2>2, <2>3, <2>4
    <2> QED BY <1>1, <1>2, <2>2, <2>3, <2>4
<1>3. CASE ~Accepts
    BY <1>1, <1>3 DEF Accept
<1> QED BY <1>2, <1>3

\* The connections stay distinct, and those that are neither dropped nor served
\* stay open.
LEMMA LoopConnected ==
    ASSUME TypeOK, Connected, Accept, cur' \in {Current, Nobody},
           \A c \in Clients : Has(c)' => Has(c) /\ (c = Current => cur' = Current)
    PROVE  Connected'
<1>1. /\ backlog' \in Seq(Clients)
      /\ Accepts => \A k \in DOMAIN backlog' :
                k + 1 \in DOMAIN backlog /\ backlog'[k] = backlog[k + 1]
      /\ ~Accepts => backlog' = backlog
      /\ \A k \in DOMAIN backlog : \/ Accepts /\ k = 1
                                   \/ \E l \in DOMAIN backlog' : backlog'[l] = backlog[k]
    BY AcceptKeeps
<1>2. /\ backlog \in Seq(Clients) /\ DOMAIN backlog' \subseteq Nat /\ DOMAIN backlog \subseteq Nat
      /\ \A j, k \in DOMAIN backlog : backlog[j] = backlog[k] => j = k
      /\ \A k \in DOMAIN backlog : backlog[k] \in Clients /\ backlog[k] # cur
    BY <1>1, CurrentIs, LenProperties DEF Connected
<1>3. \A j, k \in DOMAIN backlog' : backlog'[j] = backlog'[k] => j = k
    BY <1>1, <1>2
<1>4. \A k \in DOMAIN backlog' : backlog'[k] # cur'
    <2>1. Nobody \notin Clients
        BY DEF Nobody
    <2>2. ASSUME NEW k \in DOMAIN backlog' PROVE backlog'[k] # Current /\ backlog'[k] \in Clients
        <3>1. CASE Accepts
            <4>1. k + 1 # 1 /\ k + 1 \in DOMAIN backlog /\ backlog'[k] = backlog[k + 1]
                BY <1>1, <1>2, <3>1
            <4> QED BY <1>2, <3>1, <4>1, CurrentIs
        <3>2. CASE ~Accepts
            <4>1. Current \in {cur, Nobody}
                BY <3>2, CurrentIs
            <4> QED BY <1>1, <1>2, <2>1, <3>2, <4>1
        <3> QED BY <3>1, <3>2
    <2> QED BY <2>1, <2>2
<1>5. ASSUME NEW c \in Clients, Has(c)' PROVE IsOpen(c)'
    <2>1. Has(c) /\ (c = Current => cur' = Current) /\ IsOpen(c)
        BY <1>5 DEF Connected
    <2>2. CASE c = Current
        BY <2>1, <2>2 DEF IsOpen
    <2>3. CASE c # Current
        <3>1. c # cur
            BY <2>1, <2>3, CurrentIs DEF Nobody
        <3>2. PICK k \in DOMAIN backlog : backlog[k] = c
            BY <1>2, <2>1, <3>1, ContainsDef DEF IsOpen
        <3>3. \E l \in DOMAIN backlog' : backlog'[l] = c
            BY <1>1, <2>3, <3>2, CurrentIs
        <3> QED BY <1>1, <3>3, ContainsDef DEF IsOpen
    <2> QED BY <2>2, <2>3
<1> QED BY <1>3, <1>4, <1>5 DEF Connected

-----------------------------------------------------------------------------
(* Each kind of step keeps the invariant: those of browsers ...            *)

\* What browsers do: one of them without a request opens a connection or uses
\* the one it has.
BrowserStep(c) ==
    /\ ~Has(c)
    /\ \E req \in Requests \cup {Silence} : ask' = [ask EXCEPT ![c] = req]
    /\ \/ ~IsOpen(c) /\ backlog' = Append(backlog, c)
       \/ IsOpen(c) /\ backlog' = backlog
    /\ redirected' \subseteq redirected
    /\ answer' = NoAnswer
    /\ UNCHANGED <<cur, idle, waited, flags, storeFlags, part, left, flash, store>>

\* What a browser does is such a step: one without a connection has no request.
LEMMA BrowserSteps ==
    ASSUME Connected, NEW c \in Clients, Open(c) \/ Follow(c) \/ UseSpare(c)
    PROVE  BrowserStep(c)
<1>1. ~IsOpen(c) => ~Has(c)
    BY DEF Connected
<1>2. CASE Open(c)
    BY <1>1, <1>2 DEF Open, Connect, BrowserStep, BrowserRest
<1>3. CASE Follow(c)
    BY <1>1, <1>3, RequestsAre DEF Follow, Connect, BrowserStep, BrowserRest
<1>4. CASE UseSpare(c)
    BY <1>4 DEF UseSpare, BrowserStep, BrowserRest
<1> QED BY <1>2, <1>3, <1>4

\* A new connection is not there yet.
LEMMA BrowserConnected ==
    ASSUME TypeOK, Connected, NEW c \in Clients, BrowserStep(c)
    PROVE  Connected' /\ backlog' \in Seq(Clients)
<1>1. /\ backlog \in Seq(Clients) /\ cur' = cur
      /\ Len(backlog) \in Nat /\ DOMAIN backlog = 1..Len(backlog)
      /\ \A j, k \in DOMAIN backlog : backlog[j] = backlog[k] => j = k
      /\ \A k \in DOMAIN backlog : backlog[k] # cur
    BY LenProperties DEF TypeOK, Connected, BrowserStep
<1>2. \A d \in Clients : Has(d)' => d = c \/ Has(d)
    BY DEF BrowserStep, Has, TypeOK
<1>3. CASE IsOpen(c) /\ backlog' = backlog
    BY <1>1, <1>2, <1>3 DEF Connected, IsOpen
<1>4. CASE ~IsOpen(c) /\ backlog' = Append(backlog, c)
    <2>1. /\ backlog' \in Seq(Clients) /\ DOMAIN backlog' = 1..(Len(backlog) + 1)
          /\ \A k \in 1..Len(backlog) : backlog'[k] = backlog[k]
          /\ backlog'[Len(backlog) + 1] = c
        BY <1>1, <1>4, AppendProperties, LenProperties
    <2>2. c # cur /\ \A k \in DOMAIN backlog : backlog[k] # c
        BY <1>1, <1>4, ContainsDef DEF IsOpen
    <2>3. \A j, k \in DOMAIN backlog' : backlog'[j] = backlog'[k] => j = k
        BY <1>1, <2>1, <2>2
    <2>4. \A k \in DOMAIN backlog' : backlog'[k] # cur'
        BY <1>1, <2>1, <2>2
    <2>5. ASSUME NEW d \in Clients, d = c \/ Has(d) PROVE IsOpen(d)'
        <3>1. d = cur \/ d = c \/ \E k \in DOMAIN backlog : backlog[k] = d
            BY <1>1, <2>5, ContainsDef DEF Connected, IsOpen
        <3>2. d = cur' \/ \E k \in DOMAIN backlog' : backlog'[k] = d
            BY <1>1, <2>1, <3>1
        <3> QED BY <2>1, <3>2, ContainsDef DEF IsOpen
    <2> QED BY <1>2, <2>1, <2>3, <2>4, <2>5 DEF Connected
<1> QED BY <1>3, <1>4 DEF BrowserStep

\* A request that has just come waits no longer than those before it take.
LEMMA FreshIsOnTime ==
    TypeOK /\ Connected =>
        \A k \in DOMAIN backlog :
            /\ Ahead(k) <= (Cardinality(Clients) - 1) * Patience
            /\ Ahead(k) >= 0
<1> SUFFICES ASSUME TypeOK, Connected, NEW k \in DOMAIN backlog
             PROVE  /\ Ahead(k) <= (Cardinality(Clients) - 1) * Patience
                    /\ Ahead(k) >= 0
    OBVIOUS
<1> DEFINE N == Cardinality(Clients)
           L == Len(backlog)
<1>1. /\ L <= N /\ N \in Nat /\ (cur # Nobody => L + 1 <= N)
      /\ L \in Nat /\ DOMAIN backlog = 1..L
    BY ConnectionsCount, LenProperties DEF TypeOK
<1>2. /\ Patience \in Nat /\ CurrentPatience \in 0..Patience
      /\ cur = Nobody => CurrentPatience = 0
    BY DEF TypeOK, Patience, CurrentPatience
<1> HIDE DEF N, L
<1>3. k \in Nat /\ k >= 1 /\ k <= N /\ (cur # Nobody => k + 1 <= N)
    BY <1>1
<1> DEFINE d == N - k
           P == Patience
<1>4. d \in Nat /\ N - 1 = (k - 1) + d /\ P \in Nat
    BY <1>1, <1>2, <1>3
<1> HIDE DEF d
<1>5. (N - 1) * P = (k - 1) * P + d * P /\ d * P \in Nat /\ (k - 1) * P \in Nat
    <2> HIDE DEF P
    <2>1. \A a, b, p \in Nat : (a + b) * p = a * p + b * p /\ a * p \in Nat /\ b * p \in Nat
        OBVIOUS
    <2>2. k - 1 \in Nat
        BY <1>3
    <2> QED BY <1>4, <2>1, <2>2
<1>6. cur # Nobody => d * P >= P
    <2> HIDE DEF P
    <2>1. \A a, p \in Nat : a >= 1 => a * p >= p
        OBVIOUS
    <2>2. cur # Nobody => d >= 1
        BY <1>3, <1>1 DEF d
    <2> QED BY <1>4, <2>1, <2>2
<1>7. Ahead(k) = (k - 1) * P + CurrentPatience
    BY DEF Ahead
<1> HIDE DEF P
<1>8. CurrentPatience \in 0..P /\ (cur = Nobody => CurrentPatience = 0)
    BY <1>2 DEF P
<1>9. (k - 1) * P + CurrentPatience <= (N - 1) * P /\ (k - 1) * P + CurrentPatience >= 0
    <2> DEFINE x == (k - 1) * P
               y == d * P
               z == (N - 1) * P
    <2>1. x \in Nat /\ y \in Nat /\ z = x + y /\ (cur # Nobody => y >= P)
        BY <1>5, <1>6
    <2> HIDE DEF x, y, z
    <2>2. x + CurrentPatience <= z /\ x + CurrentPatience >= 0
        BY <1>4, <1>8, <2>1
    <2> QED BY <2>2 DEF x, z
<1> QED BY <1>7, <1>9 DEF N, P

\* What has been uploaded is nobody else's business.
LEMMA BrowserKeeps ==
    ASSUME WebInv, NEW c \in Clients, BrowserStep(c)
    PROVE  WebInv'
<1>1. TypeOK /\ Connected /\ ThisUpload /\ BootIsVetted /\ AnswerIsTrue /\ OnTime
    BY DEF WebInv
<1>2. /\ Connected' /\ backlog' \in Seq(Clients) /\ ~Has(c) /\ answer' = NoAnswer
      /\ UNCHANGED <<cur, idle, waited, part, left, done, update, target, boot, stored, running>>
      /\ UNCHANGED <<uploading, failed, wrongFile, storeActive, storeOk>>
    BY <1>1, BrowserConnected DEF BrowserStep, flags, storeFlags, flash, store
<1>3. PICK req \in Requests \cup {Silence} : ask' = [ask EXCEPT ![c] = req]
    BY DEF BrowserStep
<1>4. part # "none" => cur # Nobody /\ cur # c /\ ask'[cur] = ask[cur]
    <2>1. part # "none" => ask[cur].path \in {"update", "store"} /\ cur # Nobody /\ cur \in Clients
        BY <1>1 DEF TypeOK
    <2>2. ask[c].path = "silent"
        BY <1>2 DEF Has, Silence
    <2> QED BY <1>1, <1>3, <2>1, <2>2 DEF TypeOK
<1>5. TypeOK'
    <2>1. ask' \in [Clients -> Requests \cup {Silence}]
        BY <1>1, <1>3 DEF TypeOK
    <2>2. redirected' \subseteq Clients
        BY <1>1 DEF TypeOK, BrowserStep
    <2>3. backlog' \in Seq(Clients) /\ Len(backlog') <= Cardinality(Clients)
        <3>1. /\ \A j, k \in DOMAIN backlog' : backlog'[j] = backlog'[k] => j = k
              /\ \A k \in DOMAIN backlog' : backlog'[k] \in Clients
            BY <1>2, ElementOfSeq, LenProperties DEF Connected
        <3> QED BY <1>2, <3>1, DistinctLength
    <2>4. answer'.req \in Requests \cup {Silence}
        BY <1>2 DEF NoAnswer
    <2> QED BY <1>1, <1>2, <1>4, <2>1, <2>2, <2>3, <2>4 DEF TypeOK
<1>6. ThisUpload'
    BY <1>1, <1>2, <1>4 DEF ThisUpload, OfThisUpload, File
<1>7. BootIsVetted'
    BY <1>1, <1>2 DEF BootIsVetted
<1>8. AnswerIsTrue'
    BY <1>2 DEF AnswerIsTrue, NoAnswer, Silence
<1>9. OnTime'
    <2>1. \A k \in DOMAIN backlog' : Ahead(k)' <= (Cardinality(Clients) - 1) * Patience
        <3>1. (TypeOK /\ Connected =>
                \A k \in DOMAIN backlog :
                    /\ Ahead(k) <= (Cardinality(Clients) - 1) * Patience
                    /\ Ahead(k) >= 0)'
            BY FreshIsOnTime, PTL
        <3> QED BY <1>2, <1>5, <3>1 DEF Patience
    <2>2. \A d \in Clients : d # c => Has(d)' = Has(d)
        BY <1>1, <1>3 DEF Has, TypeOK
    <2>3. CurrentPatience' = CurrentPatience
        BY <1>2 DEF CurrentPatience
    <2>4. \A k : Ahead(k)' = Ahead(k)
        BY <2>3 DEF Ahead
    <2>5. waited[c] = 0
        BY <1>1, <1>2 DEF OnTime
    <2>6. ASSUME NEW k \in DOMAIN backlog', Has(backlog[k])'
          PROVE  waited'[backlog'[k]] + Ahead(k)' <= (Cardinality(Clients) - 1) * Patience
        <3>1. CASE backlog'[k] = c
            <4>1. Ahead(k)' <= (Cardinality(Clients) - 1) * Patience /\ waited'[c] = 0
                BY <1>2, <2>1, <2>5, <2>6
            <4>2. Ahead(k)' \in Int
                BY <1>2, <1>5, LenProperties DEF Ahead, CurrentPatience, TypeOK, Patience
            <4> QED BY <3>1, <4>1, <4>2
        <3>2. CASE backlog'[k] # c
            <4>1. k \in DOMAIN backlog /\ backlog'[k] = backlog[k]
                BY <1>1, <3>2, <2>6, AppendProperties, LenProperties DEF BrowserStep, TypeOK
            <4>2. Has(backlog[k])
                <5>1. backlog[k] \in Clients
                    BY <1>1, <4>1, CurrentIs
                <5> QED BY <2>2, <2>6, <3>2, <4>1, <5>1 DEF Has
            <4> QED BY <1>1, <1>2, <2>4, <4>1, <4>2 DEF OnTime
        <3> QED BY <3>1, <3>2
    <2>7. \A d \in Clients : (~Has(d))' \/ d = cur' => waited'[d] = 0
        BY <1>1, <1>2, <2>2, <2>5 DEF OnTime
    <2> QED BY <1>1, <1>2, <2>6, <2>7 DEF OnTime, Patience
<1> QED BY <1>2, <1>5, <1>6, <1>7, <1>8, <1>9 DEF WebInv

-----------------------------------------------------------------------------
(* ... those of the server's loop ...                                      *)

\* What is left of the current connection's patience.
LEMMA PatienceTyped ==
    ASSUME TypeOK
    PROVE  CurrentPatience \in Nat /\ CurrentPatience <= Grace + 2
    BY DEF CurrentPatience, TypeOK

\* An iteration brings every request nearer to its turn by as much as it waits.
LEMMA LoopOnTime ==
    ASSUME TypeOK, Connected, OnTime, part = "none", Accept,
           waited' \in [Clients -> Nat],
           \A c \in Clients : Has(c)' /\ c # cur' => Has(c) /\ waited'[c] = waited[c] + 1,
           \A c \in Clients : (~Has(c))' \/ c = cur' => waited'[c] = 0,
           \A k \in DOMAIN backlog' : backlog'[k] # cur',
           NEW then \in Int, CurrentPatience' = then,
           Accepts => then <= Grace + 2,
           cur # Nobody /\ ~dropsIdleClient => then < CurrentPatience
    PROVE  OnTime'
<1> DEFINE P == Patience
           Bound == (Cardinality(Clients) - 1) * P
<1>1. P = Grace + 3 /\ P \in Nat
    BY DEF Patience
<1>2. /\ DOMAIN backlog \subseteq Nat /\ DOMAIN backlog' \subseteq Nat
      /\ backlog' \in Seq(Clients) /\ \A k \in DOMAIN backlog' : backlog'[k] \in Clients
    <2>1. backlog \in Seq(Clients) /\ backlog' \in Seq(Clients)
        BY AcceptKeeps, CurrentIs
    <2> QED BY <2>1, LenProperties, ElementOfSeq
<1>3. Bound \in Int
    <2>1. Cardinality(Clients) \in Nat
        BY ConnectionsCount
    <2> HIDE DEF P
    <2>2. \A n, p \in Nat : (n - 1) * p \in Int
        OBVIOUS
    <2> QED BY <1>1, <2>1, <2>2
<1>4. PICK now \in Nat : now = CurrentPatience
    BY PatienceTyped
<1>5. \A k \in DOMAIN backlog : Has(backlog[k]) => waited[backlog[k]] + Ahead(k) <= Bound
    BY DEF OnTime
<1> HIDE DEF Bound
<1>6. ASSUME NEW k \in DOMAIN backlog', Has(backlog[k])'
      PROVE  waited'[backlog'[k]] + ((k - 1) * P + then) <= Bound
    <2> DEFINE c == backlog'[k]
    <2>1. c \in Clients /\ Has(c) /\ waited'[c] = waited[c] + 1
        <3>1. c \in Clients /\ c # cur' /\ ask'[c] # Silence
            BY <1>2, <1>6 DEF Has
        <3> QED BY <3>1 DEF Has
    <2>2. waited[c] \in Nat /\ k \in Nat /\ k >= 1
        BY <1>2, <1>6, <2>1, LenProperties DEF OnTime
    <2> HIDE DEF c
    <2>3. CASE Accepts
        <3>1. k + 1 \in DOMAIN backlog /\ backlog[k + 1] = c
            BY <2>3, <1>6, AcceptKeeps DEF c
        <3> DEFINE l == k + 1
                   x == (k - 1) * P
                   y == (l - 1) * P
        <3> HIDE DEF l
        <3>2. Ahead(l) = y + CurrentPatience
            BY DEF Ahead
        <3>3. l - 1 = (k - 1) + 1 /\ k - 1 \in Nat
            BY <2>2 DEF l
        <3>4. y = x + P /\ x \in Int
            <4> HIDE DEF P
            <4>1. \A a, p \in Nat : (a + 1) * p = a * p + p /\ a * p \in Int
                OBVIOUS
            <4>2. ((k - 1) + 1) * P = (k - 1) * P + P /\ (k - 1) * P \in Int
                BY <1>1, <3>3, <4>1
            <4> QED BY <3>3, <4>2
        <3> HIDE DEF x, y
        <3>5. waited[c] + (y + now) <= Bound
            BY <1>4, <1>5, <2>1, <3>1, <3>2 DEF l
        <3>6. then < P
            BY <1>1, <2>3
        <3>7. (waited[c] + 1) + (x + then) <= Bound
            BY <1>1, <1>3, <2>2, <3>4, <3>5, <3>6
        <3> QED BY <2>1, <3>7 DEF c, x
    <2>4. CASE ~Accepts
        <3>1. backlog' = backlog /\ backlog # <<>>
            BY <2>4, <1>6, AcceptKeeps
        <3>2. then + 1 <= now
            <4>1. cur # Nobody /\ ~dropsIdleClient
                BY <2>4, <3>1, CurrentIs
            <4> QED BY <1>4, <4>1
        <3>3. waited[c] + ((k - 1) * P + now) <= Bound
            <4>1. waited[c] + Ahead(k) <= Bound
                BY <1>6, <1>5, <2>1, <3>1 DEF c
            <4>2. Ahead(k) = (k - 1) * P + CurrentPatience
                BY DEF Ahead
            <4> QED BY <1>4, <4>1, <4>2
        <3> DEFINE x == (k - 1) * P
        <3>4. x \in Int
            BY <1>1, <2>2
        <3>5. waited[c] + (x + now) <= Bound
            BY <3>3
        <3> HIDE DEF x
        <3>6. (waited[c] + 1) + (x + then) <= Bound
            BY <1>3, <2>2, <3>2, <3>4, <3>5
        <3> QED BY <2>1, <3>6 DEF c, x
    <2> QED BY <2>3, <2>4
<1> QED BY <1>6 DEF OnTime, Ahead, Bound, Patience

\* Nothing of an upload is there between two uploads, and nothing changes.
LEMMA LoopThisUpload ==
    ASSUME ThisUpload, part = "none", part' \in {"none", "start"}, ~done,
           part' = "start" => answer' = NoAnswer,
           UNCHANGED <<flags, storeFlags, flash, store>>
    PROVE  ThisUpload'
<1>1. /\ UNCHANGED <<uploading, failed, wrongFile, done, storeActive, storeOk>>
      /\ UNCHANGED <<update, running, boot, target, stored>>
    BY DEF flags, storeFlags, flash, store
<1> QED BY <1>1 DEF ThisUpload, OfThisUpload

\* The types, too.
LEMMA LoopTyped ==
    ASSUME TypeOK, Connected, Accept, cur' \in Clients \cup {Nobody}, idle' \in 0..(Grace + 1),
           ask' \in [Clients -> Requests \cup {Silence}], redirected' \subseteq Clients,
           part' \in {"none", "start", "data", "done"}, left' \in 0..Chunks,
           part' # "none" => cur' # Nobody /\ ask'[cur'].path \in {"update", "store"},
           answer'.req \in Requests \cup {Silence},
           UNCHANGED <<flags, storeFlags, flash, store>>
    PROVE  TypeOK'
<1>1. backlog' \in Seq(Clients) /\ Len(backlog') <= Len(backlog) /\ Len(backlog) \in Nat
    BY AcceptKeeps, LenProperties DEF TypeOK
<1>2. Len(backlog') <= Cardinality(Clients)
    BY <1>1, ConnectionsCount, LenProperties
<1>3. /\ UNCHANGED <<uploading, failed, wrongFile, done, storeActive, storeOk>>
      /\ UNCHANGED <<update, running, boot, target, stored>>
    BY DEF flags, storeFlags, flash, store
<1> QED BY <1>1, <1>2, <1>3 DEF TypeOK

\* How long requests have waited after one more iteration.
LEMMA WaitingIs ==
    ASSUME TypeOK, Connected, OnTime
    PROVE  /\ Waiting \in [Clients -> Nat]
           /\ \A c \in Clients : Has(c) => Waiting[c] = waited[c] + 1
           /\ \A c \in Clients : ~Has(c) => Waiting[c] = 0
    BY DEF Waiting, OnTime, Connected

\* A connection that has not sent anything is waited for, or dropped.
LEMMA WaitKeeps ==
    ASSUME WebInv, part = "none", ~done, Accept, Wait,
           UNCHANGED <<flags, storeFlags, flash, store>>
    PROVE  WebInv'
<1>1. TypeOK /\ Connected /\ ThisUpload /\ BootIsVetted /\ AnswerIsTrue /\ OnTime
    BY DEF WebInv
<1>2. /\ cur' = Current /\ Current \in Clients \cup {Nobody} /\ Nobody \notin Clients
      /\ (Current \in Clients => ~Has(Current))
      /\ idle' = IF Accepts \/ Current = Nobody THEN 0 ELSE idle + 1
      /\ answer' = NoAnswer /\ UNCHANGED <<redirected, part, left>>
    BY <1>1, CurrentIs DEF Wait, Nobody
<1>3. /\ ask' \in [Clients -> Requests \cup {Silence}]
      /\ \A c \in Clients : Has(c)' => Has(c) /\ c # Current
      /\ \A c \in Clients : Has(c) => Has(c)'
      /\ waited' \in [Clients -> Nat]
      /\ \A c \in Clients : Has(c) => waited'[c] = waited[c] + 1
      /\ \A c \in Clients : ~Has(c) => waited'[c] = 0
    <2>1. CASE dropsIdleClient /\ Forget(cur)
        <3>1. cur \in Clients /\ ~Has(cur)
            BY <1>1, <2>1 DEF dropsIdleClient, TypeOK
        <3> QED BY <1>1, <1>2, <2>1, <3>1, WaitingIs DEF Forget, TypeOK, Has
    <2>2. CASE waited' = Waiting /\ UNCHANGED ask
        BY <1>1, <1>2, <2>2, WaitingIs DEF TypeOK, Has
    <2> QED BY <2>1, <2>2 DEF Wait
<1>4. ~Accepts /\ Current # Nobody => cur = Current /\ ~dropsIdleClient /\ idle \in 0..Grace
    <2> SUFFICES ASSUME ~Accepts, Current # Nobody
                 PROVE  cur = Current /\ ~dropsIdleClient /\ idle \in 0..Grace
        OBVIOUS
    <2>1. cur = Current /\ ~dropsIdleClient
        BY <1>1, CurrentIs
    <2>2. ~Has(cur) /\ cur # Nobody
        BY <1>2, <2>1
    <2> QED BY <1>1, <2>1, <2>2 DEF dropsIdleClient, TypeOK
<1>5. idle' \in 0..(Grace + 1)
    BY <1>1, <1>2, <1>4 DEF TypeOK
<1>6. TypeOK'
    <2>1. answer'.req \in Requests \cup {Silence}
        BY <1>2 DEF NoAnswer
    <2> QED BY <1>1, <1>2, <1>3, <1>5, <2>1, LoopTyped DEF TypeOK
<1>7. Connected'
    BY <1>1, <1>2, <1>3, LoopConnected
<1>8. ThisUpload'
    BY <1>1, <1>2, LoopThisUpload
<1>9. BootIsVetted' /\ AnswerIsTrue'
    BY <1>1, <1>2 DEF BootIsVetted, AnswerIsTrue, NoAnswer, Silence, flash
<1>10. OnTime'
    <2> DEFINE then == IF cur' # Nobody THEN Grace + 2 - idle' ELSE 0
    <2>1. CurrentPatience' = then /\ then \in Int
        BY <1>2, <1>5 DEF CurrentPatience
    <2>2. Accepts => then <= Grace + 2
        BY <1>2
    <2>3. cur # Nobody /\ ~dropsIdleClient => then < CurrentPatience
        <3> SUFFICES ASSUME cur # Nobody, ~dropsIdleClient PROVE then < CurrentPatience
            OBVIOUS
        <3>1. ~Accepts /\ Current = cur
            BY <1>1, CurrentIs
        <3>2. idle' = idle + 1 /\ cur' = cur
            BY <1>2, <3>1
        <3> QED BY <1>1, <3>2 DEF CurrentPatience, TypeOK
    <2> HIDE DEF then
    <2>4. \A k \in DOMAIN backlog' : backlog'[k] # cur'
        BY <1>7 DEF Connected
    <2>5. \A c \in Clients : Has(c)' /\ c # cur' => Has(c) /\ waited'[c] = waited[c] + 1
        BY <1>3
    <2>6. \A c \in Clients : (~Has(c))' \/ c = cur' => waited'[c] = 0
        BY <1>2, <1>3
    <2> QED BY <1>1, <1>3, <2>1, <2>2, <2>3, <2>4, <2>5, <2>6, LoopOnTime
<1> QED BY <1>6, <1>7, <1>8, <1>9, <1>10 DEF WebInv

\* A page or a redirect is answered.
LEMMA RootKeeps ==
    ASSUME WebInv, part = "none", ~done, Accept, Current # Nobody, idle' = 0, handleRoot,
           UNCHANGED <<flags, storeFlags, flash, store>>
    PROVE  WebInv'
<1>1. TypeOK /\ Connected /\ ThisUpload /\ BootIsVetted /\ AnswerIsTrue /\ OnTime
    BY DEF WebInv
<1>2. /\ Current \in Clients /\ Nobody \notin Clients /\ cur' = Nobody
      /\ ask[Current] \in Requests \cup {Silence} /\ ask[Current].path = "page"
      /\ UNCHANGED <<part, left>>
    BY <1>1, CurrentIs DEF handleRoot, Nobody, TypeOK
<1>3. /\ answer'.req = ask[Current] /\ answer'.status \in {"page", "redirect"}
      /\ redirected' \subseteq redirected \cup {Current}
    BY DEF handleRoot, captiveRedirect, Reply
<1>4. /\ ask' \in [Clients -> Requests \cup {Silence}]
      /\ \A c \in Clients : Has(c)' => Has(c) /\ c # Current
      /\ waited' \in [Clients -> Nat]
      /\ \A c \in Clients : Has(c)' => waited'[c] = waited[c] + 1
      /\ \A c \in Clients : (~Has(c))' => waited'[c] = 0
    BY <1>1, <1>2, WaitingIs DEF handleRoot, Forget, TypeOK, Has
<1>5. TypeOK'
    <2>1. /\ redirected' \subseteq Clients /\ 0 \in 0..(Grace + 1) /\ left' \in 0..Chunks
          /\ part' = "none" /\ cur' \in Clients \cup {Nobody} /\ answer'.req \in Requests \cup {Silence}
        BY <1>1, <1>2, <1>3 DEF TypeOK
    <2> QED BY <1>1, <1>4, <2>1, LoopTyped
<1>6. Connected'
    BY <1>1, <1>2, <1>4, LoopConnected
<1>7. ThisUpload'
    BY <1>1, <1>2, LoopThisUpload
<1>8. BootIsVetted' /\ AnswerIsTrue'
    BY <1>1, <1>2, <1>3 DEF BootIsVetted, AnswerIsTrue, flash
<1>9. OnTime'
    <2>1. CurrentPatience' = 0
        BY <1>2 DEF CurrentPatience
    <2>2. cur # Nobody /\ ~dropsIdleClient => 0 < CurrentPatience
        BY <1>1 DEF CurrentPatience, TypeOK
    <2>3. \A k \in DOMAIN backlog' : backlog'[k] # cur'
        BY <1>6 DEF Connected
    <2>4. \A c \in Clients : Has(c)' /\ c # cur' => Has(c) /\ waited'[c] = waited[c] + 1
        BY <1>4
    <2>5. \A c \in Clients : (~Has(c))' \/ c = cur' => waited'[c] = 0
        BY <1>2, <1>4
    <2> QED BY <1>1, <1>4, <2>1, <2>2, <2>3, <2>4, <2>5, 0 \in Int, 0 <= Grace + 2, LoopOnTime
<1> QED BY <1>5, <1>6, <1>7, <1>8, <1>9 DEF WebInv

\* The server begins to hand over an upload.
LEMMA ReceiveKeeps ==
    ASSUME WebInv, part = "none", ~done, Accept, Current # Nobody, idle' = 0, Receive,
           UNCHANGED <<flags, storeFlags, flash, store>>
    PROVE  WebInv'
<1>1. TypeOK /\ Connected /\ ThisUpload /\ BootIsVetted /\ AnswerIsTrue /\ OnTime
    BY DEF WebInv
<1>2. /\ Current \in Clients /\ Nobody \notin Clients /\ cur' = Current
      /\ ask[Current].path \in {"update", "store"}
      /\ part' = "start" /\ left' = Chunks /\ answer' = NoAnswer
      /\ UNCHANGED <<ask, redirected>>
    BY <1>1, CurrentIs DEF Receive, Nobody
<1>3. waited' = [Waiting EXCEPT ![Current] = 0]
    BY DEF Receive
<1>4. /\ waited' \in [Clients -> Nat]
      /\ \A c \in Clients : Has(c) /\ c # Current => waited'[c] = waited[c] + 1
      /\ \A c \in Clients : ~Has(c) \/ c = Current => waited'[c] = 0
    BY <1>1, <1>3, WaitingIs
<1>5. TypeOK'
    <2>1. answer'.req \in Requests \cup {Silence}
        BY <1>2 DEF NoAnswer
    <2>2. /\ redirected' \subseteq Clients /\ 0 \in 0..(Grace + 1) /\ left' \in 0..Chunks
          /\ ask' \in [Clients -> Requests \cup {Silence}]
        BY <1>1, <1>2 DEF TypeOK
    <2>3. /\ cur' \in Clients \cup {Nobody} /\ cur' # Nobody /\ part' = "start"
          /\ ask'[cur'].path \in {"update", "store"}
        BY <1>2
    <2> QED BY <1>1, <2>1, <2>2, <2>3, LoopTyped
<1>6. Connected'
    BY <1>1, <1>2, LoopConnected DEF Has
<1>7. ThisUpload'
    BY <1>1, <1>2, LoopThisUpload
<1>8. BootIsVetted' /\ AnswerIsTrue'
    BY <1>1, <1>2 DEF BootIsVetted, AnswerIsTrue, NoAnswer, Silence, flash
<1>9. OnTime'
    <2>1. CurrentPatience' = 0
        BY <1>2 DEF CurrentPatience
    <2>2. cur # Nobody /\ ~dropsIdleClient => 0 < CurrentPatience
        BY <1>1 DEF CurrentPatience, TypeOK
    <2>3. \A k \in DOMAIN backlog' : backlog'[k] # cur'
        BY <1>6 DEF Connected
    <2>4. \A c \in Clients : Has(c)' /\ c # cur' => Has(c) /\ waited'[c] = waited[c] + 1
        BY <1>2, <1>4 DEF Has
    <2>5. \A c \in Clients : (~Has(c))' \/ c = cur' => waited'[c] = 0
        BY <1>2, <1>4 DEF Has
    <2> QED BY <1>1, <1>4, <2>1, <2>2, <2>3, <2>4, <2>5, 0 \in Int, 0 <= Grace + 2, LoopOnTime
<1> QED BY <1>5, <1>6, <1>7, <1>8, <1>9 DEF WebInv

-----------------------------------------------------------------------------
(* ... those of an upload ...                                              *)

\* What the library and the hooks can have open.
Uploads == {Closed} \cup [open : {TRUE}, file : Files, len : 0..Chunks]

\* An upload that is written to.
LEMMA UploadsAre ==
    /\ Closed \in Uploads /\ Closed.open = FALSE
    /\ \A file \in Files : Opened(file) \in Uploads /\ Opened(file).open = TRUE
                           /\ Opened(file).file = file /\ Opened(file).len = 0
    /\ \A u \in Uploads : u.open = TRUE => u \in [open : {TRUE}, file : Files, len : 0..Chunks]
    /\ \A u \in Uploads : u.open \in BOOLEAN /\ (u.open => u.len \in Nat)
<1>1. Closed \in Uploads /\ Closed.open = FALSE
    BY DEF Uploads, Closed
<1>2. ASSUME NEW file \in Files
      PROVE  /\ Opened(file) \in Uploads /\ Opened(file).open = TRUE
             /\ Opened(file).file = file /\ Opened(file).len = 0
    BY DEF Uploads, Opened
<1>3. ASSUME NEW u \in Uploads
      PROVE  u = Closed \/ u \in [open : {TRUE}, file : Files, len : 0..Chunks]
    BY DEF Uploads
<1>4. \A u \in [open : {TRUE}, file : Files, len : 0..Chunks] : u.open = TRUE /\ u.len \in 0..Chunks
    OBVIOUS
<1>5. \A n \in 0..Chunks : n \in Nat
    OBVIOUS
<1> QED BY <1>1, <1>2, <1>3, <1>4, <1>5

\* While an upload is handed over its client is served.
LEMMA Uploader ==
    ASSUME TypeOK, Connected, part # "none"
    PROVE  /\ cur \in Clients /\ Has(cur) /\ cur # Nobody /\ Nobody \notin Clients
           /\ ask[cur] \in Requests /\ ask[cur].path \in {"update", "store"} /\ File \in Files
           /\ Current = cur /\ ~Accepts
<1>1. /\ cur \in Clients /\ cur # Nobody /\ ask[cur] \in Requests \cup {Silence}
      /\ ask[cur].path \in {"update", "store"}
    BY DEF TypeOK
<1>2. ask[cur] \in Requests /\ Has(cur)
    BY <1>1 DEF Silence, Has
<1> QED BY <1>1, <1>2, RequestsAre, CurrentIs DEF File, Nobody

\* What the server does while it hands an upload over.
LEMMA ServerWaits ==
    ASSUME WebInv, part # "none", part' # "none", UNCHANGED <<server, answer>>
    PROVE  /\ Connected' /\ OnTime' /\ AnswerIsTrue'
           /\ File' = File /\ UNCHANGED <<cur, ask, backlog, idle, redirected, waited>>
<1>1. Connected /\ OnTime /\ answer' = NoAnswer
    BY DEF WebInv, ThisUpload
<1>2. UNCHANGED <<cur, ask, backlog, idle, redirected, waited>>
    BY DEF server, conns
<1>3. Connected'
    BY <1>1, <1>2 DEF Connected, Has, IsOpen
<1>4. OnTime'
    <2>1. CurrentPatience' = CurrentPatience
        BY <1>2 DEF CurrentPatience
    <2>2. \A k : Ahead(k)' = Ahead(k)
        BY <2>1 DEF Ahead
    <2> QED BY <1>1, <1>2, <2>2 DEF OnTime, Has, Patience
<1>5. AnswerIsTrue'
    BY <1>1 DEF AnswerIsTrue, NoAnswer, Silence
<1> QED BY <1>2, <1>3, <1>4, <1>5 DEF File

\* The first piece of a file.
LEMMA StartKeeps ==
    ASSUME WebInv, Start
    PROVE  WebInv'
<1>1. TypeOK /\ Connected /\ ThisUpload /\ BootIsVetted
    BY DEF WebInv
<1>2. /\ part = "start" /\ part' = "data" /\ left' = left
      /\ UNCHANGED <<server, answer>> /\ (UploadStart \/ StoreStart)
    BY DEF Start, server, conns
<1>3. /\ Connected' /\ OnTime' /\ AnswerIsTrue'
      /\ File' = File /\ UNCHANGED <<cur, ask, backlog, idle, redirected, waited>>
    BY <1>2, ServerWaits
<1>4. /\ cur \in Clients /\ ask[cur].path \in {"update", "store"} /\ File \in Files /\ cur # Nobody
    BY <1>1, <1>2, Uploader
<1>5. update \in Uploads /\ target \in Uploads
    BY <1>1 DEF TypeOK, Uploads
<1>6. ~update.open /\ ~target.open /\ ~storeActive /\ ~done /\ boot = running
    BY <1>1, <1>2 DEF ThisUpload, OfThisUpload
<1>7. CASE UploadStart
    <2>1. /\ ask[cur].path = "update" /\ UNCHANGED <<storeActive, storeOk, target, stored>>
          /\ uploading' = TRUE /\ UNCHANGED <<done, running, boot>>
        BY <1>7 DEF UploadStart, ToFlash, storeFlags, store
    <2>2. \/ ~File.named /\ failed' = TRUE /\ wrongFile' = TRUE /\ update' = update
          \/ File.named /\ failed' = FALSE /\ wrongFile' = FALSE /\ update' = Opened(File)
          \/ File.named /\ failed' = TRUE /\ wrongFile' = FALSE /\ update' = update
        BY <1>7 DEF UploadStart, StartFlags, FitsName
    <2>3. update' \in Uploads /\ (update'.open => update' = Opened(File))
        BY <1>4, <1>5, <1>6, <2>2, UploadsAre
    <2>4. TypeOK'
        <3>1. {failed', wrongFile'} \subseteq BOOLEAN
            BY <2>2
        <3> QED BY <1>1, <1>2, <1>3, <1>4, <2>1, <2>3, <3>1 DEF TypeOK, Uploads
    <2>5. ThisUpload'
        <3>1. OfThisUpload(update)'
            BY <1>1, <1>2, <1>3, <1>4, <2>3, UploadsAre DEF OfThisUpload, TypeOK
        <3>2. OfThisUpload(target)' /\ (storeActive <=> target.open)'
            BY <1>1, <1>6, <2>1 DEF OfThisUpload, ThisUpload
        <3>3. (update.open => ask[cur].path = "update" /\ ~failed /\ ~wrongFile)'
            BY <1>3, <1>6, <2>1, <2>2
        <3>4. part' = "data" /\ ~done' /\ boot' = running' /\ (wrongFile' <=> ~File.named)
            BY <1>2, <1>6, <2>1, <2>2
        <3>5. answer' = NoAnswer /\ ~target'.open /\ ask'[cur'].path = "update"
            BY <1>1, <1>2, <1>3, <1>6, <2>1 DEF ThisUpload
        <3> QED BY <1>3, <3>1, <3>2, <3>3, <3>4, <3>5 DEF ThisUpload
    <2>6. BootIsVetted'
        BY <1>1, <2>1 DEF BootIsVetted
    <2> QED BY <1>3, <2>4, <2>5, <2>6 DEF WebInv
<1>8. CASE StoreStart
    <2>1. /\ ask[cur].path = "store" /\ UNCHANGED <<failed, wrongFile, done, update, running, boot>>
          /\ uploading' = TRUE /\ storeOk' = FALSE /\ stored' = stored
          /\ \/ storeActive' = TRUE /\ target' = Opened(File)
             \/ storeActive' = FALSE /\ target' = target
        BY <1>8 DEF StoreStart, ToStore, flash
    <2>2. target' \in Uploads /\ (target'.open <=> storeActive') /\ (target'.open => target' = Opened(File))
        BY <1>4, <1>5, <1>6, <2>1, UploadsAre
    <2>3. TypeOK'
        <3>1. {storeActive', storeOk'} \subseteq BOOLEAN
            BY <2>1
        <3> QED BY <1>1, <1>2, <1>3, <1>4, <2>1, <2>2, <3>1 DEF TypeOK, Uploads
    <2>4. ThisUpload'
        <3>1. OfThisUpload(target)'
            BY <1>1, <1>2, <1>3, <1>4, <2>2, UploadsAre DEF OfThisUpload, TypeOK
        <3>2. OfThisUpload(update)' /\ ~update'.open
            BY <1>6, <2>1 DEF OfThisUpload
        <3>3. part' = "data" /\ ~done' /\ boot' = running'
            BY <1>2, <1>6, <2>1
        <3>4. answer' = NoAnswer /\ ask'[cur'].path = "store" /\ ~storeOk'
            BY <1>1, <1>2, <1>3, <2>1 DEF ThisUpload
        <3> QED BY <1>3, <2>2, <3>1, <3>2, <3>3, <3>4 DEF ThisUpload
    <2>5. BootIsVetted'
        BY <1>1, <2>1 DEF BootIsVetted
    <2> QED BY <1>3, <2>3, <2>4, <2>5 DEF WebInv
<1> QED BY <1>2, <1>7, <1>8

\* One piece more.
LEMMA LongerIs ==
    ASSUME NEW u \in Uploads, u.open, NEW rest \in 1..Chunks, u.len + rest <= Chunks
    PROVE  LET v == [u EXCEPT !.len = @ + 1]
           IN  v \in Uploads /\ v.open = TRUE /\ v.file = u.file /\ v.len = u.len + 1
<1>1. u \in [open : {TRUE}, file : Files, len : 0..Chunks]
    BY UploadsAre
<1> DEFINE v == [u EXCEPT !.len = @ + 1]
<1>2. v.open = TRUE /\ v.file = u.file /\ v.len = u.len + 1 /\ u.len + 1 \in 0..Chunks
    BY <1>1
<1>3. v \in [open : {TRUE}, file : Files, len : 0..Chunks]
    BY <1>1, <1>2
<1> QED BY <1>2, <1>3 DEF Uploads

\* Another piece of a file.
LEMMA WriteKeeps ==
    ASSUME WebInv, Write
    PROVE  WebInv'
<1>1. TypeOK /\ Connected /\ ThisUpload /\ BootIsVetted
    BY DEF WebInv
<1>2. /\ part = "data" /\ part' = "data" /\ left > 0 /\ left' = left - 1
      /\ UNCHANGED <<server, answer>> /\ (UploadWrite \/ StoreWrite)
    BY DEF Write
<1>3. /\ Connected' /\ OnTime' /\ AnswerIsTrue'
      /\ File' = File /\ UNCHANGED <<cur, ask, backlog, idle, redirected, waited>>
    BY <1>2, ServerWaits
<1>4. /\ cur \in Clients /\ ask[cur].path \in {"update", "store"} /\ File \in Files /\ cur # Nobody
    BY <1>1, <1>2, Uploader
<1>5. /\ update \in Uploads /\ target \in Uploads /\ left \in 1..Chunks /\ left' \in 0..Chunks
    <2>1. left \in 0..Chunks /\ update \in Uploads /\ target \in Uploads
        BY <1>1 DEF TypeOK, Uploads
    <2> QED BY <1>2, <2>1
<1>6. /\ update.open => update.file = File /\ update.len + left <= Chunks
      /\ target.open => target.file = File /\ target.len + left <= Chunks
      /\ update.open => ask[cur].path = "update" /\ ~failed /\ ~wrongFile
      /\ target.open => ask[cur].path = "store"
      /\ storeActive <=> target.open
      /\ ask[cur].path = "update" => (wrongFile <=> ~File.named)
      /\ ask[cur].path = "store" /\ storeOk => stored = File
      /\ answer = NoAnswer /\ ~done /\ boot = running
    BY <1>1, <1>2 DEF ThisUpload, OfThisUpload
<1>7. ASSUME NEW u \in Uploads, u.open => u.file = File /\ u.len + left <= Chunks
      PROVE  u.open => u.len + left' <= Chunks
    <2> SUFFICES ASSUME u.open PROVE u.len + left' <= Chunks
        OBVIOUS
    <2>1. u.len \in Nat
        BY UploadsAre
    <2> QED BY <1>2, <1>5, <1>7, <2>1
<1>8. CASE UploadWrite
    <2>1. /\ ask[cur].path = "update" /\ UNCHANGED <<storeActive, storeOk, target, stored>>
          /\ UNCHANGED <<uploading, wrongFile, done, running, boot>>
          /\ \/ ~failed /\ update.open /\ update' = [update EXCEPT !.len = @ + 1] /\ failed' = failed
             \/ failed' = TRUE /\ update' = Closed
             \/ failed /\ failed' = failed /\ update' = update
        BY <1>8 DEF UploadWrite, ToFlash, storeFlags, store
    <2>2. /\ update' \in Uploads /\ failed' \in BOOLEAN
          /\ (update'.open => update'.file = File /\ update'.len + left' <= Chunks /\ ~failed' /\ ~wrongFile)
        <3>1. CASE ~failed /\ update.open /\ update' = [update EXCEPT !.len = @ + 1] /\ failed' = failed
            <4>1. /\ update' \in Uploads /\ update'.file = update.file /\ update'.len = update.len + 1
                BY <1>5, <1>6, <3>1, LongerIs
            <4>2. update.len \in Nat
                BY <1>5, <3>1, UploadsAre
            <4> QED BY <1>1, <1>2, <1>5, <1>6, <3>1, <4>1, <4>2 DEF TypeOK
        <3>2. CASE failed' = TRUE /\ update' = Closed
            BY <3>2, UploadsAre
        <3>3. CASE failed /\ failed' = failed /\ update' = update
            BY <1>1, <1>5, <1>6, <3>3 DEF TypeOK
        <3> QED BY <2>1, <3>1, <3>2, <3>3
    <2>3. TypeOK'
        <3>1. {failed'} \subseteq BOOLEAN
            BY <2>2
        <3> QED BY <1>1, <1>2, <1>3, <1>4, <1>5, <2>1, <2>2, <3>1 DEF TypeOK, Uploads
    <2>4. ThisUpload'
        <3>1. ~target.open
            BY <1>6, <2>1
        <3> QED BY <1>2, <1>3, <1>6, <2>1, <2>2, <3>1 DEF ThisUpload, OfThisUpload
    <2>5. BootIsVetted'
        BY <1>1, <2>1 DEF BootIsVetted
    <2> QED BY <1>3, <2>3, <2>4, <2>5 DEF WebInv
<1>9. CASE StoreWrite
    <2>1. /\ ask[cur].path = "store" /\ UNCHANGED <<failed, wrongFile, done, update, running, boot>>
          /\ UNCHANGED <<uploading, storeOk, stored>>
          /\ \/ storeActive /\ target' = [target EXCEPT !.len = @ + 1] /\ storeActive' = storeActive
             \/ storeActive' = FALSE /\ target' = Closed
             \/ ~storeActive /\ target' = target /\ storeActive' = storeActive
        BY <1>9 DEF StoreWrite, ToStore, flash, Discard
    <2>2. /\ target' \in Uploads /\ storeActive' \in BOOLEAN /\ (storeActive' <=> target'.open)
          /\ (target'.open => target'.file = File /\ target'.len + left' <= Chunks)
        <3>1. CASE storeActive /\ target' = [target EXCEPT !.len = @ + 1] /\ storeActive' = storeActive
            <4>1. /\ target' \in Uploads /\ target'.file = target.file /\ target'.len = target.len + 1
                  /\ target'.open = TRUE
                BY <1>5, <1>6, <3>1, LongerIs
            <4>2. target.len \in Nat
                BY <1>5, <1>6, <3>1, UploadsAre
            <4> QED BY <1>1, <1>2, <1>5, <1>6, <3>1, <4>1, <4>2 DEF TypeOK
        <3>2. CASE storeActive' = FALSE /\ target' = Closed
            BY <3>2, UploadsAre
        <3>3. CASE ~storeActive /\ target' = target /\ storeActive' = storeActive
            BY <1>1, <1>5, <1>6, <3>3 DEF TypeOK
        <3> QED BY <2>1, <3>1, <3>2, <3>3
    <2>3. TypeOK'
        <3>1. {storeActive'} \subseteq BOOLEAN
            BY <2>2
        <3> QED BY <1>1, <1>2, <1>3, <1>4, <1>5, <2>1, <2>2, <3>1 DEF TypeOK, Uploads
    <2>4. ThisUpload'
        <3>1. ~update.open
            BY <1>6, <2>1
        <3> QED BY <1>2, <1>3, <1>6, <2>1, <2>2, <3>1 DEF ThisUpload, OfThisUpload
    <2>5. BootIsVetted'
        BY <1>1, <2>1 DEF BootIsVetted
    <2> QED BY <1>3, <2>3, <2>4, <2>5 DEF WebInv
<1> QED BY <1>2, <1>8, <1>9

\* The whole file has been handed over.
LEMMA EndKeeps ==
    ASSUME WebInv, End
    PROVE  WebInv'
<1>1. TypeOK /\ Connected /\ ThisUpload /\ BootIsVetted
    BY DEF WebInv
<1>2. /\ part = "data" /\ part' = "done" /\ left' = left
      /\ UNCHANGED <<server, answer>> /\ (UploadEnd \/ StoreEnd)
    BY DEF End
<1>3. /\ Connected' /\ OnTime' /\ AnswerIsTrue'
      /\ File' = File /\ UNCHANGED <<cur, ask, backlog, idle, redirected, waited>>
    BY <1>2, ServerWaits
<1>4. /\ cur \in Clients /\ ask[cur].path \in {"update", "store"} /\ File \in Files /\ cur # Nobody
    BY <1>1, <1>2, Uploader
<1>5. /\ update \in Uploads /\ target \in Uploads /\ {wrongFile, failed, done} \subseteq BOOLEAN
      /\ {running, boot, stored} \subseteq Files \cup {Factory}
    BY <1>1 DEF TypeOK, Uploads
<1>6. /\ update.open => update.file = File
      /\ target.open => target.file = File
      /\ update.open => ask[cur].path = "update" /\ ~failed /\ ~wrongFile
      /\ target.open => ask[cur].path = "store"
      /\ storeActive <=> target.open
      /\ ask[cur].path = "update" => (wrongFile <=> ~File.named)
      /\ ask[cur].path = "store" /\ storeOk => stored = File
      /\ answer = NoAnswer /\ ~done /\ boot = running
    BY <1>1, <1>2 DEF ThisUpload, OfThisUpload
<1>7. CASE UploadEnd
    <2>1. /\ ask[cur].path = "update" /\ UNCHANGED <<storeActive, storeOk, target, stored>>
          /\ uploading' = FALSE /\ UNCHANGED <<wrongFile, running>>
          /\ \/ wrongFile /\ UNCHANGED <<failed, done, update, boot>>
             \/ /\ ~wrongFile /\ IsWhole(update) /\ failed' = failed
                /\ done' = TRUE /\ boot' = update.file /\ update' = Closed
             \/ /\ failed' = TRUE /\ UNCHANGED <<done, boot>>
                /\ update' = IF failed THEN update ELSE Closed
        BY <1>7 DEF UploadEnd, ToFlash, storeFlags, store
    <2>2. update' \in Uploads /\ ~update'.open
        BY <1>5, <1>6, <2>1, UploadsAre
    <2>3. /\ failed' \in BOOLEAN
          /\ \/ UNCHANGED <<done, boot>>
             \/ done' = TRUE /\ boot' = File /\ File.named /\ File.valid
        <3>1. CASE wrongFile /\ UNCHANGED <<failed, done, update, boot>>
            BY <1>5, <3>1
        <3>2. CASE /\ ~wrongFile /\ IsWhole(update) /\ failed' = failed
                   /\ done' = TRUE /\ boot' = update.file
            BY <1>5, <1>6, <2>1, <3>2 DEF IsWhole
        <3>3. CASE failed' = TRUE /\ UNCHANGED <<done, boot>>
            BY <3>3
        <3> QED BY <2>1, <3>1, <3>2, <3>3
    <2>4. {failed', done'} \subseteq BOOLEAN /\ boot' \in Files \cup {Factory}
        BY <1>4, <1>5, <2>3
    <2>5. TypeOK'
        BY <1>1, <1>2, <1>3, <1>4, <2>1, <2>2, <2>4 DEF TypeOK, Uploads
    <2>6. ThisUpload'
        <3>1. ~target'.open /\ ~storeActive'
            BY <1>6, <2>1
        <3> QED BY <1>2, <1>3, <1>6, <2>1, <2>2, <2>3, <3>1 DEF ThisUpload, OfThisUpload
    <2>7. BootIsVetted'
        BY <1>1, <1>4, <2>1, <2>3 DEF BootIsVetted
    <2> QED BY <1>3, <2>5, <2>6, <2>7 DEF WebInv
<1>8. CASE StoreEnd
    <2>1. /\ ask[cur].path = "store" /\ UNCHANGED <<failed, wrongFile, done, update, running, boot>>
          /\ uploading' = FALSE /\ storeActive' = FALSE
          /\ \/ storeActive /\ storeOk' = TRUE /\ stored' = target.file /\ target' = Closed
             \/ storeOk' = FALSE /\ target' = Closed /\ stored' = stored
             \/ ~storeActive /\ UNCHANGED <<storeOk, target, stored>>
        BY <1>8 DEF StoreEnd, ToStore, flash
    <2>2. target' \in Uploads /\ ~target'.open
        BY <1>5, <1>6, <2>1, UploadsAre
    <2>3. storeOk' => stored' = File
        BY <1>6, <2>1
    <2>4. {storeOk', storeActive'} \subseteq BOOLEAN /\ stored' \in Files \cup {Factory}
        <3>1. storeOk \in BOOLEAN
            BY <1>1 DEF TypeOK
        <3>2. storeActive => target.file \in Files
            BY <1>4, <1>6
        <3> QED BY <1>5, <2>1, <3>1, <3>2
    <2>5. TypeOK'
        BY <1>1, <1>2, <1>3, <1>4, <2>1, <2>2, <2>4 DEF TypeOK, Uploads
    <2>6. ThisUpload'
        <3>1. ~update.open
            BY <1>6, <2>1
        <3> QED BY <1>2, <1>3, <1>6, <2>1, <2>2, <2>3, <3>1 DEF ThisUpload, OfThisUpload
    <2>7. BootIsVetted'
        BY <1>1, <2>1 DEF BootIsVetted
    <2> QED BY <1>3, <2>5, <2>6, <2>7 DEF WebInv
<1> QED BY <1>2, <1>7, <1>8

\* The server lets go of the uploader.
LEMMA DisconnectKeeps ==
    ASSUME TypeOK, Connected, OnTime, part # "none", Disconnect
    PROVE  /\ Connected' /\ OnTime'
           /\ cur' = Nobody /\ part' = "none" /\ left' = 0
           /\ ask' \in [Clients -> Requests \cup {Silence}]
           /\ UNCHANGED <<idle, backlog, redirected, waited>>
<1>1. /\ cur' = Nobody /\ ask' = [ask EXCEPT ![cur] = Silence] /\ part' = "none" /\ left' = 0
      /\ UNCHANGED <<idle, backlog, redirected, waited>>
    BY DEF Disconnect
<1>2. cur \in Clients /\ cur # Nobody /\ Nobody \notin Clients
    BY Uploader
<1>3. ask' \in [Clients -> Requests \cup {Silence}] /\ \A c \in Clients : Has(c)' <=> Has(c) /\ c # cur
    BY <1>1, <1>2 DEF TypeOK, Has
<1>4. backlog \in Seq(Clients) /\ \A k \in DOMAIN backlog : backlog[k] \in Clients /\ backlog[k] # cur
    BY CurrentIs
<1>5. Connected'
    BY <1>1, <1>2, <1>3, <1>4 DEF Connected, IsOpen
<1>6. OnTime'
    <2>1. CurrentPatience' = 0 /\ CurrentPatience = 0
        BY <1>1 DEF CurrentPatience
    <2>2. \A k : Ahead(k)' = Ahead(k)
        BY <2>1 DEF Ahead
    <2>3. \A k \in DOMAIN backlog : Has(backlog[k])' => Has(backlog[k])
        BY <1>1, <1>3, <1>4 DEF Has
    <2>4. \A c \in Clients : (~Has(c))' \/ c = cur' => waited'[c] = 0
        BY <1>1, <1>2, <1>3 DEF OnTime
    <2> QED BY <1>1, <2>2, <2>3, <2>4 DEF OnTime, Patience
<1> QED BY <1>1, <1>3, <1>5, <1>6

\* The uploader gets its answer.
LEMMA DoneKeeps ==
    ASSUME WebInv, Done
    PROVE  WebInv'
<1>1. TypeOK /\ Connected /\ ThisUpload /\ BootIsVetted /\ OnTime
    BY DEF WebInv
<1>2. part = "done" /\ Disconnect /\ (handleUploadDone \/ handleStoreDone)
    BY DEF Done
<1>3. /\ Connected' /\ OnTime'
      /\ cur' = Nobody /\ part' = "none" /\ left' = 0
      /\ ask' \in [Clients -> Requests \cup {Silence}]
      /\ UNCHANGED <<idle, backlog, redirected, waited>>
    BY <1>1, <1>2, DisconnectKeeps
<1>4. /\ cur \in Clients /\ ask[cur] \in Requests /\ File \in Files /\ Current = cur
      /\ ask[cur].path \in {"update", "store"}
    BY <1>1, <1>2, Uploader
<1>5. /\ ~uploading /\ ~update.open /\ ~target.open /\ ~storeActive
      /\ ask[cur].path = "update" => (wrongFile <=> ~File.named)
      /\ ~done => boot = running
      /\ done => ask[cur].path = "update" /\ boot = File /\ boot.named
      /\ ask[cur].path = "store" /\ storeOk => stored = File
    BY <1>1, <1>2 DEF ThisUpload, OfThisUpload
<1>6. /\ UNCHANGED <<uploading, done, update, running, boot, storeActive, storeOk, target, stored>>
      /\ {failed', wrongFile'} \subseteq BOOLEAN
      /\ answer'.req = ask[cur]
      /\ \/ /\ ask[cur].path = "update"
            /\ \/ done /\ answer'.status = "ok"
               \/ ~done /\ wrongFile /\ answer'.status = "wrong"
               \/ ~done /\ ~wrongFile /\ answer'.status = "failed"
         \/ /\ ask[cur].path = "store"
            /\ answer'.status = IF storeOk THEN "saved" ELSE "rejected"
    <2>1. {failed, wrongFile} \subseteq BOOLEAN
        BY <1>1 DEF TypeOK
    <2>2. CASE handleUploadDone
        <3>1. /\ ask[cur].path = "update" /\ UNCHANGED <<storeActive, storeOk, target, stored>>
              /\ UNCHANGED <<uploading, done, update, running, boot>>
            BY <2>2 DEF handleUploadDone, ToFlash, storeFlags, store, flash
        <3>2. \/ done /\ Reply("ok") /\ UNCHANGED <<failed, wrongFile>>
              \/ ~done /\ wrongFile /\ Reply("wrong") /\ failed' = FALSE /\ wrongFile' = FALSE
              \/ ~done /\ ~wrongFile /\ Reply("failed") /\ failed' = FALSE /\ UNCHANGED wrongFile
            BY <2>2 DEF handleUploadDone
        <3>3. \A status : Reply(status) => answer'.status = status /\ answer'.req = ask[cur]
            BY <1>4 DEF Reply
        <3>4. {failed', wrongFile'} \subseteq BOOLEAN
            BY <2>1, <3>2
        <3> QED BY <3>1, <3>2, <3>3, <3>4
    <2>3. CASE handleStoreDone
        BY <1>4, <2>1, <2>3 DEF handleStoreDone, ToStore, Reply, storeFlags, store, flash
    <2> QED BY <1>2, <2>2, <2>3
<1>7. TypeOK'
    <2>1. 0 \in 0..Chunks /\ answer'.req \in Requests \cup {Silence}
        BY <1>4, <1>6
    <2> QED BY <1>1, <1>3, <1>6, <2>1 DEF TypeOK, Nobody
<1>8. ThisUpload'
    BY <1>3, <1>5, <1>6 DEF ThisUpload, OfThisUpload
<1>9. BootIsVetted'
    BY <1>1, <1>6 DEF BootIsVetted
<1>10. AnswerIsTrue'
    <2>1. CASE ask[cur].path = "update" /\ done /\ answer'.status = "ok"
        BY <1>5, <1>6, <2>1 DEF AnswerIsTrue, File
    <2>2. CASE ask[cur].path = "update" /\ ~done /\ wrongFile /\ answer'.status = "wrong"
        BY <1>5, <1>6, <2>2 DEF AnswerIsTrue, File
    <2>3. CASE ask[cur].path = "update" /\ ~done /\ ~wrongFile /\ answer'.status = "failed"
        BY <1>5, <1>6, <2>3 DEF AnswerIsTrue, File
    <2>4. CASE ask[cur].path = "store" /\ answer'.status = IF storeOk THEN "saved" ELSE "rejected"
        BY <1>5, <1>6, <2>4 DEF AnswerIsTrue, File
    <2> QED BY <1>6, <2>1, <2>2, <2>3, <2>4
<1> QED BY <1>3, <1>7, <1>8, <1>9, <1>10 DEF WebInv

\* The uploader is lost.
LEMMA AbortedKeeps ==
    ASSUME WebInv, Aborted
    PROVE  WebInv'
<1>1. TypeOK /\ Connected /\ ThisUpload /\ BootIsVetted /\ OnTime
    BY DEF WebInv
<1>2. part = "data" /\ Disconnect /\ answer' = NoAnswer /\ (UploadAborted \/ StoreAborted)
    BY DEF Aborted
<1>3. /\ Connected' /\ OnTime'
      /\ cur' = Nobody /\ part' = "none" /\ left' = 0
      /\ ask' \in [Clients -> Requests \cup {Silence}]
      /\ UNCHANGED <<idle, backlog, redirected, waited>>
    BY <1>1, <1>2, DisconnectKeeps
<1>4. /\ update.open => ask[cur].path = "update"
      /\ target.open => ask[cur].path = "store"
      /\ storeActive <=> target.open
      /\ ~done /\ boot = running
      /\ update \in Uploads /\ target \in Uploads
    BY <1>1, <1>2 DEF ThisUpload, TypeOK, Uploads
<1>5. /\ UNCHANGED <<wrongFile, done, running, boot, storeOk, stored>>
      /\ ~uploading' /\ ~storeActive' /\ ~update'.open /\ ~target'.open
      /\ {uploading', failed', storeActive'} \subseteq BOOLEAN
      /\ update' \in Uploads /\ target' \in Uploads
    <2>1. {storeActive, failed} \subseteq BOOLEAN
        BY <1>1 DEF TypeOK
    <2>2. CASE UploadAborted
        BY <1>4, <2>1, <2>2, UploadsAre DEF UploadAborted, ToFlash, storeFlags, store
    <2>3. CASE StoreAborted
        <3>1. ask[cur].path = "store" /\ UNCHANGED <<failed, wrongFile, done, update, running, boot>>
            BY <2>3 DEF StoreAborted, ToStore, flash
        <3>2. /\ uploading' = FALSE /\ storeActive' = FALSE /\ UNCHANGED <<storeOk, stored>>
              /\ target' = IF storeActive THEN Closed ELSE target
            BY <2>3 DEF StoreAborted, Discard
        <3> QED BY <1>4, <2>1, <3>1, <3>2, UploadsAre
    <2> QED BY <1>2, <2>2, <2>3
<1>6. TypeOK'
    <2>1. 0 \in 0..Chunks /\ answer'.req = Silence
        BY <1>2 DEF NoAnswer
    <2> QED BY <1>1, <1>3, <1>5, <2>1 DEF TypeOK, Nobody, Uploads
<1>7. ThisUpload'
    BY <1>2, <1>3, <1>4, <1>5 DEF ThisUpload, OfThisUpload
<1>8. BootIsVetted' /\ AnswerIsTrue'
    BY <1>1, <1>2, <1>5 DEF BootIsVetted, AnswerIsTrue, NoAnswer, Silence
<1> QED BY <1>3, <1>6, <1>7, <1>8 DEF WebInv

-----------------------------------------------------------------------------
(* ... and a device that starts.                                           *)

\* Whichever of its firmwares the device starts with.
LEMMA FreshKeeps ==
    ASSUME NEW b \in Files \cup {Factory}, NEW s \in Files \cup {Factory},
           b = Factory \/ (b.named /\ b.valid),
           done' = FALSE, running' = b, boot' = b, stored' = s,
           uploading' = FALSE, failed' = FALSE, wrongFile' = FALSE,
           storeActive' = FALSE, storeOk' = FALSE,
           cur' = Nobody, idle' = 0, backlog' = <<>>,
           ask' = [c \in Clients |-> Silence], waited' = [c \in Clients |-> 0],
           redirected' = {}, part' = "none", left' = 0,
           update' = Closed, target' = Closed, answer' = NoAnswer
    PROVE  WebInv'
<1>1. \A c \in Clients : ~Has(c)' /\ waited'[c] = 0
    BY DEF Has
<1>2. backlog' \in Seq(Clients) /\ Len(backlog') = 0 /\ DOMAIN backlog' = {}
    OBVIOUS
<1>3. TypeOK'
    <2>1. Cardinality(Clients) \in Nat
        BY FS_CardinalityType
    <2>2. /\ ask' \in [Clients -> Requests \cup {Silence}]
          /\ 0 \in 0..Chunks /\ 0 \in 0..(Grace + 1)
          /\ answer'.req = Silence
        BY DEF NoAnswer
    <2>3. /\ {uploading', failed', wrongFile', done', storeActive', storeOk'} \subseteq BOOLEAN
          /\ {update', target'} \subseteq {Closed} \cup [open : {TRUE}, file : Files, len : 0..Chunks]
          /\ {running', boot', stored'} \subseteq Files \cup {Factory}
          /\ redirected' \subseteq Clients
        OBVIOUS
    <2> QED BY <1>2, <2>1, <2>2, <2>3 DEF TypeOK
<1>4. Connected'
    BY <1>1, <1>2 DEF Connected
<1>5. ThisUpload'
    BY DEF ThisUpload, OfThisUpload, Closed
<1>6. BootIsVetted' /\ AnswerIsTrue'
    BY DEF BootIsVetted, AnswerIsTrue, NoAnswer, Silence
<1>7. OnTime'
    BY <1>1, <1>2 DEF OnTime
<1> QED BY <1>3, <1>4, <1>5, <1>6, <1>7 DEF WebInv

\* It starts with the firmware that the boot slot selects.
LEMMA RestartKeeps ==
    ASSUME WebInv, Restart
    PROVE  WebInv'
<1>1. {running, boot, stored} \subseteq Files \cup {Factory}
    BY DEF WebInv, TypeOK
<1>2. boot \in {Factory} \cup {f \in Files : f.named /\ f.valid}
    BY DEF WebInv, BootIsVetted
<1>3. boot = Factory \/ (boot.named /\ boot.valid)
    BY <1>2
<1> QED BY <1>1, <1>3, FreshKeeps DEF Restart

\* The page for a reboot: an upload is never under way when it is asked for.
LEMMA RebootIsRestart ==
    ASSUME WebInv, handleReboot
    PROVE  Restart
<1>1. part = "none" /\ ~uploading
    BY DEF handleReboot, WebInv, ThisUpload
<1> QED BY <1>1 DEF handleReboot

\* An iteration of the loop.
LEMMA LoopKeeps ==
    ASSUME WebInv, Loop
    PROVE  WebInv'
<1>1. part = "none" /\ ~done /\ Accept /\ UNCHANGED <<flags, storeFlags, flash, store>>
    BY DEF Loop
<1>2. CASE Wait
    BY <1>1, <1>2, WaitKeeps
<1>3. CASE Current # Nobody /\ idle' = 0 /\ handleRoot
    BY <1>1, <1>3, RootKeeps
<1>4. CASE Current # Nobody /\ idle' = 0 /\ Receive
    BY <1>1, <1>4, ReceiveKeeps
<1> QED BY <1>2, <1>3, <1>4 DEF Loop, Serve

\* The invariant says nothing but of the variables.
LEMMA StutterKeeps ==
    ASSUME WebInv, UNCHANGED vars
    PROVE  WebInv'
<1> USE DEF vars, flags, storeFlags, server, conns, flash, store
<1>1. TypeOK' /\ Connected'
    BY DEF WebInv, TypeOK, Connected, Has, IsOpen
<1>2. ThisUpload' /\ BootIsVetted' /\ AnswerIsTrue'
    BY DEF WebInv, ThisUpload, OfThisUpload, File, BootIsVetted, AnswerIsTrue
<1>3. OnTime'
    <2>1. \A k : Ahead(k)' = Ahead(k)
        BY DEF Ahead, CurrentPatience
    <2> QED BY <2>1 DEF WebInv, OnTime, Has
<1> QED BY <1>1, <1>2, <1>3 DEF WebInv

\* Every step keeps the invariant.
LEMMA StepKeeps ==
    ASSUME WebInv, [Next]_vars
    PROVE  WebInv'
<1>1. ASSUME NEW c \in Clients, Open(c) \/ Follow(c) \/ UseSpare(c)
      PROVE  WebInv'
    BY <1>1, BrowserSteps, BrowserKeeps DEF WebInv
<1>2. CASE Upload
    BY <1>2, StartKeeps, WriteKeeps, EndKeeps, DoneKeeps DEF Upload
<1>3. CASE handleReboot
    BY <1>3, RebootIsRestart, RestartKeeps
<1> QED BY <1>1, <1>2, <1>3, LoopKeeps, AbortedKeeps, RestartKeeps, StutterKeeps DEF Next

\* The update mode begins with nothing connected and nothing open.
LEMMA InitInv == Init => WebInv
<1> SUFFICES ASSUME Init PROVE WebInv
    OBVIOUS
<1> USE DEF Init
<1>1. \A c \in Clients : ~Has(c) /\ waited[c] = 0
    BY DEF Has
<1>2. backlog \in Seq(Clients) /\ Len(backlog) = 0 /\ DOMAIN backlog = {}
    OBVIOUS
<1>3. TypeOK
    <2>1. Cardinality(Clients) \in Nat
        BY FS_CardinalityType
    <2>2. /\ ask \in [Clients -> Requests \cup {Silence}]
          /\ 0 \in 0..Chunks /\ 0 \in 0..(Grace + 1)
          /\ answer.req = Silence
        BY DEF NoAnswer
    <2>3. /\ {uploading, failed, wrongFile, done, storeActive, storeOk} \subseteq BOOLEAN
          /\ {update, target} \subseteq {Closed} \cup [open : {TRUE}, file : Files, len : 0..Chunks]
          /\ {running, boot, stored} \subseteq Files \cup {Factory}
          /\ redirected \subseteq Clients
        OBVIOUS
    <2> QED BY <1>2, <2>1, <2>2, <2>3 DEF TypeOK
<1>4. Connected
    BY <1>1, <1>2 DEF Connected
<1>5. ThisUpload
    BY DEF ThisUpload, OfThisUpload, Closed
<1>6. BootIsVetted /\ AnswerIsTrue
    BY DEF BootIsVetted, AnswerIsTrue, NoAnswer, Silence
<1>7. OnTime
    BY <1>1, <1>2 DEF OnTime
<1> QED BY <1>3, <1>4, <1>5, <1>6, <1>7 DEF WebInv

-----------------------------------------------------------------------------
(* The theorems.                                                           *)

\* In every state of the update mode the variables have their types, and all
\* parts of the invariant hold.
THEOREM WebInvariance == Spec => []WebInv
<1>1. WebInv /\ [Next]_vars => WebInv'
    BY StepKeeps
<1> QED BY <1>1, InitInv, PTL DEF Spec

\* The variables have their types.
THEOREM WebTyping == Spec => []TypeOK
<1>1. WebInv => TypeOK
    BY DEF WebInv
<1> QED BY <1>1, WebInvariance, PTL

\* The page that answers an upload says what has become of this upload.
THEOREM AnswerTrue == Spec => []AnswerIsTrue
<1>1. WebInv => AnswerIsTrue
    BY DEF WebInv
<1> QED BY <1>1, WebInvariance, PTL

\* Between two uploads nothing is left open, whatever became of the last one.
THEOREM NothingOpen == Spec => []NothingLeftOpen
<1>1. ASSUME WebInv PROVE NothingLeftOpen
    <2>1. ThisUpload /\ update \in Uploads /\ target \in Uploads
        BY <1>1 DEF WebInv, TypeOK, Uploads
    <2> QED BY <2>1, UploadsAre DEF ThisUpload, OfThisUpload, NothingLeftOpen
<1> QED BY <1>1, WebInvariance, PTL

\* The device starts only the old firmware or a whole image accepted by its name.
THEOREM BootVetted == Spec => []BootIsVetted
<1>1. WebInv => BootIsVetted
    BY DEF WebInv
<1> QED BY <1>1, WebInvariance, PTL

\* No request waits longer than the patience with the connections before it.
THEOREM Served == Spec => []ServedSoon
<1> DEFINE N == Cardinality(Clients)
           Bound == (N - 1) * Patience
<1>1. ASSUME WebInv PROVE ServedSoon
    <2> SUFFICES ASSUME NEW c \in Clients PROVE waited[c] <= Bound
        BY DEF ServedSoon, Patience
    <2>1. /\ TypeOK /\ Connected /\ OnTime
          /\ \A d \in Clients : ~Has(d) \/ d = cur => waited[d] = 0
          /\ waited[c] \in Nat
        BY <1>1 DEF WebInv, OnTime
    <2>2. N \in Nat /\ N >= 1 /\ Patience \in Nat
        <3>1. N \in Nat /\ N # 0
            BY FS_CardinalityType, FS_EmptySet
        <3> QED BY <3>1 DEF Patience
    <2>3. Bound \in Nat
        <3>1. N - 1 \in Nat
            BY <2>2
        <3>2. \A a, p \in Nat : a * p \in Nat
            OBVIOUS
        <3> QED BY <2>2, <3>1, <3>2
    <2>4. CASE ~Has(c) \/ c = cur
        BY <2>1, <2>3, <2>4
    <2>5. CASE Has(c) /\ c # cur
        <3>1. PICK k \in DOMAIN backlog : backlog[k] = c
            BY <2>1, <2>5, ContainsDef, CurrentIs DEF Connected, IsOpen
        <3>2. waited[c] + Ahead(k) <= Bound /\ Ahead(k) >= 0
            BY <2>1, <2>5, <3>1, FreshIsOnTime DEF OnTime
        <3>3. Ahead(k) \in Int
            <4>1. k \in Nat
                BY <2>1, <3>1, CurrentIs, LenProperties
            <4>2. CurrentPatience \in Int
                BY <2>1, PatienceTyped
            <4> QED BY <2>2, <4>1, <4>2 DEF Ahead
        <3> HIDE DEF Bound
        <3> QED BY <2>1, <2>3, <3>2, <3>3
    <2> QED BY <2>4, <2>5
<1> QED BY <1>1, WebInvariance, PTL

-----------------------------------------------------------------------------
(* What a step may never do.                                               *)

\* A request leaves the server only by an answer to it, or with the server: the
\* patience with silent connections costs only those without a request.
THEOREM Dropped == Spec => NothingDropped
<1> DEFINE Answered1(c) == Has(c) /\ ask'[c] # ask[c] => answer'.req = ask[c] \/ Aborted \/ Restart
<1>1. ASSUME WebInv, Next, NEW c \in Clients, Has(c), ask'[c] # ask[c], ~Aborted, ~Restart
      PROVE  answer'.req = ask[c]
    <2>1. TypeOK /\ Connected /\ ThisUpload /\ ask \in [Clients -> Requests \cup {Silence}]
        BY <1>1 DEF WebInv, TypeOK
    <2>2. ~(\E d \in Clients : Open(d) \/ Follow(d) \/ UseSpare(d))
        <3>1. ASSUME NEW d \in Clients, BrowserStep(d) PROVE FALSE
            BY <1>1, <2>1, <3>1 DEF BrowserStep
        <3> QED BY <2>1, <3>1, BrowserSteps
    <2>3. CASE Loop
        <3>1. ~Receive
            BY <1>1 DEF Receive
        <3>2. CASE Wait
            <4>1. dropsIdleClient /\ ask' = [ask EXCEPT ![cur] = Silence]
                BY <1>1, <3>2 DEF Wait, Forget
            <4>2. ~Has(cur)
                BY <4>1 DEF dropsIdleClient
            <4> QED BY <1>1, <2>1, <4>1, <4>2
        <3>3. CASE handleRoot
            <4>1. ask' = [ask EXCEPT ![Current] = Silence] /\ answer'.req = ask[Current]
                BY <3>3 DEF handleRoot, captiveRedirect, Reply, Forget
            <4> QED BY <1>1, <2>1, <4>1
        <3> QED BY <2>3, <3>1, <3>2, <3>3 DEF Loop, Serve
    <2>4. CASE Upload
        <3>1. ~Start /\ ~Write /\ ~End
            BY <1>1 DEF Start, Write, End, server, conns
        <3>2. Done
            BY <2>4, <3>1 DEF Upload
        <3>3. part # "none" /\ ask' = [ask EXCEPT ![cur] = Silence]
            BY <3>2 DEF Done, Disconnect
        <3>4. Current = cur
            BY <2>1, <3>3, Uploader
        <3>5. answer'.req = ask[cur]
            BY <3>2, <3>4 DEF Done, handleUploadDone, handleStoreDone, Reply
        <3> QED BY <1>1, <2>1, <3>3, <3>5
    <2>5. ~handleReboot
        BY <1>1, RebootIsRestart
    <2> QED BY <1>1, <2>2, <2>3, <2>4, <2>5 DEF Next
<1>2. WebInv /\ [Next]_vars => [\A c \in Clients : Answered1(c)]_vars
    BY <1>1
<1> QED BY <1>2, WebInvariance, PTL DEF Spec, NothingDropped
=============================================================================
