------------------------- MODULE LoginSessionProofs -------------------------
(***************************************************************************)
(* What is true of browser sessions for every number of sessions, people,  *)
(* clients and requests, and every limit.                                  *)
(*                                                                         *)
(* A request is what it has left to do, so the first part is about those   *)
(* sequences: what follows what, and what no longer comes.  The invariants *)
(* after it speak of the next step, At, and of the steps left, Pending.    *)
(***************************************************************************)
EXTENDS LoginSession, SequenceTheorems, TLAPS

\* The steps of the listings, and those that work for a signed-in person.
Lists == {"list", "mget", "tidy", "endnext"}
Owns  == {"get", "touch", "seen", "forget", "signedin", "code", "addclient", "clientsttl",
          "addmethod", "login", "reauth", "new", "save", "sadd", "indexttl", "del", "srem"}
Tells == {"clients", "notify", "del", "purge"}

\* What comes right after a step.
Follows(a, b) ==
    \/ a = "get" /\ b = "touch"
    \/ a \in {"touch", "seen", "forget"} /\ b \in {"login", "signedin", "del"}
    \/ a = "signedin" /\ b \in {"code", "addmethod", "clients"}
    \/ a = "code" /\ b = "addclient"
    \/ a = "addclient" /\ b = "clientsttl"
    \/ a \in {"clientsttl", "addmethod", "login", "reauth", "indexttl", "endnext"} /\ b = "done"
    \/ a = "new" /\ b = "save"
    \/ a = "save" /\ b = "sadd"
    \/ a = "sadd" /\ b = "indexttl"
    \/ a = "clients" /\ b \in {"notify", "check"}
    \/ a = "notify" /\ b \in {"get", "check", "done"}
    \/ a = "del" /\ b = "srem"
    \/ a = "srem" /\ b \in {"new", "done"}
    \/ a = "check" /\ b \in {"purge", "retire"}
    \/ a \in {"purge", "retire"} /\ b = "unlist"
    \/ a = "unlist" /\ b \in {"forget", "notify", "tidy", "endnext"}
    \/ a = "list" /\ b = "mget"
    \/ a = "mget" /\ b = "tidy"
    \/ a = "tidy" /\ b \in {"endnext", "done"}

\* What does not come any more once a step has been taken, or is next.
NoMore(a, b) ==
    \/ a \in Lists \cup {"purge"} /\ b \in Owns
    \/ a \in Owns /\ b \in Lists \cup {"purge"}
    \/ a \in Lists /\ b \in Tells
    \/ a \in {"tidy", "endnext"} /\ b \in {"check", "retire", "tidy"}
    \/ a = "mget" /\ b = "mget"
    \/ a = "purge" /\ b \in {"check", "retire", "clients", "purge"}
    \/ a = "del" /\ b \in {"notify", "clients", "check", "retire", "get", "del"}
    \/ a \in {"code", "addclient", "clientsttl"} /\ b \in Tells
    \/ a \in Tells /\ b \in {"code", "addclient", "clientsttl"}
    \/ a = "new" /\ b \in Tells \cup {"get", "check", "retire"}
    \/ a = "clients" /\ b = "retire"
    \/ a = "retire" /\ b = "purge"

\* What a request does in a row.  Who reads the clients goes on to tell them, and
\* nobody is told who was not read after the session.
Chain(s) ==
    /\ s \in Seq(Steps)
    /\ \A i \in 1..Len(s) - 1 : Follows(s[i], s[i + 1])
    /\ \A i, j \in 1..Len(s) : i < j => ~NoMore(s[i], s[j])
    /\ \A i \in 1..Len(s) : s[i] = "clients" => \E j \in 1..Len(s) : i < j /\ s[j] = "notify"
    /\ \A i, j \in 1..Len(s) : i < j /\ s[i] \in {"get", "retire"} /\ s[j] = "notify" =>
          \E k \in 1..Len(s) : i < k /\ s[k] = "clients"

\* What it may have left to do.
Shape(s) == Chain(s) /\ (s # <<>> => s[Len(s)] = "done")

Shapes == \A r \in Request : Shape(todo[r])

\* What a request has in hand, by what it is about to do.
NeedsLogin == {"touch", "seen", "reauth", "addmethod", "save", "sadd"}
NeedsWho   == Lists \cup {"login", "reauth", "new", "save", "sadd", "indexttl"}
NeedsSid   == {"get", "touch", "seen", "forget", "signedin", "code", "addclient", "clientsttl",
               "addmethod", "reauth", "del", "srem", "clients", "notify", "check", "purge",
               "retire", "unlist"}

Ready(r) ==
    /\ todo[r] = <<>> => login[r] = None
    /\ login[r] # None => sid[r] # None
    /\ \A x \in NeedsLogin : At(r, x) => login[r] # None
    /\ \A x \in {"reauth", "save", "sadd"} : At(r, x) => login[r].user = who[r]
    /\ \A x \in Lists \cup {"purge"} : Pending(r, x) => login[r] = None
    /\ \A x \in NeedsWho : Pending(r, x) => who[r] # None
    /\ \A x \in NeedsSid : Pending(r, x) => sid[r] # None
    /\ Pending(r, "addmethod") => arg[r] \in Factor
    /\ Pending(r, "code") \/ Pending(r, "addclient") => arg[r] \in Client

InPlace == \A r \in Request : Ready(r)

\* Every id that is anywhere has been generated.
Generated ==
    \A s \in Session : performed[s] = {} =>
        /\ store[s] = None /\ cookie[s] = 0 /\ s \notin broken
        /\ \A u \in User : s \notin index[u].members
        /\ \A r \in Request : sid[r] # s /\ s \notin found[r] \cup stale[r] \cup missing[r]

\* What a session object claims is among what has been done, and when.
Earned(deeds, obj) ==
    /\ <<Pwd, obj.since>> \in deeds
    /\ \A m \in obj.amr : \E t \in Time : t >= obj.since /\ <<m, t>> \in deeds

Earnings ==
    /\ \A s \in Session : \A p \in performed[s] : p[2] <= now
    /\ \A s \in Session : store[s] # None => Earned(performed[s], store[s])
    /\ \A r \in Request : login[r] # None => Earned(performed[sid[r]], login[r])

\* A session is one person's.
OnePerson ==
    \A r \in Request : login[r] # None =>
        /\ store[sid[r]] # None => store[sid[r]].user = login[r].user
        /\ \A q \in Request : login[q] # None /\ sid[q] = sid[r] => login[q].user = login[r].user

\* A session that has not ended is there, and is u's; and its index lists it.
Live(s)    == s \notin broken => store[s] # None
Kept(s, u) == s \notin broken => store[s] # None /\ store[s].user = u
Listed(s)  == s \notin broken \cup lapsed =>
                 store[s] # None /\ s \in index[store[s].user].members

\* What a request has found is its user's, and what it has in hand is listed: but
\* for a session that is only being made.
Finds(r) ==
    /\ \A s \in found[r] \cup stale[r] : Kept(s, who[r]) /\ Listed(s)
    /\ missing[r] \subseteq broken
    /\ stale[r] \cup missing[r] # {} => Pending(r, "tidy") /\ ~Pending(r, "mget")
    /\ found[r] # {} => todo[r] # <<>> /\ ~Pending(r, "login") /\ ~Pending(r, "addmethod")
    /\ At(r, "unlist") \/ At(r, "srem") => sid[r] \in broken
    /\ At(r, "sadd") => Kept(sid[r], who[r])
    /\ sid[r] # None /\ ~At(r, "save") => Live(sid[r])
    /\ sid[r] # None /\ ~At(r, "save") /\ ~At(r, "sadd") => Listed(sid[r])
    /\ (Pending(r, "tidy") \/ Pending(r, "endnext")) /\ sid[r] # None => Kept(sid[r], who[r])

Listing ==
    /\ \A s \in Session : cookie[s] # 0 => Listed(s) /\ Live(s)
    /\ \A u \in User : \A s \in index[u].members : Kept(s, u)
    /\ \A r \in Request : Finds(r)

\* A session signed out while nobody had it in hand is gone, and nobody has it in
\* hand but who signed it out.
Out ==
    \A s \in ended \ revived :
        /\ store[s] = None
        /\ \A r \in Request : sid[r] = s /\ login[r] # None =>
              At(r, "srem") \/ At(r, "new") \/ At(r, "done")

\* What an end_all_sessions still ought to end is in its list, or being ended.
Ends(r) ==
    /\ due[r] \subseteq broken \/ Pending(r, "endnext")
    /\ due[r] \subseteq broken \cup (found[r] \ {arg[r]}) \cup stale[r]
          \cup (IF Pending(r, "purge") \/ Pending(r, "retire") THEN {sid[r]} ELSE {})

Ending == \A r \in Request : Ends(r)

\* r has read the clients it will tell, and goes on to delete the session.
Leaving(r) == ~Pending(r, "clients") /\ (Pending(r, "del") \/ Pending(r, "purge"))

Recording(s, c) == \E r \in Request : At(r, "addclient") /\ sid[r] = s /\ arg[r] = c
Telling(s, c)   == \E r \in Request :
                      /\ sid[r] = s /\ c \in names[r]
                      /\ Pending(r, "notify") /\ ~Pending(r, "clients") /\ ~Pending(r, "check")

\* A client that is owed a logout token is about to be recorded, is on record, or
\* is about to be told; and who deletes the record will tell it.
Owing ==
    /\ \A s \in ended : \A c \in clients[s].members : <<s, c>> \in excused
    /\ \A s \in Session, c \in Client : <<s, c>> \in owed \ excused =>
          /\ Recording(s, c) \/ c \in clients[s].members \/ Telling(s, c)
          /\ \A r \in Request : sid[r] = s /\ Leaving(r) /\ c \in clients[s].members =>
                Recording(s, c) \/ (c \in names[r] /\ Pending(r, "notify"))

-----------------------------------------------------------------------------
(* Sequences of steps.                                                     *)

Has(s, x) == \E i \in DOMAIN s : s[i] = x

\* What is left after the first step.
LEMMA TailShape ==
    ASSUME NEW s, Shape(s), s # <<>>, Head(s) # "done"
    PROVE  /\ Tail(s) # <<>> /\ Shape(Tail(s)) /\ Follows(Head(s), Head(Tail(s)))
           /\ \A x : Has(Tail(s), x) => Has(s, x) /\ ~NoMore(Head(s), x)
           /\ \A x : Has(s, x) /\ x # Head(s) => Has(Tail(s), x)
           /\ Head(s) = "clients" => Has(Tail(s), "notify")
           /\ Head(s) \in {"get", "retire"} /\ Has(Tail(s), "notify") => Has(Tail(s), "clients")
  <1>1. s \in Seq(Steps) /\ Len(s) \in Nat \ {0} /\ Head(s) = s[1] /\ DOMAIN s = 1..Len(s)
    BY EmptySeq DEF Shape, Chain
  <1>2. Len(s) # 1
    BY <1>1 DEF Shape
  <1>3. /\ Tail(s) \in Seq(Steps) /\ Len(Tail(s)) = Len(s) - 1
        /\ \A i \in 1..Len(s) - 1 : Tail(s)[i] = s[i + 1]
        /\ DOMAIN Tail(s) = 1..Len(s) - 1
    BY <1>1, HeadTailProperties
  <1>4. Tail(s) # <<>> /\ Head(Tail(s)) = s[2] /\ Follows(Head(s), s[2])
    <2>0. \A n \in Nat \ {0} : n # 1 => 1 \in 1..n - 1 /\ n - 1 # 0
      OBVIOUS
    <2>1. 1 \in 1..Len(s) - 1 /\ s[1 + 1] = s[2] /\ Len(s) - 1 # 0
      BY <1>1, <1>2, <2>0
    <2>2. Follows(s[1], s[2])
      BY <2>1 DEF Shape, Chain
    <2>3. Tail(s)[1] = s[2]
      BY <1>3, <2>1
    <2>4. Tail(s) # <<>>
      BY <1>3, <2>1, EmptySeq
    <2>5. Head(Tail(s)) = Tail(s)[1]
      BY <1>3, <2>4
    <2> QED
      BY <1>1, <2>2, <2>3, <2>4, <2>5
  <1>5. Tail(s)[Len(Tail(s))] = "done"
    <2>1. Len(s) - 1 \in 1..Len(s) - 1 /\ (Len(s) - 1) + 1 = Len(s)
      BY <1>1, <1>2
    <2> QED
      BY <1>1, <1>3, <2>1 DEF Shape
  <1>6. Chain(Tail(s))
    <2>1. \A i \in 1..Len(Tail(s)) - 1 : Follows(Tail(s)[i], Tail(s)[i + 1])
      <3> SUFFICES ASSUME NEW i \in 1..Len(s) - 2
                   PROVE  Follows(Tail(s)[i], Tail(s)[i + 1])
        BY <1>1, <1>3
      <3>1. /\ i \in 1..Len(s) - 1 /\ i + 1 \in 1..Len(s) - 1
            /\ Tail(s)[i] = s[i + 1] /\ Tail(s)[i + 1] = s[(i + 1) + 1]
        BY <1>1, <1>3
      <3> QED
        BY <3>1 DEF Shape, Chain
    <2>2. \A i, j \in 1..Len(Tail(s)) : i < j => ~NoMore(Tail(s)[i], Tail(s)[j])
      BY <1>1, <1>3 DEF Shape, Chain
    <2>3. \A i \in 1..Len(Tail(s)) : Tail(s)[i] = "clients" =>
             \E j \in 1..Len(Tail(s)) : i < j /\ Tail(s)[j] = "notify"
      <3> SUFFICES ASSUME NEW i \in 1..Len(s) - 1, s[i + 1] = "clients"
                   PROVE  \E j \in 1..Len(s) - 1 : i < j /\ s[j + 1] = "notify"
        BY <1>3
      <3>1. PICK j \in 1..Len(s) : i + 1 < j /\ s[j] = "notify"
        BY <1>1 DEF Shape, Chain
      <3>2. j - 1 \in 1..Len(s) - 1 /\ i < j - 1 /\ s[(j - 1) + 1] = "notify"
        BY <1>1, <3>1
      <3> QED
        BY <3>2
    <2>4. \A i, j \in 1..Len(Tail(s)) : i < j /\ Tail(s)[i] \in {"get", "retire"} /\ Tail(s)[j] = "notify" =>
             \E k \in 1..Len(Tail(s)) : i < k /\ Tail(s)[k] = "clients"
      <3> SUFFICES ASSUME NEW i \in 1..Len(s) - 1, NEW j \in 1..Len(s) - 1, i < j,
                          s[i + 1] \in {"get", "retire"}, s[j + 1] = "notify"
                   PROVE  \E k \in 1..Len(s) - 1 : i < k /\ s[k + 1] = "clients"
        BY <1>3
      <3>1. PICK k \in 1..Len(s) : i + 1 < k /\ s[k] = "clients"
        BY <1>1 DEF Shape, Chain
      <3>2. k - 1 \in 1..Len(s) - 1 /\ i < k - 1 /\ s[(k - 1) + 1] = "clients"
        BY <1>1, <3>1
      <3> QED
        BY <3>2
    <2> QED
      BY <1>3, <2>1, <2>2, <2>3, <2>4 DEF Chain
  <1>7. \A x : Has(Tail(s), x) => Has(s, x) /\ ~NoMore(Head(s), x)
    BY <1>1, <1>3 DEF Has, Shape, Chain
  <1>8. \A x : Has(s, x) /\ x # Head(s) => Has(Tail(s), x)
    <2> SUFFICES ASSUME NEW i \in 1..Len(s), s[i] # s[1]
                 PROVE  Has(Tail(s), s[i])
      BY <1>1 DEF Has
    <2>1. i - 1 \in 1..Len(s) - 1 /\ Tail(s)[i - 1] = s[i]
      BY <1>1, <1>3
    <2> QED
      BY <1>3, <2>1 DEF Has
  <1>9. Head(s) = "clients" => Has(s, "notify")
    BY <1>1 DEF Shape, Chain, Has
  <1>10. ASSUME Head(s) \in {"get", "retire"}, Has(Tail(s), "notify")
         PROVE  Has(Tail(s), "clients")
    <2>1. PICK j \in 1..Len(s) - 1 : s[j + 1] = "notify"
      BY <1>3, <1>10 DEF Has
    <2>2. 1 \in 1..Len(s) /\ j + 1 \in 1..Len(s) /\ 1 < j + 1
      BY <1>1
    <2>3. PICK k \in 1..Len(s) : s[k] = "clients"
      BY <1>1, <1>10, <2>1, <2>2 DEF Shape, Chain
    <2> QED
      BY <1>1, <1>8, <1>10, <2>3 DEF Has
  <1> QED
    BY <1>4, <1>5, <1>6, <1>7, <1>8, <1>9, <1>10 DEF Shape

\* Nothing is left after "done".
LEMMA DoneShape ==
    ASSUME NEW s, Shape(s), s # <<>>, Head(s) = "done"
    PROVE  s = <<"done">>
  <1>1. s \in Seq(Steps) /\ Len(s) \in Nat \ {0} /\ Head(s) = s[1]
    BY EmptySeq DEF Shape, Chain
  <1>2. Len(s) = 1
    <2> SUFFICES ASSUME Len(s) # 1
                 PROVE  FALSE
      OBVIOUS
    <2>0. \A n \in Nat \ {0} : n # 1 => 1 \in 1..n - 1
      OBVIOUS
    <2>1. 1 \in 1..Len(s) - 1
      BY <1>1, <2>0
    <2>2. Follows("done", s[1 + 1])
      BY <1>1, <2>1 DEF Shape, Chain
    <2> QED
      BY <2>2 DEF Follows
  <1>3. <<"done">> \in Seq(Steps) /\ Len(<<"done">>) = 1 /\ <<"done">>[1] = "done"
    BY DEF Steps
  <1> QED
    BY <1>1, <1>2, <1>3, SeqEqual

\* Steps put in front.
LEMMA JoinShape ==
    ASSUME NEW p, Chain(p), p # <<>>, NEW s, Shape(s), s # <<>>,
           Follows(p[Len(p)], Head(s)),
           \A x, y : Has(p, x) /\ Has(s, y) => ~NoMore(x, y),
           (Has(p, "get") \/ Has(p, "retire")) /\ Has(s, "notify") => Has(s, "clients")
    PROVE  /\ Shape(p \o s) /\ p \o s # <<>> /\ Head(p \o s) = p[1]
           /\ \A x : Has(p \o s, x) <=> Has(p, x) \/ Has(s, x)
  <1> DEFINE ps == p \o s
             n == Len(p)
  <1>1. /\ p \in Seq(Steps) /\ n \in Nat \ {0} /\ DOMAIN p = 1..n
        /\ s \in Seq(Steps) /\ Len(s) \in Nat \ {0} /\ DOMAIN s = 1..Len(s) /\ Head(s) = s[1]
    BY EmptySeq DEF Shape, Chain
  <1>2. /\ ps \in Seq(Steps) /\ Len(ps) = n + Len(s) /\ DOMAIN ps = 1..n + Len(s)
        /\ \A i \in 1..n : ps[i] = p[i]
        /\ \A i \in 1..Len(s) : ps[n + i] = s[i]
        /\ \A i \in n + 1..n + Len(s) : ps[i] = s[i - n] /\ i - n \in 1..Len(s)
    BY <1>1
  <1> HIDE DEF ps, n
  <1>3. ps # <<>> /\ Head(ps) = p[1]
    BY <1>1, <1>2
  <1>4. ps[Len(ps)] = "done"
    BY <1>1, <1>2 DEF Shape
  <1>5. \A x : Has(ps, x) <=> Has(p, x) \/ Has(s, x)
    <2>1. \A i \in 1..n : i \in DOMAIN ps /\ ps[i] = p[i]
      BY <1>1, <1>2
    <2>2. \A i \in 1..Len(s) : n + i \in DOMAIN ps /\ ps[n + i] = s[i]
      BY <1>1, <1>2
    <2>3. \A i \in DOMAIN ps : i \in 1..n \/ (i - n \in 1..Len(s) /\ ps[i] = s[i - n])
      BY <1>1, <1>2
    <2> QED
      BY <1>1, <2>1, <2>2, <2>3 DEF Has
  <1>6. \A i \in 1..Len(ps) - 1 : Follows(ps[i], ps[i + 1])
    <2> SUFFICES ASSUME NEW i \in 1..Len(ps) - 1
                 PROVE  Follows(ps[i], ps[i + 1])
      OBVIOUS
    <2>1. CASE i < n
      <3>1. i \in 1..n - 1 /\ ps[i] = p[i] /\ ps[i + 1] = p[i + 1]
        BY <1>1, <1>2, <2>1
      <3> QED
        BY <3>1 DEF Chain, n
    <2>2. CASE i = n
      BY <1>1, <1>2, <2>2 DEF n
    <2>3. CASE i > n
      <3>1. i - n \in 1..Len(s) - 1 /\ ps[i] = s[i - n] /\ ps[i + 1] = s[(i - n) + 1]
        BY <1>1, <1>2, <2>3
      <3> QED
        BY <3>1 DEF Shape, Chain
    <2> QED
      BY <1>1, <1>2, <2>1, <2>2, <2>3
  <1>7. \A i, j \in 1..Len(ps) : i < j => ~NoMore(ps[i], ps[j])
    <2> SUFFICES ASSUME NEW i \in 1..Len(ps), NEW j \in 1..Len(ps), i < j
                 PROVE  ~NoMore(ps[i], ps[j])
      OBVIOUS
    <2>1. CASE j <= n
      BY SMTT(60), <1>1, <1>2, <2>1 DEF Chain, n
    <2>2. CASE i <= n /\ j > n
      <3>0. i \in 1..n /\ ps[i] = p[i] /\ j - n \in 1..Len(s) /\ ps[j] = s[j - n]
        BY <1>1, <1>2, <2>2
      <3>1. Has(p, ps[i]) /\ Has(s, ps[j])
        BY <1>1, <3>0 DEF Has
      <3> QED
        BY <3>1
    <2>3. CASE i > n
      <3>1. i - n \in 1..Len(s) /\ j - n \in 1..Len(s) /\ i - n < j - n /\ ps[i] = s[i - n] /\ ps[j] = s[j - n]
        BY <1>1, <1>2, <2>3
      <3> QED
        BY <3>1 DEF Shape, Chain
    <2> QED
      BY <1>1, <1>2, <2>1, <2>2, <2>3
  <1>8. \A i \in 1..Len(ps) : ps[i] = "clients" => \E j \in 1..Len(ps) : i < j /\ ps[j] = "notify"
    <2> SUFFICES ASSUME NEW i \in 1..Len(ps), ps[i] = "clients"
                 PROVE  \E j \in 1..Len(ps) : i < j /\ ps[j] = "notify"
      OBVIOUS
    <2>1. CASE i <= n
      <3>1. PICK j \in 1..n : i < j /\ p[j] = "notify"
        BY <1>1, <1>2, <2>1 DEF Chain, n
      <3> QED
        BY <1>1, <1>2, <3>1
    <2>2. CASE i > n
      <3>1. PICK j \in 1..Len(s) : i - n < j /\ s[j] = "notify"
        BY <1>1, <1>2, <2>2 DEF Shape, Chain
      <3>2. n + j \in 1..Len(ps) /\ i < n + j /\ ps[n + j] = "notify"
        BY <1>1, <1>2, <3>1
      <3> QED
        BY <3>2
    <2> QED
      BY <1>1, <1>2, <2>1, <2>2
  <1>9. \A i, j \in 1..Len(ps) : i < j /\ ps[i] \in {"get", "retire"} /\ ps[j] = "notify" =>
           \E k \in 1..Len(ps) : i < k /\ ps[k] = "clients"
    <2> SUFFICES ASSUME NEW i \in 1..Len(ps), NEW j \in 1..Len(ps), i < j,
                        ps[i] \in {"get", "retire"}, ps[j] = "notify"
                 PROVE  \E k \in 1..Len(ps) : i < k /\ ps[k] = "clients"
      OBVIOUS
    <2>1. CASE j <= n
      <3>1. PICK k \in 1..n : i < k /\ p[k] = "clients"
        BY <1>1, <1>2, <2>1 DEF Chain, n
      <3> QED
        BY <1>1, <1>2, <3>1
    <2>2. CASE i <= n /\ j > n
      <3>0. i \in 1..n /\ ps[i] = p[i] /\ j - n \in 1..Len(s) /\ ps[j] = s[j - n]
        BY <1>1, <1>2, <2>2
      <3>1. (Has(p, "get") \/ Has(p, "retire")) /\ Has(s, "notify")
        BY <1>1, <3>0 DEF Has
      <3>2. PICK k \in 1..Len(s) : s[k] = "clients"
        BY <1>1, <3>1 DEF Has
      <3>3. n + k \in 1..Len(ps) /\ i < n + k /\ ps[n + k] = "clients"
        BY <1>1, <1>2, <2>2, <3>2
      <3> QED
        BY <3>3
    <2>3. CASE i > n
      <3>1. i - n \in 1..Len(s) /\ j - n \in 1..Len(s) /\ i - n < j - n /\ ps[i] = s[i - n] /\ ps[j] = s[j - n]
        BY <1>1, <1>2, <2>3
      <3>2. PICK k \in 1..Len(s) : i - n < k /\ s[k] = "clients"
        BY <3>1 DEF Shape, Chain
      <3>3. n + k \in 1..Len(ps) /\ i < n + k /\ ps[n + k] = "clients"
        BY <1>1, <1>2, <3>2
      <3> QED
        BY <3>3
    <2> QED
      BY <1>1, <1>2, <2>1, <2>2, <2>3
  <1> QED
    BY <1>2, <1>3, <1>4, <1>5, <1>6, <1>7, <1>8, <1>9 DEF Shape, Chain, ps

\* A piece of work: its first step, its last, and all of them; and what is left
\* of a request's work.
Chunk(p, first, last, S) ==
    Chain(p) /\ p # <<>> /\ p[1] = first /\ p[Len(p)] = last /\ \A x : Has(p, x) <=> x \in S
Work(s, first, S) ==
    Shape(s) /\ s # <<>> /\ Head(s) = first /\ \A x : Has(s, x) <=> x \in S

\* The pieces the handlers are made of.
LEMMA Chunks ==
    /\ Chunk(<<"login">>, "login", "login", {"login"})
    /\ Chunk(<<"reauth">>, "reauth", "reauth", {"reauth"})
    /\ Chunk(<<"seen">>, "seen", "seen", {"seen"})
    /\ Chunk(<<"signedin">>, "signedin", "signedin", {"signedin"})
    /\ Chunk(<<"signedin", "code", "addclient", "clientsttl">>, "signedin", "clientsttl",
             {"signedin", "code", "addclient", "clientsttl"})
    /\ Chunk(<<"signedin", "addmethod">>, "signedin", "addmethod", {"signedin", "addmethod"})
    /\ Chunk(GetSession, "get", "touch", {"get", "touch"})
    /\ Chunk(<<"clients", "notify">>, "clients", "notify", {"clients", "notify"})
    /\ Chunk(<<"del", "srem">>, "del", "srem", {"del", "srem"})
    /\ Chunk(CreateSession, "new", "indexttl", {"new", "save", "sadd", "indexttl"})
    /\ Chunk(DeleteByPublicId, "check", "unlist", {"check", "purge", "unlist"})
    /\ Chunk(<<"check", "retire", "unlist">>, "check", "unlist", {"check", "retire", "unlist"})
    /\ Chunk(<<"check", "retire", "unlist", "forget">>, "check", "forget",
             {"check", "retire", "unlist", "forget"})
    /\ Chunk(<<"list", "mget", "tidy">>, "list", "tidy", {"list", "mget", "tidy"})
    /\ Chunk(<<"list", "mget", "tidy", "endnext">>, "list", "endnext", Lists)
    /\ Chunk(<<"clients", "check", "purge", "unlist", "notify">>, "clients", "notify",
             {"clients", "check", "purge", "unlist", "notify"})
    /\ Work(<<"done">>, "done", {"done"})
  <1> USE DEF Chunk, Work, Shape, Chain, Follows, NoMore, Steps, Lists, Owns, Tells, Has
  <1>1. Chunk(<<"login">>, "login", "login", {"login"})
    OBVIOUS
  <1>2. Chunk(<<"reauth">>, "reauth", "reauth", {"reauth"})
    OBVIOUS
  <1>3. Chunk(<<"seen">>, "seen", "seen", {"seen"})
    OBVIOUS
  <1>4. Chunk(<<"signedin">>, "signedin", "signedin", {"signedin"})
    OBVIOUS
  <1>5. Chunk(<<"signedin", "code", "addclient", "clientsttl">>, "signedin", "clientsttl",
             {"signedin", "code", "addclient", "clientsttl"})
    OBVIOUS
  <1>6. Chunk(<<"signedin", "addmethod">>, "signedin", "addmethod", {"signedin", "addmethod"})
    OBVIOUS
  <1>7. Chunk(GetSession, "get", "touch", {"get", "touch"})
    BY DEF GetSession
  <1>8. Chunk(<<"clients", "notify">>, "clients", "notify", {"clients", "notify"})
    OBVIOUS
  <1>9. Chunk(<<"del", "srem">>, "del", "srem", {"del", "srem"})
    OBVIOUS
  <1>10. Chunk(CreateSession, "new", "indexttl", {"new", "save", "sadd", "indexttl"})
    BY DEF CreateSession
  <1>11. Chunk(DeleteByPublicId, "check", "unlist", {"check", "purge", "unlist"})
    BY DEF DeleteByPublicId
  <1>12. Chunk(<<"check", "retire", "unlist">>, "check", "unlist", {"check", "retire", "unlist"})
    OBVIOUS
  <1>13. Chunk(<<"check", "retire", "unlist", "forget">>, "check", "forget",
             {"check", "retire", "unlist", "forget"})
    OBVIOUS
  <1>14. Chunk(<<"list", "mget", "tidy">>, "list", "tidy", {"list", "mget", "tidy"})
    OBVIOUS
  <1>15. Chunk(<<"list", "mget", "tidy", "endnext">>, "list", "endnext", Lists)
    OBVIOUS
  <1>16. Chunk(<<"clients", "check", "purge", "unlist", "notify">>, "clients", "notify",
             {"clients", "check", "purge", "unlist", "notify"})
    OBVIOUS
  <1>17. Work(<<"done">>, "done", {"done"})
    OBVIOUS
  <1> HIDE DEF Chunk, Work
  <1> QED
    BY <1>1, <1>2, <1>3, <1>4, <1>5, <1>6, <1>7, <1>8, <1>9, <1>10, <1>11, <1>12, <1>13,
       <1>14, <1>15, <1>16, <1>17

\* A piece of work put in front of what is left.
LEMMA Joins ==
    ASSUME NEW p, NEW p1, NEW p2, NEW S, Chunk(p, p1, p2, S),
           NEW s, NEW s1, NEW T, Work(s, s1, T), Follows(p2, s1),
           \A x \in S, y \in T : ~NoMore(x, y),
           S \cap {"get", "retire"} # {} /\ "notify" \in T => "clients" \in T
    PROVE  Work(p \o s, p1, S \cup T)
  <1>1. \A x, y : Has(p, x) /\ Has(s, y) => ~NoMore(x, y)
    BY DEF Chunk, Work
  <1>2. (Has(p, "get") \/ Has(p, "retire")) /\ Has(s, "notify") => Has(s, "clients")
    BY DEF Chunk, Work
  <1> QED
    BY <1>1, <1>2, JoinShape DEF Chunk, Work

-----------------------------------------------------------------------------
(* How a request moves.                                                    *)

\* The first step, and the others.
LEMMA FirstAndRest ==
    ASSUME NEW s, Shape(s), s # <<>>
    PROVE  /\ Head(s) \in Steps /\ Has(s, Head(s))
           /\ \A x : Has(s, x) /\ x # Head(s) => ~NoMore(Head(s), x)
           /\ Head(s) = "clients" => Has(s, "notify")
           /\ Head(s) \in {"get", "retire"} /\ Has(s, "notify") => Has(s, "clients")
           /\ Head(s) = "done" => \A x : Has(s, x) <=> x = "done"
           /\ Head(s) \in {"login", "endnext"} =>
                 Tail(s) = <<"done">> /\ \A x : Has(s, x) <=> x \in {Head(s), "done"}
  <1>1. s \in Seq(Steps) /\ Len(s) \in Nat \ {0} /\ Head(s) = s[1] /\ DOMAIN s = 1..Len(s)
    BY EmptySeq DEF Shape, Chain
  <1>2. Head(s) \in Steps /\ Has(s, Head(s))
    BY <1>1, HeadTailProperties DEF Has
  <1>3. Head(s) = "done" => \A x : Has(s, x) <=> x = "done"
    BY DoneShape, Chunks DEF Work
  <1>4. CASE Head(s) = "done"
    BY <1>2, <1>3, <1>4 DEF NoMore
  <1>5. CASE Head(s) # "done"
    <2>1. /\ \A x : Has(s, x) /\ x # Head(s) => ~NoMore(Head(s), x)
          /\ Head(s) = "clients" => Has(s, "notify")
          /\ Head(s) \in {"get", "retire"} /\ Has(s, "notify") => Has(s, "clients")
      BY <1>5, TailShape
    <2>2. ASSUME Head(s) \in {"login", "endnext"}
          PROVE  Tail(s) = <<"done">> /\ \A x : Has(s, x) <=> x \in {Head(s), "done"}
      <3>1. Shape(Tail(s)) /\ Tail(s) # <<>> /\ Head(Tail(s)) = "done"
        BY <1>5, <2>2, TailShape DEF Follows
      <3>2. Tail(s) = <<"done">>
        BY <3>1, DoneShape
      <3>3. \A x : Has(Tail(s), x) <=> x = "done"
        BY <3>2, Chunks DEF Work
      <3> QED
        BY <1>2, <1>5, <3>2, <3>3, TailShape
    <2> QED
      BY <1>2, <1>5, <2>1, <2>2
  <1> QED
    BY <1>4, <1>5

\* What the next step and the steps left have to do with each other.
LEMMA AtPending ==
    ASSUME Shapes, NEW r \in Request
    PROVE  /\ \A x, y : At(r, x) /\ At(r, y) => x = y
           /\ \A x : At(r, x) => Pending(r, x) /\ todo[r] # <<>>
           /\ \A x, y : At(r, x) /\ Pending(r, y) /\ y # x => ~NoMore(x, y)
           /\ todo[r] # <<>> => \E x \in Steps : At(r, x)
           /\ todo[r] = <<>> => \A x : ~Pending(r, x)
           /\ At(r, "clients") => Pending(r, "notify")
           /\ (At(r, "get") \/ At(r, "retire")) /\ Pending(r, "notify") => Pending(r, "clients")
           /\ \A x : At(r, "done") /\ Pending(r, x) => x = "done"
           /\ \A x : At(r, "login") /\ Pending(r, x) => x \in {"login", "done"}
           /\ \A x : At(r, "endnext") /\ Pending(r, x) => x \in {"endnext", "done"}
  <1>1. \A x : Pending(r, x) <=> Has(todo[r], x)
    BY DEF Pending, Has
  <1>2. CASE todo[r] = <<>>
    <2>1. \A x : ~Pending(r, x) /\ ~At(r, x)
      BY <1>2 DEF Pending, At
    <2> QED
      BY <1>2, <2>1
  <1>3. CASE todo[r] # <<>>
    <2>1. \A x : At(r, x) <=> Head(todo[r]) = x
      BY <1>3 DEF At
    <2> QED
      BY <1>1, <1>3, <2>1, FirstAndRest DEF Shapes
  <1> QED
    BY <1>2, <1>3

\* Another request's steps.
LEMMA Others ==
    ASSUME NEW q \in Request, todo'[q] = todo[q]
    PROVE  /\ \A x : At(q, x)' <=> At(q, x)
           /\ \A x : Pending(q, x)' <=> Pending(q, x)
  BY DEF At, Pending

\* r has something left to do, and the others what they had.
Goes(r) ==
    /\ Shapes' /\ todo' \in [Request -> Seq(Steps)]
    /\ \A q \in Request \ {r} : todo'[q] = todo[q]
    /\ todo'[r] # <<>>

\* A request with something else left.
LEMMA Replaced ==
    ASSUME Shapes, todo \in [Request -> Seq(Steps)], NEW r \in Request, NEW s, NEW x, NEW S,
           Work(s, x, S), todo' = [todo EXCEPT ![r] = s]
    PROVE  /\ Goes(r)
           /\ \A y : At(r, y)' <=> y = x
           /\ \A y : Pending(r, y)' <=> y \in S
  <1>1. todo'[r] = s /\ \A q \in Request \ {r} : todo'[q] = todo[q]
    OBVIOUS
  <1>2. \A y : At(r, y)' <=> y = x
    BY <1>1 DEF At, Work
  <1>3. \A y : Pending(r, y)' <=> y \in S
    BY <1>1 DEF Pending, Has, Work
  <1> QED
    BY <1>1, <1>2, <1>3 DEF Shapes, Shape, Chain, Work, Goes

\* r takes step x and goes on to the next.
Passed(r, x) ==
    /\ Goes(r)
    /\ \E y : Follows(x, y) /\ \A z : At(r, z)' <=> z = y
    /\ \A z : Pending(r, z)' => Pending(r, z) /\ ~NoMore(x, z)
    /\ \A z : Pending(r, z) /\ z # x => Pending(r, z)'

\* One step.
LEMMA Continues ==
    ASSUME Shapes, todo \in [Request -> Seq(Steps)], NEW r \in Request, NEW x, At(r, x), x # "done",
           Continue(r)
    PROVE  Passed(r, x)
  <1>1. /\ todo[r] # <<>> /\ Head(todo[r]) = x /\ Shape(todo[r])
        /\ \A z : Pending(r, z) <=> Has(todo[r], z)
    BY DEF At, Shapes, Pending, Has
  <1> DEFINE S == {z \in Steps : Has(Tail(todo[r]), z)}
  <1>2. Shape(Tail(todo[r])) /\ Tail(todo[r]) # <<>> /\ Follows(x, Head(Tail(todo[r])))
    BY <1>1, TailShape
  <1>3. \A z : Has(Tail(todo[r]), z) => z \in Steps
    BY <1>2, ElementOfSeq DEF Shape, Chain, Has
  <1>4. Work(Tail(todo[r]), Head(Tail(todo[r])), S)
    BY <1>2, <1>3 DEF Work
  <1>5. todo' = [todo EXCEPT ![r] = Tail(todo[r])]
    BY DEF Continue
  <1>6. /\ \A z : z \in S => Pending(r, z) /\ ~NoMore(x, z)
        /\ \A z : Pending(r, z) /\ z # x => z \in S
    BY <1>1, <1>3, TailShape
  <1> HIDE DEF S
  <1>7. /\ Goes(r)
        /\ \A y : At(r, y)' <=> y = Head(Tail(todo[r]))
        /\ \A y : Pending(r, y)' <=> y \in S
    BY <1>4, <1>5, Replaced
  <1> QED
    BY <1>2, <1>6, <1>7 DEF Passed

\* Putting together is associative, and closed.
LEMMA Together ==
    ASSUME NEW a, NEW b, NEW c, a \in Seq(Steps), b \in Seq(Steps), c \in Seq(Steps)
    PROVE  (a \o b) \o c = a \o (b \o c) /\ a \o b \in Seq(Steps)
  BY ConcatAssociative

\* Revoking a session, step by step.
LEMMA Flattened ==
    <<"clients", "check", "purge", "unlist", "notify">>
        = <<"clients">> \o DeleteByPublicId \o <<"notify">>
  <1> DEFINE a == <<"clients">>
             b == <<"check", "purge", "unlist">>
             c == <<"notify">>
             p == <<"clients", "check", "purge", "unlist", "notify">>
  <1>1. /\ a \in Seq(Steps) /\ Len(a) = 1 /\ a[1] = "clients"
        /\ b \in Seq(Steps) /\ Len(b) = 3 /\ b[1] = "check" /\ b[2] = "purge" /\ b[3] = "unlist"
        /\ c \in Seq(Steps) /\ Len(c) = 1 /\ c[1] = "notify"
    BY DEF Steps
  <1>2. /\ p \in Seq(Steps) /\ Len(p) = 5
        /\ p[1] = "clients" /\ p[2] = "check" /\ p[3] = "purge" /\ p[4] = "unlist" /\ p[5] = "notify"
    BY DEF Steps
  <1> HIDE DEF a, b, c, p
  <1> DEFINE ab == a \o b
             q == ab \o c
  <1>3. /\ ab \in Seq(Steps) /\ Len(ab) = 4
        /\ ab[1] = a[1] /\ ab[2] = b[1] /\ ab[3] = b[2] /\ ab[4] = b[3]
    <2>1. /\ ab \in Seq(Steps) /\ Len(ab) = Len(a) + Len(b)
          /\ \A i \in 1..Len(a) + Len(b) : ab[i] = IF i <= Len(a) THEN a[i] ELSE b[i - Len(a)]
      BY <1>1, ConcatProperties
    <2> HIDE DEF ab
    <2> QED
      BY <1>1, <2>1
  <1> HIDE DEF ab
  <1>4. /\ q \in Seq(Steps) /\ Len(q) = 5
        /\ q[1] = ab[1] /\ q[2] = ab[2] /\ q[3] = ab[3] /\ q[4] = ab[4] /\ q[5] = c[1]
    <2>1. /\ q \in Seq(Steps) /\ Len(q) = Len(ab) + Len(c)
          /\ \A i \in 1..Len(ab) + Len(c) : q[i] = IF i <= Len(ab) THEN ab[i] ELSE c[i - Len(ab)]
      BY <1>1, <1>3, ConcatProperties
    <2> HIDE DEF q
    <2> QED
      BY <1>1, <1>3, <2>1
  <1> HIDE DEF q
  <1>5. \A i \in 1..5 : p[i] = q[i]
    BY <1>1, <1>2, <1>3, <1>4
  <1>6. p = q
    BY <1>2, <1>4, <1>5, SeqEqual
  <1> QED
    BY <1>6 DEF q, ab, a, b, c, p, DeleteByPublicId

\* The work of every handler, and of the two ways to sign in anew.
LEMMA Programs ==
    LET done == <<"done">> IN
    /\ Work(<<"login">> \o done, "login", {"login", "done"})
    /\ Work(<<"reauth">> \o done, "reauth", {"reauth", "done"})
    /\ Work(CreateSession \o done, "new", {"new", "save", "sadd", "indexttl", "done"})
    /\ Work((EndSession \o CreateSession) \o done, "clients",
            {"clients", "notify", "get", "touch", "del", "srem",
             "new", "save", "sadd", "indexttl", "done"})
    /\ Work((GetSession \o <<"login">>) \o done, "get", {"get", "touch", "login", "done"})
    /\ Work((GetSession \o <<"signedin", "code", "addclient", "clientsttl">>) \o done, "get",
            {"get", "touch", "signedin", "code", "addclient", "clientsttl", "done"})
    /\ Work((GetSession \o <<"signedin", "addmethod">>) \o done, "get",
            {"get", "touch", "signedin", "addmethod", "done"})
    /\ Work((GetSession \o <<"signedin">> \o EndSession) \o done, "get",
            {"get", "touch", "signedin", "clients", "notify", "del", "srem", "done"})
    /\ Work((<<"clients">> \o DeleteByPublicId \o <<"notify">>) \o done, "clients",
            {"clients", "check", "purge", "unlist", "notify", "done"})
    /\ Work(<<"list", "mget", "tidy">> \o done, "list", {"list", "mget", "tidy", "done"})
    /\ Work(<<"list", "mget", "tidy", "endnext">> \o done, "list", Lists \cup {"done"})
  <1> DEFINE done == <<"done">>
             cn == <<"clients", "notify">>
             ds == <<"del", "srem">>
             gs == GetSession
             cs == CreateSession
  <1> USE DEF Follows, NoMore, Lists, Owns, Tells
  <1>0. Work(done, "done", {"done"})
    BY Chunks
  <1> HIDE DEF done
  <1>0a. /\ done \in Seq(Steps) /\ cn \in Seq(Steps) /\ ds \in Seq(Steps) /\ gs \in Seq(Steps)
        /\ cs \in Seq(Steps)
    BY <1>0, Chunks DEF Chunk, Chain, Work, Shape
  <1>1. Work(<<"login">> \o done, "login", {"login"} \cup {"done"})
    BY <1>0, Chunks, Joins
  <1>2. Work(<<"reauth">> \o done, "reauth", {"reauth"} \cup {"done"})
    BY <1>0, Chunks, Joins
  <1>3. Work(cs \o done, "new", {"new", "save", "sadd", "indexttl"} \cup {"done"})
    BY <1>0, Chunks, Joins
  <1>4. Work(<<"list", "mget", "tidy">> \o done, "list", {"list", "mget", "tidy"} \cup {"done"})
    BY <1>0, Chunks, Joins
  <1>5. Work(<<"list", "mget", "tidy", "endnext">> \o done, "list", Lists \cup {"done"})
    BY <1>0, Chunks, Joins
  <1>6. Work((gs \o <<"login">>) \o done, "get", {"get", "touch", "login", "done"})
    <2>1. Work(gs \o (<<"login">> \o done), "get", {"get", "touch"} \cup ({"login"} \cup {"done"}))
      BY <1>1, Chunks, Joins
    <2>2. (gs \o <<"login">>) \o done = gs \o (<<"login">> \o done)
      <3>1. <<"login">> \in Seq(Steps)
        BY Chunks DEF Chunk, Chain
      <3> QED
        BY <1>0a, <3>1, Together
    <2>3. {"get", "touch"} \cup ({"login"} \cup {"done"}) = {"get", "touch", "login", "done"}
      OBVIOUS
    <2> QED
      BY <2>1, <2>2, <2>3
  <1>7. Work((gs \o <<"signedin", "code", "addclient", "clientsttl">>) \o done, "get",
             {"get", "touch", "signedin", "code", "addclient", "clientsttl", "done"})
    <2> DEFINE c == <<"signedin", "code", "addclient", "clientsttl">>
               C == {"signedin", "code", "addclient", "clientsttl"}
    <2>1. Chunk(c, "signedin", "clientsttl", C)
      BY Chunks
    <2> HIDE DEF c
    <2>2. Work(c \o done, "signedin", C \cup {"done"})
      BY <1>0, <2>1, Joins
    <2>3. Work(gs \o (c \o done), "get", {"get", "touch"} \cup (C \cup {"done"}))
      BY <2>2, Chunks, Joins
    <2>4. (gs \o c) \o done = gs \o (c \o done)
      <3> HIDE DEF gs, Follows, NoMore, Lists, Owns, Tells
      <3>1. c \in Seq(Steps)
        BY <2>1 DEF Chunk, Chain
      <3> QED
        BY <1>0a, <3>1, Together
    <2>5. {"get", "touch"} \cup (C \cup {"done"})
             = {"get", "touch", "signedin", "code", "addclient", "clientsttl", "done"}
      OBVIOUS
    <2> QED
      BY <2>3, <2>4, <2>5 DEF c
  <1>8. Work((gs \o <<"signedin", "addmethod">>) \o done, "get",
             {"get", "touch", "signedin", "addmethod", "done"})
    <2> DEFINE c == <<"signedin", "addmethod">>
               C == {"signedin", "addmethod"}
    <2>1. Chunk(c, "signedin", "addmethod", C)
      BY Chunks
    <2> HIDE DEF c
    <2>2. Work(c \o done, "signedin", C \cup {"done"})
      BY <1>0, <2>1, Joins
    <2>3. Work(gs \o (c \o done), "get", {"get", "touch"} \cup (C \cup {"done"}))
      BY <2>2, Chunks, Joins
    <2>4. (gs \o c) \o done = gs \o (c \o done)
      <3> HIDE DEF gs, Follows, NoMore, Lists, Owns, Tells
      <3>1. c \in Seq(Steps)
        BY <2>1 DEF Chunk, Chain
      <3> QED
        BY <1>0a, <3>1, Together
    <2>5. {"get", "touch"} \cup (C \cup {"done"}) = {"get", "touch", "signedin", "addmethod", "done"}
      OBVIOUS
    <2> QED
      BY <2>3, <2>4, <2>5 DEF c
  <1>9. \* What a sign-out has left to do, before s.
        ASSUME NEW s, NEW s1, NEW T, Work(s, s1, T), Follows("srem", s1),
               T \subseteq {"new", "save", "sadd", "indexttl", "done"}
        PROVE  /\ Work(EndSession \o s, "clients",
                       {"clients", "notify", "get", "touch", "del", "srem"} \cup T)
               /\ EndSession \in Seq(Steps)
    <2>0. s \in Seq(Steps)
      BY <1>9 DEF Work, Shape, Chain
    <2>1. Work(ds \o s, "del", {"del", "srem"} \cup T)
      <3>1. Chunk(ds, "del", "srem", {"del", "srem"})
        BY Chunks
      <3>2. \A x \in {"del", "srem"}, y \in T : ~NoMore(x, y)
        BY <1>9
      <3>3. {"del", "srem"} \cap {"get", "retire"} = {}
        OBVIOUS
      <3> HIDE DEF Follows, NoMore, Lists, Owns, Tells
      <3> QED
        BY <1>9, <3>1, <3>2, <3>3, Joins
    <2>2. Work(gs \o (ds \o s), "get", {"get", "touch"} \cup ({"del", "srem"} \cup T))
      <3>1. Chunk(gs, "get", "touch", {"get", "touch"})
        BY Chunks
      <3>2. \A x \in {"get", "touch"}, y \in {"del", "srem"} \cup T : ~NoMore(x, y)
        BY <1>9
      <3>3. "notify" \notin {"del", "srem"} \cup T
        BY <1>9
      <3>4. Follows("touch", "del")
        OBVIOUS
      <3> HIDE DEF Follows, NoMore, Lists, Owns, Tells
      <3> QED
        BY <2>1, <3>1, <3>2, <3>3, <3>4, Joins
    <2>3. Work(cn \o (gs \o (ds \o s)), "clients",
               {"clients", "notify"} \cup ({"get", "touch"} \cup ({"del", "srem"} \cup T)))
      <3>1. Chunk(cn, "clients", "notify", {"clients", "notify"})
        BY Chunks
      <3>2. \A x \in {"clients", "notify"}, y \in {"get", "touch"} \cup ({"del", "srem"} \cup T) :
               ~NoMore(x, y)
        BY <1>9
      <3>3. {"clients", "notify"} \cap {"get", "retire"} = {}
        OBVIOUS
      <3>4. Follows("notify", "get")
        OBVIOUS
      <3> HIDE DEF Follows, NoMore, Lists, Owns, Tells
      <3> QED
        BY <2>2, <3>1, <3>2, <3>3, <3>4, Joins
    <2>4. EndSession = cn \o (gs \o ds) /\ gs \o ds \in Seq(Steps)
      BY <1>0a DEF EndSession, Delete
    <2> HIDE DEF cn, gs, ds, Follows, NoMore, Lists, Owns, Tells
    <2>5. (cn \o (gs \o ds)) \o s = cn \o (gs \o (ds \o s)) /\ cn \o (gs \o ds) \in Seq(Steps)
      <3>1. cn \in Seq(Steps) /\ gs \in Seq(Steps) /\ ds \in Seq(Steps)
        BY <1>0a
      <3> QED
        <4> DEFINE x == gs \o ds
                   y == ds \o s
        <4>1. x \in Seq(Steps) /\ x \o s = gs \o y
          BY <2>0, <3>1, Together
        <4> HIDE DEF x, y
        <4>1a. x \in Seq(Steps) /\ cn \in Seq(Steps)
          BY <3>1, <4>1
        <4>2. (cn \o x) \o s = cn \o (x \o s)
          BY SMTT(60), <2>0, <4>1a, ConcatAssociative
        <4>3. cn \o x \in Seq(Steps)
          BY <3>1, <4>1
        <4>4. (cn \o x) \o s = cn \o (gs \o y)
          BY <4>1, <4>2
        <4> QED
          BY <4>3, <4>4 DEF x, y
    <2>6. {"clients", "notify"} \cup ({"get", "touch"} \cup ({"del", "srem"} \cup T))
             = {"clients", "notify", "get", "touch", "del", "srem"} \cup T
      OBVIOUS
    <2> QED
      BY <2>3, <2>4, <2>5, <2>6
  <1>10. Work((EndSession \o cs) \o done, "clients",
              {"clients", "notify", "get", "touch", "del", "srem",
               "new", "save", "sadd", "indexttl", "done"})
    <2> DEFINE T == {"new", "save", "sadd", "indexttl"} \cup {"done"}
    <2>1. Work(EndSession \o (cs \o done), "clients",
               {"clients", "notify", "get", "touch", "del", "srem"} \cup T) /\ EndSession \in Seq(Steps)
      BY <1>3, <1>9
    <2>2. (EndSession \o cs) \o done = EndSession \o (cs \o done)
      <3> HIDE DEF cs, Follows, NoMore, Lists, Owns, Tells
      <3> QED
        BY <1>0a, <2>1, Together
    <2>3. {"clients", "notify", "get", "touch", "del", "srem"} \cup T
             = {"clients", "notify", "get", "touch", "del", "srem",
                "new", "save", "sadd", "indexttl", "done"}
      OBVIOUS
    <2> QED
      BY <2>1, <2>2, <2>3
  <1>11. Work((gs \o <<"signedin">> \o EndSession) \o done, "get",
              {"get", "touch", "signedin", "clients", "notify", "del", "srem", "done"})
    <2> DEFINE si == <<"signedin">>
               T == {"clients", "notify", "get", "touch", "del", "srem"} \cup {"done"}
    <2>1. Work(EndSession \o done, "clients", T) /\ EndSession \in Seq(Steps)
      BY <1>0, <1>9
    <2>2. Chunk(si, "signedin", "signedin", {"signedin"})
      BY Chunks
    <2> HIDE DEF si
    <2>3. Work(si \o (EndSession \o done), "signedin", {"signedin"} \cup T)
      BY <2>1, <2>2, Joins
    <2>4. Work(gs \o (si \o (EndSession \o done)), "get", {"get", "touch"} \cup ({"signedin"} \cup T))
      BY <2>3, Chunks, Joins
    <2>5. si \in Seq(Steps)
      BY <2>2 DEF Chunk, Chain
    <2>6. (gs \o si \o EndSession) \o done = gs \o (si \o (EndSession \o done))
      <3> HIDE DEF gs, Follows, NoMore, Lists, Owns, Tells
      <3>0. gs \in Seq(Steps) /\ done \in Seq(Steps) /\ EndSession \in Seq(Steps)
        BY <1>0a, <2>1
      <3> QED
        <4> DEFINE x == gs \o si
                   y == EndSession \o done
        <4>1. x \in Seq(Steps) /\ y \in Seq(Steps)
          BY <2>5, <3>0
        <4>2. x \o y = gs \o (si \o y)
          <5> HIDE DEF y
          <5> QED
            BY SMTT(60), <2>5, <3>0, <4>1, ConcatAssociative
        <4> HIDE DEF x
        <4>3. (x \o EndSession) \o done = x \o (EndSession \o done)
          BY SMTT(60), <3>0, <4>1, ConcatAssociative
        <4> QED
          BY <4>2, <4>3 DEF x
    <2>7. {"get", "touch"} \cup ({"signedin"} \cup T)
             = {"get", "touch", "signedin", "clients", "notify", "del", "srem", "done"}
      OBVIOUS
    <2> QED
      BY <2>4, <2>6, <2>7 DEF si
  <1>12. Work((<<"clients">> \o DeleteByPublicId \o <<"notify">>) \o done, "clients",
              {"clients", "check", "purge", "unlist", "notify", "done"})
    <2> DEFINE p == <<"clients", "check", "purge", "unlist", "notify">>
    <2>1. Work(p \o done, "clients", {"clients", "check", "purge", "unlist", "notify"} \cup {"done"})
      BY <1>0, Chunks, Joins
    <2>2. p = <<"clients">> \o DeleteByPublicId \o <<"notify">>
      BY Flattened
    <2>3. {"clients", "check", "purge", "unlist", "notify"} \cup {"done"}
             = {"clients", "check", "purge", "unlist", "notify", "done"}
      OBVIOUS
    <2> QED
      BY <2>1, <2>2, <2>3
  <1>13. /\ {"login"} \cup {"done"} = {"login", "done"} /\ {"reauth"} \cup {"done"} = {"reauth", "done"}
         /\ {"new", "save", "sadd", "indexttl"} \cup {"done"}
               = {"new", "save", "sadd", "indexttl", "done"}
         /\ {"list", "mget", "tidy"} \cup {"done"} = {"list", "mget", "tidy", "done"}
    OBVIOUS
  <1> QED
    BY <1>1, <1>2, <1>3, <1>4, <1>5, <1>6, <1>7, <1>8, <1>10, <1>11, <1>12, <1>13 DEF done

\* What follows what is left after x, and what that has in common with before.
LEMMA Remains ==
    ASSUME Shapes, todo \in [Request -> Seq(Steps)], NEW r \in Request, NEW x, At(r, x), x # "done"
    PROVE  \E y, S :
              /\ Work(Tail(todo[r]), y, S) /\ Follows(x, y) /\ S \subseteq Steps
              /\ \A z \in S : Pending(r, z) /\ ~NoMore(x, z)
              /\ \A z : Pending(r, z) /\ z # x => z \in S
              /\ x \in {"get", "retire"} /\ "notify" \in S => "clients" \in S
  <1>1. /\ todo[r] # <<>> /\ Head(todo[r]) = x /\ Shape(todo[r])
        /\ \A z : Pending(r, z) <=> Has(todo[r], z)
    BY DEF At, Shapes, Pending, Has
  <1> DEFINE S == {z \in Steps : Has(Tail(todo[r]), z)}
  <1>2. Shape(Tail(todo[r])) /\ Tail(todo[r]) # <<>> /\ Follows(x, Head(Tail(todo[r])))
    BY <1>1, TailShape
  <1>3. \A z : Has(Tail(todo[r]), z) => z \in Steps
    BY <1>2, ElementOfSeq DEF Shape, Chain, Has
  <1>4. Work(Tail(todo[r]), Head(Tail(todo[r])), S)
    BY <1>2, <1>3 DEF Work
  <1>5. \A z : Has(Tail(todo[r]), z) <=> z \in S
    BY <1>3
  <1>6. /\ \A z \in S : Pending(r, z) /\ ~NoMore(x, z)
        /\ \A z : Pending(r, z) /\ z # x => z \in S
        /\ x \in {"get", "retire"} /\ "notify" \in S => "clients" \in S
    BY <1>1, <1>5, TailShape
  <1>7. S \subseteq Steps
    OBVIOUS
  <1> HIDE DEF S
  <1> QED
    BY <1>2, <1>4, <1>6, <1>7

\* The work after that.
LEMMA RemainsAfter ==
    ASSUME NEW s, NEW x, NEW S, Work(s, x, S), x # "done", S \subseteq Steps
    PROVE  \E y, T :
              /\ Work(Tail(s), y, T) /\ Follows(x, y) /\ T \subseteq S
              /\ \A z \in T : ~NoMore(x, z)
              /\ \A z \in S : z # x => z \in T
              /\ x \in {"get", "retire"} /\ "notify" \in T => "clients" \in T
  <1>1. Shape(s) /\ s # <<>> /\ Head(s) = x /\ \A z : Has(s, z) <=> z \in S
    BY DEF Work
  <1> DEFINE T == {z \in S : Has(Tail(s), z)}
  <1>2. Shape(Tail(s)) /\ Tail(s) # <<>> /\ Follows(x, Head(Tail(s)))
    BY <1>1, TailShape
  <1>3. \A z : Has(Tail(s), z) => Has(s, z) /\ ~NoMore(x, z)
    BY <1>1, TailShape
  <1>4. \A z : Has(Tail(s), z) <=> z \in T
    BY <1>1, <1>3
  <1>5. Work(Tail(s), Head(Tail(s)), T)
    BY <1>2, <1>4 DEF Work
  <1>6. /\ \A z \in T : ~NoMore(x, z)
        /\ \A z \in S : z # x => z \in T
        /\ x \in {"get", "retire"} /\ "notify" \in T => "clients" \in T
    BY <1>1, <1>3, <1>4, TailShape
  <1>7. T \subseteq S
    OBVIOUS
  <1> HIDE DEF T
  <1> QED
    BY <1>2, <1>5, <1>6, <1>7

\* What is left after a get and its touch.
LEMMA AfterGet ==
    ASSUME Shapes, todo \in [Request -> Seq(Steps)], NEW r \in Request, At(r, "get")
    PROVE  \E y, T :
              /\ Work(Tail(Tail(todo[r])), y, T) /\ y \in {"login", "signedin", "del"}
              /\ \A z \in T : Pending(r, z) /\ ~NoMore("get", z)
              /\ \A z : Pending(r, z) /\ z \notin {"get", "touch"} => z \in T
              /\ "notify" \in T => "clients" \in T
  <1>1. PICK y, S :
              /\ Work(Tail(todo[r]), y, S) /\ Follows("get", y) /\ S \subseteq Steps
              /\ \A z \in S : Pending(r, z) /\ ~NoMore("get", z)
              /\ \A z : Pending(r, z) /\ z # "get" => z \in S
              /\ "notify" \in S => "clients" \in S
    BY Remains
  <1>2. y = "touch"
    BY <1>1 DEF Follows
  <1>3. PICK y2, T :
              /\ Work(Tail(Tail(todo[r])), y2, T) /\ Follows("touch", y2) /\ T \subseteq S
              /\ \A z \in S : z # "touch" => z \in T
    <2> DEFINE t == Tail(todo[r])
    <2>1. Work(t, "touch", S) /\ S \subseteq Steps
      BY <1>1, <1>2
    <2> HIDE DEF t
    <2>2. \E y2, T :
             /\ Work(Tail(t), y2, T) /\ Follows("touch", y2) /\ T \subseteq S
             /\ \A z \in S : z # "touch" => z \in T
      BY <2>1, RemainsAfter
    <2> QED
      BY <2>2 DEF t
  <1>4. y2 \in {"login", "signedin", "del"}
    BY <1>3 DEF Follows
  <1> QED
    BY <1>1, <1>3, <1>4

\* get finds no session: there is nothing to touch.
LEMMA Misses ==
    ASSUME Shapes, todo \in [Request -> Seq(Steps)], NEW r \in Request, At(r, "get"),
           todo' = [todo EXCEPT ![r] = Tail(Tail(@))]
    PROVE  /\ Goes(r)
           /\ \E y \in {"login", "signedin", "del"} : \A z : At(r, z)' <=> z = y
           /\ \A z : Pending(r, z)' => Pending(r, z) /\ ~NoMore("get", z)
           /\ \A z : Pending(r, z) /\ z \notin {"get", "touch"} => Pending(r, z)'
  <1>1. PICK y, T :
              /\ Work(Tail(Tail(todo[r])), y, T) /\ y \in {"login", "signedin", "del"}
              /\ \A z \in T : Pending(r, z) /\ ~NoMore("get", z)
              /\ \A z : Pending(r, z) /\ z \notin {"get", "touch"} => z \in T
    BY AfterGet
  <1>2. /\ Goes(r)
        /\ \A z : At(r, z)' <=> z = y
        /\ \A z : Pending(r, z)' <=> z \in T
    BY <1>1, Replaced
  <1> QED
    BY <1>1, <1>2

\* get finds a session that has outlived its limit: it is deleted first.
LEMMA Outlives ==
    ASSUME Shapes, todo \in [Request -> Seq(Steps)], NEW r \in Request, At(r, "get"),
           todo' = [todo EXCEPT ![r] = <<"check", "retire", "unlist", "forget">> \o Tail(Tail(@))]
    PROVE  /\ Goes(r)
           /\ \A z : At(r, z)' <=> z = "check"
           /\ \A z : Pending(r, z)' => z \in {"check", "retire", "unlist", "forget"}
                                         \/ (Pending(r, z) /\ ~NoMore("get", z))
           /\ \A z \in {"check", "retire", "unlist", "forget"} : Pending(r, z)'
           /\ \A z : Pending(r, z) /\ z \notin {"get", "touch"} => Pending(r, z)'
  <1>1. PICK y, T :
              /\ Work(Tail(Tail(todo[r])), y, T) /\ y \in {"login", "signedin", "del"}
              /\ \A z \in T : Pending(r, z) /\ ~NoMore("get", z)
              /\ \A z : Pending(r, z) /\ z \notin {"get", "touch"} => z \in T
              /\ "notify" \in T => "clients" \in T
    BY AfterGet
  <1>4. Follows("forget", y)
    BY <1>1 DEF Follows
  <1> DEFINE p == <<"check", "retire", "unlist", "forget">>
             P == {"check", "retire", "unlist", "forget"}
  <1>5. \A z \in P, t \in T : ~NoMore(z, t)
    <2>1. \A t \in T : ~NoMore("get", t)
      BY <1>1
    <2> QED
      BY <2>1 DEF NoMore, Lists, Owns, Tells
  <1>7. Chunk(p, "check", "forget", P)
    BY Chunks
  <1> HIDE DEF p
  <1>8. Work(p \o Tail(Tail(todo[r])), "check", P \cup T)
    <2> HIDE DEF P
    <2> QED
      BY <1>1, <1>4, <1>5, <1>7, Joins
  <1>9. todo' = [todo EXCEPT ![r] = p \o Tail(Tail(todo[r]))]
    BY DEF p
  <1>10. /\ Goes(r)
         /\ \A z : At(r, z)' <=> z = "check"
         /\ \A z : Pending(r, z)' <=> z \in P \cup T
    <2> DEFINE w == p \o Tail(Tail(todo[r]))
               W == P \cup T
    <2>1. Work(w, "check", W) /\ todo' = [todo EXCEPT ![r] = w]
      BY <1>8, <1>9
    <2> HIDE DEF w, W
    <2>2. /\ Goes(r)
          /\ \A z : At(r, z)' <=> z = "check"
          /\ \A z : Pending(r, z)' <=> z \in W
      BY <2>1, Replaced
    <2> QED
      BY <2>2 DEF W
  <1> QED
    BY <1>1, <1>10

\* check finds that the session is gone, or is somebody else's.
LEMMA Fails ==
    ASSUME Shapes, todo \in [Request -> Seq(Steps)], NEW r \in Request, At(r, "check"),
           todo' = [todo EXCEPT ![r] = Tail(Tail(Tail(@)))]
    PROVE  /\ Goes(r)
           /\ \E y \in {"forget", "notify", "tidy", "endnext"} : \A z : At(r, z)' <=> z = y
           /\ \A z : Pending(r, z)' => Pending(r, z) /\ ~NoMore("unlist", z)
           /\ \A z : Pending(r, z) /\ z \notin {"check", "purge", "retire", "unlist"} => Pending(r, z)'
           /\ ~Pending(r, "purge")'
           /\ Pending(r, "del")' /\ Pending(r, "notify")' => Pending(r, "clients")'
           /\ Pending(r, "purge") => ~Pending(r, "del")'
  <1>1. PICK y, S :
              /\ Work(Tail(todo[r]), y, S) /\ Follows("check", y) /\ S \subseteq Steps
              /\ \A z \in S : Pending(r, z)
              /\ \A z : Pending(r, z) /\ z # "check" => z \in S
    BY Remains
  <1>2. y \in {"purge", "retire"}
    BY <1>1 DEF Follows
  <1>3. PICK y2, T :
              /\ Work(Tail(Tail(todo[r])), y2, T) /\ Follows(y, y2) /\ T \subseteq S
              /\ \A z \in T : ~NoMore(y, z)
              /\ \A z \in S : z # y => z \in T
              /\ y = "retire" /\ "notify" \in T => "clients" \in T
    <2> DEFINE t == Tail(todo[r])
    <2>1. Work(t, y, S) /\ S \subseteq Steps /\ y # "done"
      BY <1>1, <1>2
    <2> HIDE DEF t
    <2>2. \E y2, T :
             /\ Work(Tail(t), y2, T) /\ Follows(y, y2) /\ T \subseteq S
             /\ \A z \in T : ~NoMore(y, z)
             /\ \A z \in S : z # y => z \in T
             /\ y \in {"get", "retire"} /\ "notify" \in T => "clients" \in T
      BY SMTT(60), <2>1, RemainsAfter
    <2> QED
      BY <2>2 DEF t
  <1>4. y2 = "unlist" /\ T \subseteq Steps
    BY <1>1, <1>2, <1>3 DEF Follows
  <1>5. PICK y3, U :
              /\ Work(Tail(Tail(Tail(todo[r]))), y3, U) /\ Follows("unlist", y3) /\ U \subseteq T
              /\ \A z \in U : ~NoMore("unlist", z)
              /\ \A z \in T : z # "unlist" => z \in U
    BY <1>3, <1>4, RemainsAfter
  <1>6. y3 \in {"forget", "notify", "tidy", "endnext"}
    BY <1>5 DEF Follows
  <1>7. /\ Goes(r)
        /\ \A z : At(r, z)' <=> z = y3
        /\ \A z : Pending(r, z)' <=> z \in U
    BY <1>5, Replaced
  <1>8. "purge" \notin T /\ (y = "purge" => "del" \notin T)
    BY <1>2, <1>3 DEF NoMore, Owns
  <1>9. Pending(r, "purge") => y = "purge"
    BY <1>1, <1>2, <1>3, <1>8
  <1>10. "notify" \in U /\ "del" \in U => "clients" \in U
    BY <1>2, <1>3, <1>5, <1>8
  <1>11. \A z : z \in U => Pending(r, z) /\ ~NoMore("unlist", z)
    BY <1>1, <1>3, <1>5
  <1>12. \A z : Pending(r, z) /\ z \notin {"check", "purge", "retire", "unlist"} => z \in U
    BY <1>1, <1>2, <1>3, <1>5
  <1> QED
    BY <1>5, <1>6, <1>7, <1>8, <1>9, <1>10, <1>11, <1>12

\* touch: last_seen_at is to be saved.
LEMMA Seen ==
    ASSUME Shapes, todo \in [Request -> Seq(Steps)], NEW r \in Request, At(r, "touch"),
           Call(r, <<"seen">>)
    PROVE  /\ Goes(r)
           /\ \A z : At(r, z)' <=> z = "seen"
           /\ \A z : Pending(r, z)' => z = "seen" \/ (Pending(r, z) /\ ~NoMore("touch", z))
           /\ \A z : Pending(r, z) /\ z # "touch" => Pending(r, z)'
  <1> DEFINE p == <<"seen">>
  <1>1. PICK y, S :
              /\ Work(Tail(todo[r]), y, S) /\ Follows("touch", y) /\ S \subseteq Steps
              /\ \A z \in S : Pending(r, z) /\ ~NoMore("touch", z)
              /\ \A z : Pending(r, z) /\ z # "touch" => z \in S
    BY Remains
  <1>2. Follows("seen", y)
    BY <1>1 DEF Follows
  <1>3. \A z \in {"seen"}, t \in S : ~NoMore(z, t)
    BY <1>1 DEF NoMore, Lists, Owns, Tells
  <1>4. Chunk(p, "seen", "seen", {"seen"})
    BY Chunks
  <1> HIDE DEF p
  <1>5. Work(p \o Tail(todo[r]), "seen", {"seen"} \cup S)
    BY <1>1, <1>2, <1>3, <1>4, Joins
  <1>6. todo' = [todo EXCEPT ![r] = p \o Tail(todo[r])]
    BY DEF p, Call
  <1>7. /\ Goes(r)
        /\ \A z : At(r, z)' <=> z = "seen"
        /\ \A z : Pending(r, z)' <=> z \in {"seen"} \cup S
    BY <1>5, <1>6, Replaced
  <1> QED
    BY <1>1, <1>7

\* The answer goes out early.
LEMMA Returns ==
    ASSUME Shapes, todo \in [Request -> Seq(Steps)], NEW r \in Request, Return(r)
    PROVE  Goes(r) /\ (\A z : At(r, z)' <=> z = "done") /\ (\A z : Pending(r, z)' <=> z = "done")
  <1> DEFINE w == <<"done">>
             W == {"done"}
  <1>1. Work(w, "done", W) /\ todo' = [todo EXCEPT ![r] = w]
    BY Chunks DEF Return
  <1> HIDE DEF w, W
  <1>2. Goes(r) /\ (\A z : At(r, z)' <=> z = "done") /\ (\A z : Pending(r, z)' <=> z \in W)
    BY <1>1, Replaced
  <1> QED
    BY <1>2 DEF W

\* Tidying up comes to a session that has outlived its limit.
LEMMA Outdated ==
    ASSUME Shapes, todo \in [Request -> Seq(Steps)], NEW r \in Request, At(r, "tidy"),
           todo' = [todo EXCEPT ![r] = <<"check", "retire", "unlist">> \o @]
    PROVE  /\ Goes(r)
           /\ \A z : At(r, z)' <=> z = "check"
           /\ \A z : Pending(r, z)' <=> z \in {"check", "retire", "unlist"} \/ Pending(r, z)
  <1> DEFINE p == <<"check", "retire", "unlist">>
             P == {"check", "retire", "unlist"}
             T == {z \in Steps : Pending(r, z)}
  <1>1. /\ todo[r] # <<>> /\ Head(todo[r]) = "tidy" /\ Shape(todo[r])
        /\ \A z : Pending(r, z) <=> Has(todo[r], z)
    BY DEF At, Shapes, Pending, Has
  <1>2. \A z : Pending(r, z) <=> z \in T
    BY <1>1, ElementOfSeq DEF Pending, Shape, Chain
  <1>3. Work(todo[r], "tidy", T)
    BY <1>1, <1>2 DEF Work
  <1>4. \A z \in P, t \in T : ~NoMore(z, t)
    <2>1. \A t \in T : t # "tidy" => ~NoMore("tidy", t)
      BY <1>2, AtPending
    <2> QED
      BY <2>1 DEF NoMore, Lists, Owns, Tells
  <1>5. "notify" \notin T
    BY <1>2, AtPending DEF NoMore, Lists, Tells
  <1>6. Chunk(p, "check", "unlist", P)
    BY Chunks
  <1>7. Follows("unlist", "tidy")
    BY DEF Follows
  <1> HIDE DEF p, T
  <1>8. Work(p \o todo[r], "check", P \cup T)
    <2> HIDE DEF P
    <2> QED
      BY <1>3, <1>4, <1>5, <1>6, <1>7, Joins
  <1>9. todo' = [todo EXCEPT ![r] = p \o todo[r]]
    BY DEF p
  <1>10. /\ Goes(r)
         /\ \A z : At(r, z)' <=> z = "check"
         /\ \A z : Pending(r, z)' <=> z \in P \cup T
    <2> HIDE DEF P
    <2> QED
      BY <1>8, <1>9, Replaced
  <1> QED
    BY <1>2, <1>10

\* The next session is ended.
LEMMA EndsOne ==
    ASSUME Shapes, todo \in [Request -> Seq(Steps)], NEW r \in Request, At(r, "endnext"),
           todo' = [todo EXCEPT ![r] = <<"clients", "notify">> \o DeleteByPublicId \o @]
    PROVE  /\ Goes(r)
           /\ \A z : At(r, z)' <=> z = "clients"
           /\ \A z : Pending(r, z)' <=>
                 z \in {"clients", "notify", "check", "purge", "unlist", "endnext", "done"}
  <1> DEFINE p == <<"clients", "notify">>
             d == DeleteByPublicId
             T == {"endnext", "done"}
  <1>1. /\ todo[r] # <<>> /\ Head(todo[r]) = "endnext" /\ Shape(todo[r])
    BY DEF At, Shapes
  <1>2. \A x : Has(todo[r], x) <=> x \in T
    BY <1>1, FirstAndRest
  <1>3. Work(todo[r], "endnext", T)
    BY <1>1, <1>2 DEF Work
  <1>4. Chunk(d, "check", "unlist", {"check", "purge", "unlist"})
    BY Chunks
  <1>5. Chunk(p, "clients", "notify", {"clients", "notify"})
    BY Chunks
  <1> HIDE DEF p, d
  <1>6. Work(d \o todo[r], "check", {"check", "purge", "unlist"} \cup T)
    <2>1. Follows("unlist", "endnext")
      BY DEF Follows
    <2>2. \A x \in {"check", "purge", "unlist"}, y \in T : ~NoMore(x, y)
      BY DEF NoMore, Lists, Owns, Tells
    <2>3. "notify" \notin T
      OBVIOUS
    <2> HIDE DEF T
    <2> QED
      BY <1>3, <1>4, <2>1, <2>2, <2>3, Joins
  <1>7. Work(p \o (d \o todo[r]), "clients",
             {"clients", "notify"} \cup ({"check", "purge", "unlist"} \cup T))
    <2>1. Follows("notify", "check")
      BY DEF Follows
    <2>2. \A x \in {"clients", "notify"}, y \in {"check", "purge", "unlist"} \cup T : ~NoMore(x, y)
      BY DEF NoMore, Lists, Owns, Tells
    <2>3. "notify" \notin {"check", "purge", "unlist"} \cup T
      OBVIOUS
    <2> HIDE DEF T
    <2> QED
      BY <1>5, <1>6, <2>1, <2>2, <2>3, Joins
  <1>8. (p \o d) \o todo[r] = p \o (d \o todo[r])
    <2>1. p \in Seq(Steps) /\ d \in Seq(Steps) /\ todo[r] \in Seq(Steps)
      BY <1>4, <1>5 DEF Chunk, Chain
    <2> QED
      BY SMTT(60), <2>1, ConcatAssociative
  <1>9. todo' = [todo EXCEPT ![r] = p \o (d \o todo[r])]
    <2>1. todo' = [todo EXCEPT ![r] = (p \o d) \o todo[r]]
      BY DEF p, d
    <2> QED
      BY <1>8, <2>1
  <1>10. {"clients", "notify"} \cup ({"check", "purge", "unlist"} \cup T)
            = {"clients", "notify", "check", "purge", "unlist", "endnext", "done"}
    OBVIOUS
  <1> DEFINE w == p \o (d \o todo[r])
             W == {"clients", "notify", "check", "purge", "unlist", "endnext", "done"}
  <1>11. Work(w, "clients", W) /\ todo' = [todo EXCEPT ![r] = w]
    BY <1>7, <1>9, <1>10
  <1> HIDE DEF w, W
  <1>12. /\ Goes(r)
         /\ \A z : At(r, z)' <=> z = "clients"
         /\ \A z : Pending(r, z)' <=> z \in W
    BY <1>11, Replaced
  <1> QED
    BY <1>12 DEF W

\* The password was right.
LEMMA SignsIn ==
    ASSUME Shapes, todo \in [Request -> Seq(Steps)], NEW r \in Request, At(r, "login")
    PROVE  /\ Call(r, CreateSession) =>
                 /\ Goes(r) /\ \A z : At(r, z)' <=> z = "new"
                 /\ \A z : Pending(r, z)' <=> z \in {"new", "save", "sadd", "indexttl", "done"}
           /\ Call(r, <<"reauth">>) =>
                 /\ Goes(r) /\ \A z : At(r, z)' <=> z = "reauth"
                 /\ \A z : Pending(r, z)' <=> z \in {"reauth", "done"}
           /\ Call(r, EndSession \o CreateSession) =>
                 /\ Goes(r) /\ \A z : At(r, z)' <=> z = "clients"
                 /\ \A z : Pending(r, z)' <=>
                       z \in {"clients", "notify", "get", "touch", "del", "srem",
                              "new", "save", "sadd", "indexttl", "done"}
  <1>1. todo[r] # <<>> /\ Head(todo[r]) = "login" /\ Shape(todo[r])
    BY DEF At, Shapes
  <1>2. Tail(todo[r]) = <<"done">>
    BY <1>1, FirstAndRest
  <1>3. \A p : Call(r, p) => todo' = [todo EXCEPT ![r] = p \o <<"done">>]
    BY <1>2 DEF Call
  <1>4. ASSUME NEW p, NEW x, NEW S, Work(p \o <<"done">>, x, S), Call(r, p)
        PROVE  Goes(r) /\ (\A z : At(r, z)' <=> z = x) /\ (\A z : Pending(r, z)' <=> z \in S)
    BY <1>3, <1>4, Replaced
  <1>5. /\ Work(CreateSession \o <<"done">>, "new", {"new", "save", "sadd", "indexttl", "done"})
        /\ Work(<<"reauth">> \o <<"done">>, "reauth", {"reauth", "done"})
        /\ Work((EndSession \o CreateSession) \o <<"done">>, "clients",
                {"clients", "notify", "get", "touch", "del", "srem",
                 "new", "save", "sadd", "indexttl", "done"})
    BY Programs
  <1> QED
    BY <1>4, <1>5

\* The answer goes out.
LEMMA Finishes ==
    ASSUME Shapes, todo \in [Request -> Seq(Steps)], NEW r \in Request,
           todo' = [todo EXCEPT ![r] = <<>>]
    PROVE  /\ Shapes' /\ todo' \in [Request -> Seq(Steps)]
           /\ \A q \in Request \ {r} : todo'[q] = todo[q]
           /\ todo'[r] = <<>> /\ (\A z : ~At(r, z)') /\ (\A z : ~Pending(r, z)')
  <1>1. todo'[r] = <<>> /\ \A q \in Request \ {r} : todo'[q] = todo[q]
    OBVIOUS
  <1>2. Shape(<<>>)
    BY DEF Shape, Chain
  <1>3. Shapes' /\ todo' \in [Request -> Seq(Steps)]
    BY <1>1, <1>2 DEF Shapes
  <1>4. (\A z : ~At(r, z)') /\ (\A z : ~Pending(r, z)')
    BY <1>1 DEF At, Pending
  <1> QED
    BY <1>1, <1>3, <1>4

\* A request arrives.
LEMMA Starts ==
    ASSUME Shapes, todo \in [Request -> Seq(Steps)], NEW r \in Request,
           NEW p, NEW x, NEW S, Work(p \o <<"done">>, x, S),
           NEW s, NEW u, NEW a, Start(r, p, s, u, a)
    PROVE  Goes(r) /\ (\A z : At(r, z)' <=> z = x) /\ (\A z : Pending(r, z)' <=> z \in S)
  BY Replaced DEF Start

-----------------------------------------------------------------------------
(* What a request has in hand.                                             *)

\* A request that nobody moved.
Still(q) ==
    /\ todo'[q] = todo[q] /\ sid'[q] = sid[q] /\ login'[q] = login[q] /\ who'[q] = who[q]
    /\ arg'[q] = arg[q] /\ names'[q] = names[q] /\ found'[q] = found[q]
    /\ missing'[q] = missing[q] /\ stale'[q] = stale[q] /\ due'[q] = due[q]

Alone(r) == \A q \in Request \ {r} : Still(q)

\* The requests as records of their own: TypeOK says that much of each.
Records ==
    /\ todo \in [Request -> Seq(Steps)]
    /\ sid \in [Request -> Session \cup {None}]
    /\ login \in [Request -> Held \cup {None}]
    /\ who \in [Request -> User \cup {None}]
    /\ arg \in [Request -> Client \cup Factor \cup Session \cup {None}]
    /\ names \in [Request -> SUBSET Client]
    /\ found \in [Request -> SUBSET Session]
    /\ missing \in [Request -> SUBSET Session]
    /\ stale \in [Request -> SUBSET Session]
    /\ due \in [Request -> SUBSET Session]

\* One request at a time.
LEMMA OneAtATime ==
    ASSUME TypeOK, NEW r \in Request, Step(r) \/ Arrive(r)
    PROVE  Alone(r)
  <1>0. Records
    BY DEF TypeOK, Records
  <1> USE DEF locals, history, redis, Continue, Call, Return, Save
  <1>1. CASE Get(r)
    BY <1>0, <1>1 DEF Get, Records, Alone, Still
  <1>2. CASE Forget(r)
    BY <1>0, <1>2 DEF Forget, Records, Alone, Still
  <1>3. CASE Touch(r)
    BY <1>0, <1>3 DEF Touch, Records, Alone, Still
  <1>4. CASE SaveSeen(r)
    BY <1>0, <1>4 DEF SaveSeen, Records, Alone, Still
  <1>5. CASE Del(r)
    BY <1>0, <1>5 DEF Del, Records, Alone, Still
  <1>6. CASE Retire(r)
    BY <1>0, <1>6 DEF Retire, Records, Alone, Still
  <1>7. CASE Unindex(r)
    BY <1>0, <1>7 DEF Unindex, Records, Alone, Still
  <1>8. CASE Check(r)
    BY <1>0, <1>8 DEF Check, Records, Alone, Still
  <1>9. CASE Unlist(r)
    BY <1>0, <1>9 DEF Unlist, Records, Alone, Still
  <1>10. CASE ReadClients(r)
    BY <1>0, <1>10 DEF ReadClients, Records, Alone, Still
  <1>11. CASE Notify(r)
    BY <1>0, <1>11 DEF Notify, Records, Alone, Still
  <1>12. CASE ReadIndex(r)
    BY <1>0, <1>12 DEF ReadIndex, Records, Alone, Still
  <1>13. CASE ReadSessions(r)
    BY <1>0, <1>13 DEF ReadSessions, Records, Alone, Still
  <1>14. CASE Tidy(r)
    BY <1>0, <1>14 DEF Tidy, Records, Alone, Still
  <1>15. CASE EndNext(r)
    BY <1>0, <1>15 DEF EndNext, Records, Alone, Still
  <1>16. CASE SignedInOnly(r)
    BY <1>0, <1>16 DEF SignedInOnly, Records, Alone, Still
  <1>17. CASE IssueCode(r)
    BY <1>0, <1>17 DEF IssueCode, Records, Alone, Still
  <1>18. CASE AddClient(r)
    BY <1>0, <1>18 DEF AddClient, Records, Alone, Still
  <1>19. CASE ExtendClients(r)
    BY <1>0, <1>19 DEF ExtendClients, Records, Alone, Still
  <1>20. CASE Rejected(r)
    BY <1>0, <1>20 DEF Rejected, Records, Alone, Still
  <1>21. CASE AddMethod(r)
    BY <1>0, <1>21 DEF AddMethod, Records, Alone, Still
  <1>22. CASE SignIn(r)
    BY <1>0, <1>22 DEF SignIn, Records, Alone, Still
  <1>23. CASE Reauthenticate(r)
    BY <1>0, <1>23 DEF Reauthenticate, Records, Alone, Still
  <1>24. CASE NewSession(r)
    BY <1>0, <1>24 DEF NewSession, Records, Alone, Still
  <1>25. CASE SaveNew(r)
    BY <1>0, <1>25 DEF SaveNew, Records, Alone, Still
  <1>26. CASE Index(r)
    BY <1>0, <1>26 DEF Index, Records, Alone, Still
  <1>27. CASE ExtendIndex(r)
    BY <1>0, <1>27 DEF ExtendIndex, Records, Alone, Still
  <1>28. CASE Done(r)
    BY <1>0, <1>28 DEF Done, Records, Alone, Still
  <1>29. ASSUME NEW p, NEW s, NEW u, NEW a, Start(r, p, s, u, a)
        PROVE  Alone(r)
    BY <1>0, <1>29 DEF Start, Records, Alone, Still
  <1>30. CASE Arrive(r)
    BY <1>29, <1>30 DEF Arrive, Login, Authorize, StepUp, Logout, RevokeSession, ListSessions,
       EndAllSessions
  <1> QED
    BY <1>1, <1>2, <1>3, <1>4, <1>5, <1>6, <1>7, <1>8, <1>9, <1>10, <1>11, <1>12, <1>13, <1>14,
       <1>15, <1>16, <1>17, <1>18, <1>19, <1>20, <1>21, <1>22, <1>23, <1>24, <1>25, <1>26, <1>27,
       <1>28, <1>30 DEF Step

\* Nobody else's readiness is disturbed.
LEMMA ReadyAlone ==
    ASSUME InPlace, NEW r \in Request, Alone(r), Ready(r)'
    PROVE  InPlace'
  <1> SUFFICES ASSUME NEW q \in Request \ {r}
               PROVE  Ready(q)'
    BY DEF InPlace
  <1>1. Still(q) /\ Ready(q)
    BY DEF Alone, InPlace
  <1>2. (\A x : At(q, x)' <=> At(q, x)) /\ (\A x : Pending(q, x)' <=> Pending(q, x))
    BY <1>1, Others DEF Still
  <1> QED
    BY <1>1, <1>2 DEF Still, Ready

\* What r has in hand does not change, and what it does next needs no more.
LEMMA ReadyPlain ==
    ASSUME NEW r \in Request, Ready(r), NEW x, Passed(r, x),
           x \notin {"get", "new", "save", "signedin"}, UNCHANGED locals
    PROVE  Ready(r)'
  <1>1. /\ todo'[r] # <<>>
        /\ \A z : At(r, z)' => Follows(x, z)
        /\ \A z : Pending(r, z)' => Pending(r, z)
    BY DEF Passed, Goes
  <1>2. \A z \in NeedsLogin : ~At(r, z)'
    BY <1>1 DEF Follows, NeedsLogin
  <1>3. UNCHANGED <<sid, login, who, arg>>
    BY DEF locals
  <1> QED
    BY <1>1, <1>2, <1>3 DEF Ready, NeedsLogin

\* The steps that only work on Redis.
LEMMA PlainReady ==
    ASSUME TypeOK, Shapes, InPlace, NEW r \in Request,
           \/ Retire(r) \/ Del(r) \/ Unindex(r) \/ Unlist(r) \/ Notify(r)
           \/ ExtendClients(r) \/ Index(r) \/ ExtendIndex(r) \/ AddClient(r)
    PROVE  Ready(r)'
  <1>0. todo \in [Request -> Seq(Steps)] /\ Ready(r)
    BY DEF TypeOK, InPlace
  <1>1. PICK x \in {"retire", "del", "purge", "srem", "unlist", "notify", "clientsttl", "sadd",
                    "indexttl", "addclient"} : At(r, x) /\ Continue(r) /\ UNCHANGED locals
    BY DEF Retire, Del, Unindex, Unlist, Notify, ExtendClients, Index, ExtendIndex, AddClient
  <1>2. Passed(r, x)
    BY <1>0, <1>1, Continues
  <1> QED
    BY <1>0, <1>1, <1>2, ReadyPlain

\* The steps that may answer early, or not.
LEMMA AnswerReady ==
    ASSUME TypeOK, Shapes, InPlace, NEW r \in Request,
           SignedInOnly(r) \/ IssueCode(r) \/ Rejected(r)
    PROVE  Ready(r)'
  <1>0. todo \in [Request -> Seq(Steps)] /\ Ready(r)
    BY DEF TypeOK, InPlace
  <1>1. CASE Return(r) /\ UNCHANGED <<sid, login>>
    <2>1. todo'[r] # <<>> /\ (\A z : At(r, z)' <=> z = "done") /\ (\A z : Pending(r, z)' <=> z = "done")
      BY <1>0, <1>1, Returns DEF Goes
    <2> QED
      BY <1>0, <1>1, <2>1 DEF Ready, NeedsLogin, NeedsWho, NeedsSid, Lists
  <1>2. CASE IssueCode(r) /\ Continue(r)
    BY <1>0, <1>2, Continues, ReadyPlain DEF IssueCode
  <1>3. CASE SignedInOnly(r) /\ Continue(r) /\ login[r] # None
    <2>1. At(r, "signedin") /\ UNCHANGED <<sid, login, who, arg>>
      BY <1>3 DEF SignedInOnly, locals
    <2>2. Passed(r, "signedin")
      BY <1>0, <1>3, <2>1, Continues
    <2>3. /\ todo'[r] # <<>>
          /\ \A z : At(r, z)' => Follows("signedin", z)
          /\ \A z : Pending(r, z)' => Pending(r, z)
      BY <2>2 DEF Passed, Goes
    <2>4. \A z \in {"reauth", "save", "sadd"} : ~At(r, z)'
      BY <2>3 DEF Follows
    <2> QED
      BY <1>0, <1>3, <2>1, <2>3, <2>4 DEF Ready
  <1> QED
    BY <1>1, <1>2, <1>3 DEF SignedInOnly, IssueCode, Rejected, locals

\* session_store.get
LEMMA GetReady ==
    ASSUME TypeOK, Shapes, InPlace, NEW r \in Request, Get(r)
    PROVE  Ready(r)'
  <1>0. todo \in [Request -> Seq(Steps)] /\ Ready(r) /\ At(r, "get") /\ sid[r] # None
    BY AtPending DEF TypeOK, InPlace, Get, Ready, NeedsSid
  <1>1. UNCHANGED <<sid, who, arg>> /\ login \in [Request -> Held \cup {None}]
    BY DEF Get, TypeOK
  <1>2. CASE login' = [login EXCEPT ![r] = None] /\ todo' = [todo EXCEPT ![r] = Tail(Tail(@))]
    <2>1. /\ todo'[r] # <<>>
          /\ \E y \in {"login", "signedin", "del"} : \A z : At(r, z)' <=> z = y
          /\ \A z : Pending(r, z)' => Pending(r, z)
      BY <1>0, <1>2, Misses DEF Goes
    <2>2. \A z \in NeedsLogin : ~At(r, z)'
      BY <2>1 DEF NeedsLogin
    <2>3. login'[r] = None
      BY <1>1, <1>2
    <2> QED
      BY <1>0, <1>1, <2>1, <2>2, <2>3 DEF Ready, NeedsLogin
  <1>3. CASE \E session : /\ session \in Held /\ login' = [login EXCEPT ![r] = session]
                          /\ Continue(r) \/ todo' = [todo EXCEPT ![r] =
                                  <<"check", "retire", "unlist", "forget">> \o Tail(Tail(@))]
    <2>1. login'[r] # None
      BY <1>1, <1>3, NamesAssumption DEF Held
    <2>2. \A z \in Lists \cup {"purge"} : NoMore("get", z)
      BY DEF NoMore, Owns
    <2>3. CASE Continue(r)
      <3>1. Passed(r, "get")
        BY <1>0, <2>3, Continues
      <3>2. /\ todo'[r] # <<>>
            /\ \A z : At(r, z)' => z = "touch"
            /\ \A z : Pending(r, z)' => Pending(r, z) /\ ~NoMore("get", z)
        BY <3>1 DEF Passed, Goes, Follows
      <3> QED
        BY <1>0, <1>1, <2>1, <2>2, <3>2 DEF Ready
    <2>4. CASE todo' = [todo EXCEPT ![r] = <<"check", "retire", "unlist", "forget">> \o Tail(Tail(@))]
      <3>1. /\ todo'[r] # <<>>
            /\ \A z : At(r, z)' <=> z = "check"
            /\ \A z : Pending(r, z)' => z \in {"check", "retire", "unlist", "forget"}
                                          \/ (Pending(r, z) /\ ~NoMore("get", z))
        BY <1>0, <2>4, Outlives DEF Goes
      <3> QED
        BY <1>0, <1>1, <2>1, <2>2, <3>1 DEF Ready, NeedsLogin, NeedsWho, Lists
    <2> QED
      BY <1>3, <2>3, <2>4
  <1> QED
    <2>1. store[sid[r]] # None => [user |-> store[sid[r]].user, amr |-> store[sid[r]].amr,
                                   since |-> store[sid[r]].since] \in Held
      BY <1>0 DEF TypeOK, Stored, Held, Ready
    <2> QED
      BY <1>2, <1>3, <2>1 DEF Get

\* An outlived session counts as none.
LEMMA ForgetReady ==
    ASSUME TypeOK, Shapes, InPlace, NEW r \in Request, Forget(r)
    PROVE  Ready(r)'
  <1>0. todo \in [Request -> Seq(Steps)] /\ Ready(r) /\ At(r, "forget") /\ Continue(r)
    BY DEF TypeOK, InPlace, Forget
  <1>1. UNCHANGED <<sid, who, arg>> /\ login'[r] = None
    BY DEF Forget, TypeOK
  <1>2. Passed(r, "forget")
    BY <1>0, Continues
  <1>3. /\ todo'[r] # <<>>
        /\ \A z : At(r, z)' => Follows("forget", z)
        /\ \A z : Pending(r, z)' => Pending(r, z)
    BY <1>2 DEF Passed, Goes
  <1>4. \A z \in NeedsLogin : ~At(r, z)'
    BY <1>3 DEF Follows, NeedsLogin
  <1> QED
    BY <1>0, <1>1, <1>3, <1>4 DEF Ready, NeedsLogin

\* touch, with a save to follow or not.
LEMMA TouchReady ==
    ASSUME TypeOK, Shapes, InPlace, NEW r \in Request, Touch(r)
    PROVE  Ready(r)'
  <1>0. todo \in [Request -> Seq(Steps)] /\ Ready(r) /\ At(r, "touch") /\ UNCHANGED locals
    BY DEF TypeOK, InPlace, Touch
  <1>1. CASE Continue(r)
    BY <1>0, <1>1, Continues, ReadyPlain
  <1>2. CASE Call(r, <<"seen">>)
    <2>1. /\ todo'[r] # <<>>
          /\ \A z : At(r, z)' <=> z = "seen"
          /\ \A z : Pending(r, z)' => z = "seen" \/ Pending(r, z)
      BY <1>0, <1>2, Seen DEF Goes
    <2>2. login[r] # None /\ sid[r] # None /\ UNCHANGED <<sid, login, who, arg>>
      BY <1>0 DEF Ready, NeedsLogin, locals
    <2> QED
      BY <1>0, <2>1, <2>2 DEF Ready, NeedsWho, Lists
  <1> QED
    BY <1>1, <1>2 DEF Touch

\* The saves that leave the session in hand its user.
LEMMA SaveReady ==
    ASSUME TypeOK, Shapes, InPlace, NEW r \in Request,
           SaveSeen(r) \/ SaveNew(r) \/ AddMethod(r) \/ Reauthenticate(r)
    PROVE  Ready(r)'
  <1>0. todo \in [Request -> Seq(Steps)] /\ Ready(r) /\ login \in [Request -> Held \cup {None}]
    BY DEF TypeOK, InPlace
  <1>1. PICK x \in {"seen", "save", "addmethod", "reauth"} :
           At(r, x) /\ Continue(r) /\ UNCHANGED <<sid, who, arg>>
    BY DEF SaveSeen, SaveNew, AddMethod, Reauthenticate
  <1>2. Passed(r, x) /\ login[r] # None /\ sid[r] # None
    BY <1>0, <1>1, Continues DEF Ready, NeedsLogin
  <1>3. /\ todo'[r] # <<>>
        /\ \A z : At(r, z)' => Follows(x, z)
        /\ \A z : Pending(r, z)' => Pending(r, z) /\ ~NoMore(x, z)
    BY <1>2 DEF Passed, Goes
  <1>4. login'[r] # None /\ (x = "save" => login'[r] = login[r])
    <2>1. CASE SaveSeen(r) \/ SaveNew(r)
      BY <1>0, <1>2, <2>1 DEF SaveSeen, SaveNew, Save
    <2>2. CASE AddMethod(r)
      <3>1. x = "addmethod" /\ arg[r] \in Method
        BY <1>0, <1>1, <2>2, AtPending DEF AddMethod, Ready, Method
      <3>2. [user |-> login[r].user, amr |-> login[r].amr \cup {arg[r]}, since |-> login[r].since] \in Held
        BY <1>0, <1>2, <3>1 DEF Held
      <3> QED
        BY <1>0, <1>2, <2>2, <3>1, <3>2, NamesAssumption DEF AddMethod, Save, Held
    <2>3. CASE Reauthenticate(r)
      <3>1. x = "reauth" /\ who[r] \in User /\ now \in Time
        BY <1>0, <1>1, <2>3, AtPending DEF Reauthenticate, Ready, NeedsWho, TypeOK
      <3>2. [user |-> who[r], amr |-> StartsOver(r), since |-> now] \in Held
        BY <3>1 DEF Held, StartsOver, Method
      <3> QED
        BY <1>0, <1>2, <2>3, <3>1, <3>2, NamesAssumption DEF Reauthenticate, Save, Held
    <2> QED
      BY <2>1, <2>2, <2>3
  <1>5. \A z \in NeedsLogin : At(r, z)' => x = "save" /\ z = "sadd"
    BY <1>3 DEF Follows, NeedsLogin
  <1>6. \A z \in Lists \cup {"purge"} : ~Pending(r, z)'
    BY <1>3 DEF NoMore, Owns
  <1> QED
    BY <1>0, <1>1, <1>2, <1>3, <1>4, <1>5, <1>6 DEF Ready, NeedsLogin

\* What reads: check, the clients, and the listings.
LEMMA ReadReady ==
    ASSUME TypeOK, Shapes, InPlace, NEW r \in Request,
           Check(r) \/ ReadClients(r) \/ ReadIndex(r) \/ ReadSessions(r)
    PROVE  Ready(r)'
  <1>0. todo \in [Request -> Seq(Steps)] /\ Ready(r) /\ UNCHANGED <<sid, login, who, arg>>
    BY DEF TypeOK, InPlace, Check, ReadClients, ReadIndex, ReadSessions
  <1>1. CASE Continue(r)
    <2>1. PICK x \in {"check", "clients", "list", "mget"} : At(r, x)
      BY DEF Check, ReadClients, ReadIndex, ReadSessions
    <2>2. Passed(r, x)
      BY <1>0, <1>1, <2>1, Continues
    <2>3. /\ todo'[r] # <<>>
          /\ \A z : At(r, z)' => Follows(x, z)
          /\ \A z : Pending(r, z)' => Pending(r, z)
      BY <2>2 DEF Passed, Goes
    <2>4. \A z \in NeedsLogin : ~At(r, z)'
      BY <2>1, <2>3 DEF Follows, NeedsLogin
    <2> QED
      BY <1>0, <2>3, <2>4 DEF Ready, NeedsLogin
  <1>2. CASE At(r, "check") /\ todo' = [todo EXCEPT ![r] = Tail(Tail(Tail(@)))]
    <2>1. /\ todo'[r] # <<>>
          /\ \E y \in {"forget", "notify", "tidy", "endnext"} : \A z : At(r, z)' <=> z = y
          /\ \A z : Pending(r, z)' => Pending(r, z)
      BY <1>0, <1>2, Fails DEF Goes
    <2>2. \A z \in NeedsLogin : ~At(r, z)'
      BY <2>1 DEF NeedsLogin
    <2> QED
      BY <1>0, <2>1, <2>2 DEF Ready, NeedsLogin
  <1> QED
    BY <1>1, <1>2 DEF Check, ReadClients, ReadIndex, ReadSessions

\* A request whose work is known.
LEMMA ReadyFor ==
    ASSUME NEW r, NEW x, NEW S, todo'[r] # <<>>,
           \A z : At(r, z)' <=> z = x,
           \A z : Pending(r, z)' <=> z \in S,
           login'[r] # None => sid'[r] # None,
           x \in NeedsLogin => login'[r] # None,
           x \in {"reauth", "save", "sadd"} => login'[r].user = who'[r],
           S \cap (Lists \cup {"purge"}) # {} => login'[r] = None,
           S \cap NeedsWho # {} => who'[r] # None,
           S \cap NeedsSid # {} => sid'[r] # None,
           "addmethod" \in S => arg'[r] \in Factor,
           "code" \in S \/ "addclient" \in S => arg'[r] \in Client
    PROVE  Ready(r)'
  BY DEF Ready

\* A session is taken up, to be ended or tidied away.
LEMMA TakeReady ==
    ASSUME TypeOK, Shapes, InPlace, NEW r \in Request, Tidy(r) \/ EndNext(r)
    PROVE  Ready(r)'
  <1>0. todo \in [Request -> Seq(Steps)] /\ Ready(r) /\ UNCHANGED <<login, who, arg>>
    BY DEF TypeOK, InPlace, Tidy, EndNext
  <1>1. PICK x \in {"tidy", "endnext"} : At(r, x)
    BY DEF Tidy, EndNext
  <1>2. login[r] = None /\ who[r] # None /\ Pending(r, x)
    BY <1>0, <1>1, AtPending DEF Ready, NeedsWho, Lists
  <1>3. CASE Continue(r) /\ sid' = sid
    <2>2. Passed(r, x)
      BY <1>0, <1>1, <1>3, Continues
    <2>3. /\ todo'[r] # <<>>
          /\ \A z : At(r, z)' => Follows(x, z)
          /\ \A z : Pending(r, z)' => Pending(r, z)
      BY <2>2 DEF Passed, Goes
    <2>4. \A z \in NeedsLogin : ~At(r, z)'
      BY <1>1, <2>3 DEF Follows, NeedsLogin
    <2> QED
      BY <1>0, <1>3, <2>3, <2>4 DEF Ready, NeedsLogin
  <1>4. CASE UNCHANGED <<todo, sid>>
    BY <1>0, <1>4 DEF Ready, At, Pending
  <1>5. CASE /\ \E s \in Session : sid' = [sid EXCEPT ![r] = s]
             /\ At(r, "tidy")
             /\ todo' = [todo EXCEPT ![r] = <<"check", "retire", "unlist">> \o @]
    <2>1. /\ todo'[r] # <<>>
          /\ \A z : At(r, z)' <=> z = "check"
          /\ \A z : Pending(r, z)' <=> z \in {"check", "retire", "unlist"} \/ Pending(r, z)
      BY <1>0, <1>5, Outdated DEF Goes
    <2>2. sid'[r] # None
      BY <1>5, NamesAssumption DEF TypeOK
    <2> QED
      BY <1>0, <1>2, <2>1, <2>2 DEF Ready, NeedsLogin
  <1>6. CASE /\ \E s \in Session : sid' = [sid EXCEPT ![r] = s]
             /\ At(r, "endnext")
             /\ todo' = [todo EXCEPT ![r] = <<"clients", "notify">> \o DeleteByPublicId \o @]
    <2>1. /\ todo'[r] # <<>>
          /\ \A z : At(r, z)' <=> z = "clients"
          /\ \A z : Pending(r, z)' <=>
                z \in {"clients", "notify", "check", "purge", "unlist", "endnext", "done"}
      BY <1>0, <1>6, EndsOne DEF Goes
    <2>2. sid'[r] # None
      BY <1>6, NamesAssumption DEF TypeOK
    <2>3. login'[r] = None /\ who'[r] # None
      BY <1>0, <1>2
    <2> QED
      <3> DEFINE S == {"clients", "notify", "check", "purge", "unlist", "endnext", "done"}
      <3>1. "addmethod" \notin S /\ "code" \notin S /\ "addclient" \notin S /\ "clients" \notin NeedsLogin
        BY DEF NeedsLogin
      <3>2. \A z : Pending(r, z)' <=> z \in S
        BY <2>1
      <3> HIDE DEF S
      <3> QED
        BY <2>1, <2>2, <2>3, <3>1, <3>2, ReadyFor DEF NeedsLogin
  <1> QED
    <2>1. CASE Tidy(r)
      BY <1>3, <1>4, <1>5, <2>1 DEF Tidy, TypeOK
    <2>2. CASE EndNext(r)
      <3>1. Left(r) \subseteq Session
        BY DEF Left, TypeOK
      <3> QED
        BY <1>3, <1>6, <2>2, <3>1 DEF EndNext
    <2> QED
      BY <2>1, <2>2

\* The password is right.
LEMMA SignInReady ==
    ASSUME TypeOK, Shapes, InPlace, NEW r \in Request, SignIn(r)
    PROVE  Ready(r)'
  <1>0. /\ todo \in [Request -> Seq(Steps)] /\ Ready(r) /\ At(r, "login")
        /\ UNCHANGED <<sid, login, who, arg>>
    BY DEF TypeOK, InPlace, SignIn, locals
  <1>1. who[r] # None /\ (login[r] # None => sid[r] # None)
    BY <1>0, AtPending DEF Ready, NeedsWho
  <1>2. CASE Call(r, CreateSession)
    <2>1. /\ todo'[r] # <<>> /\ \A z : At(r, z)' <=> z = "new"
          /\ \A z : Pending(r, z)' <=> z \in {"new", "save", "sadd", "indexttl", "done"}
      BY <1>0, <1>2, SignsIn DEF Goes
    <2> QED
      <3> DEFINE S == {"new", "save", "sadd", "indexttl", "done"}
      <3>1. /\ S \cap (Lists \cup {"purge"}) = {} /\ S \cap NeedsSid = {} /\ "addmethod" \notin S
            /\ "code" \notin S /\ "addclient" \notin S /\ "new" \notin NeedsLogin
        BY DEF NeedsLogin, NeedsSid, Lists
      <3>2. \A z : Pending(r, z)' <=> z \in S
        BY <2>1
      <3> HIDE DEF S
      <3> QED
        BY <1>0, <1>1, <2>1, <3>1, <3>2, ReadyFor
  <1>3. CASE login[r] # None /\ login[r].user = who[r] /\ Call(r, <<"reauth">>)
    <2>1. /\ todo'[r] # <<>> /\ \A z : At(r, z)' <=> z = "reauth"
          /\ \A z : Pending(r, z)' <=> z \in {"reauth", "done"}
      BY <1>0, <1>3, SignsIn DEF Goes
    <2> QED
      <3> DEFINE S == {"reauth", "done"}
      <3>1. /\ S \cap (Lists \cup {"purge"}) = {} /\ "addmethod" \notin S
            /\ "code" \notin S /\ "addclient" \notin S
        BY DEF Lists
      <3>2. \A z : Pending(r, z)' <=> z \in S
        BY <2>1
      <3> HIDE DEF S
      <3> QED
        BY <1>0, <1>1, <1>3, <2>1, <3>1, <3>2, ReadyFor
  <1>4. CASE login[r] # None /\ Call(r, EndSession \o CreateSession)
    <2>1. /\ todo'[r] # <<>> /\ \A z : At(r, z)' <=> z = "clients"
          /\ \A z : Pending(r, z)' <=>
                       z \in {"clients", "notify", "get", "touch", "del", "srem",
                              "new", "save", "sadd", "indexttl", "done"}
      BY <1>0, <1>4, SignsIn DEF Goes
    <2> QED
      <3> DEFINE S == {"clients", "notify", "get", "touch", "del", "srem",
                       "new", "save", "sadd", "indexttl", "done"}
      <3>1. /\ S \cap (Lists \cup {"purge"}) = {} /\ "addmethod" \notin S
            /\ "code" \notin S /\ "addclient" \notin S /\ "clients" \notin NeedsLogin
        BY DEF Lists, NeedsLogin
      <3>2. \A z : Pending(r, z)' <=> z \in S
        BY <2>1
      <3> HIDE DEF S
      <3> QED
        BY <1>0, <1>1, <1>4, <2>1, <3>1, <3>2, ReadyFor
  <1> QED
    BY <1>2, <1>3, <1>4 DEF SignIn

\* create, before it saves anything.
LEMMA NewReady ==
    ASSUME TypeOK, Shapes, InPlace, NEW r \in Request, NewSession(r)
    PROVE  Ready(r)'
  <1>0. /\ todo \in [Request -> Seq(Steps)] /\ Ready(r) /\ At(r, "new") /\ Continue(r)
        /\ UNCHANGED <<who, arg>> /\ who[r] # None
    BY AtPending DEF TypeOK, InPlace, NewSession, Ready, NeedsWho
  <1>1. Passed(r, "new")
    BY <1>0, Continues
  <1>2. /\ todo'[r] # <<>>
        /\ \A z : At(r, z)' => z = "save"
        /\ \A z : Pending(r, z)' => Pending(r, z) /\ ~NoMore("new", z)
    BY <1>1 DEF Passed, Goes, Follows
  <1>3. sid'[r] # None /\ login'[r] = [user |-> who[r], amr |-> {Pwd}, since |-> now]
    BY NamesAssumption DEF NewSession, TypeOK
  <1>4. login'[r] # None /\ login'[r].user = who[r]
    <2>1. login'[r] \in [user : User, amr : SUBSET Method, since : Time]
      BY <1>0, <1>3 DEF TypeOK, Method
    <2> QED
      BY <1>3, <2>1, NamesAssumption
  <1>5. \A z \in Lists \cup {"purge"} : ~Pending(r, z)'
    BY <1>2 DEF NoMore, Owns
  <1> QED
    BY <1>0, <1>2, <1>3, <1>4, <1>5 DEF Ready, NeedsLogin

\* A request that is done has nothing in hand.
LEMMA DoneReady ==
    ASSUME TypeOK, Shapes, NEW r \in Request, Done(r)
    PROVE  Ready(r)'
  <1>1. todo'[r] = <<>> /\ (\A z : ~At(r, z)') /\ (\A z : ~Pending(r, z)')
    BY Finishes DEF Done, TypeOK
  <1>2. login'[r] = None
    BY DEF Done, TypeOK
  <1> QED
    BY <1>1, <1>2 DEF Ready

\* A request that has arrived has what it needs.
LEMMA StartReady ==
    ASSUME TypeOK, Shapes, InPlace, NEW r \in Request,
           NEW p, NEW x, NEW S, Work(p \o <<"done">>, x, S), x \notin NeedsLogin,
           NEW s, NEW u, NEW a, Start(r, p, s, u, a),
           S \cap NeedsWho # {} => u # None,
           S \cap NeedsSid # {} => s # None,
           "addmethod" \in S => a \in Factor,
           "code" \in S \/ "addclient" \in S => a \in Client
    PROVE  Ready(r)'
  <1>1. todo \in [Request -> Seq(Steps)] /\ Ready(r)
    BY DEF TypeOK, InPlace
  <1>2. login'[r] = None
    BY <1>1 DEF Start, Ready
  <1>3. sid'[r] = s /\ who'[r] = u /\ arg'[r] = a
    BY DEF Start, TypeOK
  <1>4. /\ todo'[r] # <<>> /\ (\A z : At(r, z)' <=> z = x) /\ (\A z : Pending(r, z)' <=> z \in S)
    BY <1>1, Starts DEF Goes
  <1>5. x \notin {"reauth", "save", "sadd"}
    BY DEF NeedsLogin
  <1> QED
    BY <1>2, <1>3, <1>4, <1>5, ReadyFor

\* A request arrives with what it needs.
LEMMA ArriveReady ==
    ASSUME TypeOK, Shapes, InPlace, NEW r \in Request, Arrive(r)
    PROVE  Ready(r)'
  <1>0. None \notin Session \cup User
    BY NamesAssumption
  <1>2. ASSUME NEW s \in Session \cup {None}, NEW u \in User, Login(r, s, u)
        PROVE  Ready(r)'
    <2>1. CASE s = None
      <3> DEFINE p == <<"login">>
               S == {"login", "done"}
      <3>1. Work(p \o <<"done">>, "login", S)
        BY Programs
      <3>2. Start(r, p, s, u, None)
        BY <2>1, <1>2 DEF Login
      <3>3. /\ "login" \notin NeedsLogin
            /\ S \cap NeedsWho # {} => u # None
            /\ S \cap NeedsSid # {} => s # None
            /\ "addmethod" \in S => None \in Factor
            /\ "code" \in S \/ "addclient" \in S => None \in Client
        BY <2>1, <1>0, <1>2 DEF NeedsLogin, NeedsWho, NeedsSid, Lists
      <3> HIDE DEF p, S
      <3> QED
        BY <3>1, <3>2, <3>3, StartReady
    <2>2. CASE s # None
      <3> DEFINE p == GetSession \o <<"login">>
               S == {"get", "touch", "login", "done"}
      <3>1. Work(p \o <<"done">>, "get", S)
        BY Programs
      <3>2. Start(r, p, s, u, None)
        BY <2>2, <1>2 DEF Login
      <3>3. /\ "get" \notin NeedsLogin
            /\ S \cap NeedsWho # {} => u # None
            /\ S \cap NeedsSid # {} => s # None
            /\ "addmethod" \in S => None \in Factor
            /\ "code" \in S \/ "addclient" \in S => None \in Client
        BY <2>2, <1>0, <1>2 DEF NeedsLogin, NeedsWho, NeedsSid, Lists
      <3> HIDE DEF p, S
      <3> QED
        BY <3>1, <3>2, <3>3, StartReady
    <2> QED
      BY <2>1, <2>2
  <1>3. ASSUME NEW s \in Session, NEW c \in Client, Authorize(r, s, c)
        PROVE  Ready(r)'
    <2> DEFINE p == GetSession \o <<"signedin", "code", "addclient", "clientsttl">>
             S == {"get", "touch", "signedin", "code", "addclient", "clientsttl", "done"}
    <2>1. Work(p \o <<"done">>, "get", S)
      BY Programs
    <2>2. Start(r, p, s, None, c)
      BY <1>3 DEF Authorize
    <2>3. /\ "get" \notin NeedsLogin
          /\ S \cap NeedsWho # {} => None # None
          /\ S \cap NeedsSid # {} => s # None
          /\ "addmethod" \in S => c \in Factor
          /\ "code" \in S \/ "addclient" \in S => c \in Client
      BY <1>0, <1>3 DEF NeedsLogin, NeedsWho, NeedsSid, Lists
    <2> HIDE DEF p, S
    <2> QED
      BY <2>1, <2>2, <2>3, StartReady
  <1>4. ASSUME NEW s \in Session, NEW f \in Factor, StepUp(r, s, f)
        PROVE  Ready(r)'
    <2> DEFINE p == GetSession \o <<"signedin", "addmethod">>
             S == {"get", "touch", "signedin", "addmethod", "done"}
    <2>1. Work(p \o <<"done">>, "get", S)
      BY Programs
    <2>2. Start(r, p, s, None, f)
      BY <1>4 DEF StepUp
    <2>3. /\ "get" \notin NeedsLogin
          /\ S \cap NeedsWho # {} => None # None
          /\ S \cap NeedsSid # {} => s # None
          /\ "addmethod" \in S => f \in Factor
          /\ "code" \in S \/ "addclient" \in S => f \in Client
      BY <1>0, <1>4 DEF NeedsLogin, NeedsWho, NeedsSid, Lists
    <2> HIDE DEF p, S
    <2> QED
      BY <2>1, <2>2, <2>3, StartReady
  <1>5. ASSUME NEW s \in Session, Logout(r, s)
        PROVE  Ready(r)'
    <2> DEFINE p == GetSession \o <<"signedin">> \o EndSession
             S == {"get", "touch", "signedin", "clients", "notify", "del", "srem", "done"}
    <2>1. Work(p \o <<"done">>, "get", S)
      BY Programs
    <2>2. Start(r, p, s, None, None)
      BY <1>5 DEF Logout
    <2>3. /\ "get" \notin NeedsLogin
          /\ S \cap NeedsWho # {} => None # None
          /\ S \cap NeedsSid # {} => s # None
          /\ "addmethod" \in S => None \in Factor
          /\ "code" \in S \/ "addclient" \in S => None \in Client
      BY <1>0, <1>5 DEF NeedsLogin, NeedsWho, NeedsSid, Lists
    <2> HIDE DEF p, S
    <2> QED
      BY <2>1, <2>2, <2>3, StartReady
  <1>6. ASSUME NEW s \in Session, NEW u \in User, RevokeSession(r, s, u)
        PROVE  Ready(r)'
    <2> DEFINE p == <<"clients">> \o DeleteByPublicId \o <<"notify">>
             S == {"clients", "check", "purge", "unlist", "notify", "done"}
    <2>1. Work(p \o <<"done">>, "clients", S)
      BY Programs
    <2>2. Start(r, p, s, u, None)
      BY <1>6 DEF RevokeSession
    <2>3. /\ "clients" \notin NeedsLogin
          /\ S \cap NeedsWho # {} => u # None
          /\ S \cap NeedsSid # {} => s # None
          /\ "addmethod" \in S => None \in Factor
          /\ "code" \in S \/ "addclient" \in S => None \in Client
      BY <1>0, <1>6 DEF NeedsLogin, NeedsWho, NeedsSid, Lists
    <2> HIDE DEF p, S
    <2> QED
      BY <2>1, <2>2, <2>3, StartReady
  <1>7. ASSUME NEW u \in User, ListSessions(r, u)
        PROVE  Ready(r)'
    <2> DEFINE p == <<"list", "mget", "tidy">>
             S == {"list", "mget", "tidy", "done"}
    <2>1. Work(p \o <<"done">>, "list", S)
      BY Programs
    <2>2. Start(r, p, None, u, None)
      BY <1>7 DEF ListSessions
    <2>3. /\ "list" \notin NeedsLogin
          /\ S \cap NeedsWho # {} => u # None
          /\ S \cap NeedsSid # {} => None # None
          /\ "addmethod" \in S => None \in Factor
          /\ "code" \in S \/ "addclient" \in S => None \in Client
      BY <1>0, <1>7 DEF NeedsLogin, NeedsWho, NeedsSid, Lists
    <2> HIDE DEF p, S
    <2> QED
      BY <2>1, <2>2, <2>3, StartReady
  <1>8. ASSUME NEW u \in User, NEW keep, EndAllSessions(r, u, keep)
        PROVE  Ready(r)'
    <2> DEFINE p == <<"list", "mget", "tidy", "endnext">>
             S == Lists \cup {"done"}
    <2>1. Work(p \o <<"done">>, "list", S)
      BY Programs
    <2>2. Start(r, p, None, u, keep)
      BY <1>8 DEF EndAllSessions
    <2>3. /\ "list" \notin NeedsLogin
          /\ S \cap NeedsWho # {} => u # None
          /\ S \cap NeedsSid # {} => None # None
          /\ "addmethod" \in S => keep \in Factor
          /\ "code" \in S \/ "addclient" \in S => keep \in Client
      BY <1>0, <1>8 DEF NeedsLogin, NeedsWho, NeedsSid, Lists
    <2> HIDE DEF p, S
    <2> QED
      BY <2>1, <2>2, <2>3, StartReady
  <1> QED
    BY <1>2, <1>3, <1>4, <1>5, <1>6, <1>7, <1>8 DEF Arrive

-----------------------------------------------------------------------------
(* Types and shapes.                                                       *)

\* What is in hand is there.
LEMMA InHandIsThere ==
    ASSUME TypeOK, Shapes, InPlace, NEW r \in Request
    PROVE  /\ \A x \in NeedsSid : At(r, x) \/ Pending(r, x) => sid[r] \in Session
           /\ \A x \in NeedsWho : At(r, x) \/ Pending(r, x) => who[r] \in User
           /\ \A x \in NeedsLogin : At(r, x) => login[r] \in Held /\ sid[r] \in Session
           /\ login[r] # None => login[r] \in Held /\ sid[r] \in Session
           /\ At(r, "addmethod") => arg[r] \in Factor
           /\ At(r, "code") \/ At(r, "addclient") => arg[r] \in Client
  <1>1. /\ sid[r] \in Session \cup {None} /\ who[r] \in User \cup {None} /\ login[r] \in Held \cup {None}
        /\ Ready(r)
    BY DEF TypeOK, InPlace
  <1>2. \A x : At(r, x) => Pending(r, x)
    BY AtPending
  <1> QED
    BY <1>1, <1>2 DEF Ready

\* Deadlines.
LEMMA Deadlines ==
    ASSUME now \in Time
    PROVE  /\ now + Ttl \in Deadline /\ Never \in Deadline /\ 0 \in Deadline /\ 0 \in Time
           /\ Time \subseteq Nat /\ Deadline \subseteq Nat
  BY LimitsAssumption DEF Time, Deadline, Never

\* What is written is of the right type.
LEMMA Written ==
    ASSUME now \in Time
    PROVE  /\ \A obj \in Held : [user |-> obj.user, amr |-> obj.amr, since |-> obj.since,
                                 until |-> now + Ttl] \in Stored
           /\ \A S, x : \A key \in RedisSet(S) : x \in S => Added(key, x) \in RedisSet(S)
           /\ \A S, x : \A key \in RedisSet(S) : Removed(key, x) \in RedisSet(S)
           /\ \A S : \A key \in RedisSet(S) : Extended(key) \in RedisSet(S)
           /\ \A S : NoKey \in RedisSet(S)
  <1>1. now + Ttl \in Deadline /\ Never \in Deadline
    BY Deadlines
  <1>2. \A obj \in Held : [user |-> obj.user, amr |-> obj.amr, since |-> obj.since,
                                 until |-> now + Ttl] \in Stored
    BY <1>1 DEF Held, Stored
  <1>3. \A S : NoKey \in RedisSet(S)
    BY <1>1 DEF RedisSet, NoKey
  <1>4. \A S, x : \A key \in RedisSet(S) : x \in S => Added(key, x) \in RedisSet(S)
    BY <1>1 DEF RedisSet, Added
  <1>5. \A S, x : \A key \in RedisSet(S) : Removed(key, x) \in RedisSet(S)
    BY <1>1, <1>3 DEF RedisSet, Removed
  <1>6. \A S : \A key \in RedisSet(S) : Extended(key) \in RedisSet(S)
    BY <1>1 DEF RedisSet, Extended
  <1> QED
    BY <1>2, <1>3, <1>4, <1>5, <1>6

\* Every step of a request keeps the types.
LEMMA StepTypes ==
    ASSUME TypeOK, Shapes, InPlace, NEW r \in Request, Step(r)
    PROVE  TypeOK' /\ Shapes'
  <1>0. now \in Time /\ todo \in [Request -> Seq(Steps)]
    BY DEF TypeOK
  <1> USE DEF locals, history, redis
  <1>c. ASSUME NEW x, At(r, x), x # "done", Continue(r)
        PROVE  todo' \in [Request -> Seq(Steps)] /\ Shapes'
    BY <1>0, <1>c, Continues DEF Passed, Goes
  <1>r. ASSUME Return(r)
        PROVE  todo' \in [Request -> Seq(Steps)] /\ Shapes'
    BY <1>0, <1>r, Returns DEF Goes
  <1>1. CASE Forget(r)
    <2>1. At(r, "forget") /\ Continue(r)
      BY <1>1 DEF Forget
    <2>2. todo' \in [Request -> Seq(Steps)] /\ Shapes'
      BY <1>c, <2>1
    <2> QED
      BY <1>1, <2>2 DEF Forget, TypeOK
  <1>2. CASE Retire(r)
    <2>1. At(r, "retire") /\ Continue(r)
      BY <1>2 DEF Retire
    <2>2. todo' \in [Request -> Seq(Steps)] /\ Shapes'
      BY <1>c, <2>1
    <2>3. sid[r] \in Session /\ NoKey \in RedisSet(Client)
      BY <1>0, <2>1, InHandIsThere, Written DEF NeedsSid
    <2>4. store' \in [Session -> Stored \cup {None}] /\ clients' \in [Session -> RedisSet(Client)] /\ excused' \subseteq Session \X Client
      <3>1. {<<sid[r], c>> : c \in clients[sid[r]].members} \subseteq Session \X Client
        BY <2>3 DEF TypeOK, RedisSet
      <3>2. excused' \subseteq Session \X Client
        BY <1>2, <3>1 DEF Retire, TypeOK
      <3> QED
        BY <1>2, <2>3, <3>2 DEF Retire, DeleteKeys, TypeOK
    <2>5. ended' \subseteq broken' /\ broken' \subseteq Session
      BY <1>2, <2>3 DEF Retire, DeleteKeys, TypeOK
    <2> QED
      BY <1>2, <2>2, <2>3, <2>4, <2>5 DEF Retire, TypeOK
  <1>3. CASE Unindex(r)
    <2>1. At(r, "srem") /\ Continue(r)
      BY <1>3 DEF Unindex
    <2>2. todo' \in [Request -> Seq(Steps)] /\ Shapes'
      BY <1>c, <2>1
    <2>3. sid[r] \in Session /\ (login[r] # None => login[r].user \in User)
      BY <2>1, InHandIsThere DEF NeedsSid, Held
    <2>4. \A u \in User : Removed(index[u], sid[r]) \in RedisSet(Session)
      BY <1>0, Written DEF TypeOK
    <2> QED
      BY <1>3, <2>2, <2>3, <2>4 DEF Unindex, TypeOK
  <1>4. CASE Unlist(r)
    <2>1. At(r, "unlist") /\ Continue(r)
      BY <1>4 DEF Unlist
    <2>2. todo' \in [Request -> Seq(Steps)] /\ Shapes'
      BY <1>c, <2>1
    <2>4. \A u \in User : Removed(index[u], sid[r]) \in RedisSet(Session)
      BY <1>0, Written DEF TypeOK
    <2> QED
      BY <1>4, <2>2, <2>4 DEF Unlist, TypeOK
  <1>5. CASE ReadClients(r)
    <2>1. At(r, "clients") /\ Continue(r)
      BY <1>5 DEF ReadClients
    <2>2. todo' \in [Request -> Seq(Steps)] /\ Shapes'
      BY <1>c, <2>1
    <2>3. sid[r] \in Session
      BY <2>1, InHandIsThere DEF NeedsSid
    <2>4. clients[sid[r]].members \subseteq Client
      BY <2>3 DEF TypeOK, RedisSet
    <2> QED
      BY <1>5, <2>2, <2>4 DEF ReadClients, TypeOK
  <1>6. CASE Notify(r)
    <2>1. At(r, "notify") /\ Continue(r)
      BY <1>6 DEF Notify
    <2>2. todo' \in [Request -> Seq(Steps)] /\ Shapes'
      BY <1>c, <2>1
    <2> QED
      BY <1>6, <2>2 DEF Notify, TypeOK
  <1>7. CASE ReadIndex(r)
    <2>1. At(r, "list") /\ Continue(r)
      BY <1>7 DEF ReadIndex
    <2>2. todo' \in [Request -> Seq(Steps)] /\ Shapes'
      BY <1>c, <2>1
    <2>3. who[r] \in User
      BY <2>1, InHandIsThere DEF NeedsWho, Lists
    <2>4. index[who[r]].members \subseteq Session /\ SignedIn(who[r]) \subseteq Session
      BY <2>3 DEF TypeOK, RedisSet, SignedIn, Named
    <2> QED
      BY <1>7, <2>2, <2>4 DEF ReadIndex, TypeOK
  <1>8. CASE ReadSessions(r)
    <2>1. At(r, "mget") /\ Continue(r)
      BY <1>8 DEF ReadSessions
    <2>2. todo' \in [Request -> Seq(Steps)] /\ Shapes'
      BY <1>c, <2>1
    <2> QED
      BY <1>8, <2>2 DEF ReadSessions, TypeOK
  <1>9. CASE AddClient(r)
    <2>1. At(r, "addclient") /\ Continue(r)
      BY <1>9 DEF AddClient
    <2>2. todo' \in [Request -> Seq(Steps)] /\ Shapes'
      BY <1>c, <2>1
    <2>3. sid[r] \in Session /\ arg[r] \in Client
      BY <2>1, InHandIsThere DEF NeedsSid
    <2>4. Added(clients[sid[r]], arg[r]) \in RedisSet(Client)
      BY <1>0, <2>3, Written DEF TypeOK
    <2> QED
      BY <1>9, <2>2, <2>3, <2>4 DEF AddClient, TypeOK
  <1>10. CASE ExtendClients(r)
    <2>1. At(r, "clientsttl") /\ Continue(r)
      BY <1>10 DEF ExtendClients
    <2>2. todo' \in [Request -> Seq(Steps)] /\ Shapes'
      BY <1>c, <2>1
    <2>4. \A s \in Session : Extended(clients[s]) \in RedisSet(Client)
      BY <1>0, Written DEF TypeOK
    <2> QED
      BY <1>10, <2>2, <2>4 DEF ExtendClients, TypeOK
  <1>11. CASE Index(r)
    <2>1. At(r, "sadd") /\ Continue(r)
      BY <1>11 DEF Index
    <2>2. todo' \in [Request -> Seq(Steps)] /\ Shapes'
      BY <1>c, <2>1
    <2>3. sid[r] \in Session
      BY <2>1, InHandIsThere DEF NeedsLogin
    <2>4. \A u \in User : Added(index[u], sid[r]) \in RedisSet(Session)
      BY <1>0, <2>3, Written DEF TypeOK
    <2> QED
      BY <1>11, <2>2, <2>4 DEF Index, TypeOK
  <1>12. CASE ExtendIndex(r)
    <2>1. At(r, "indexttl") /\ Continue(r)
      BY <1>12 DEF ExtendIndex
    <2>2. todo' \in [Request -> Seq(Steps)] /\ Shapes'
      BY <1>c, <2>1
    <2>4. \A u \in User : Extended(index[u]) \in RedisSet(Session)
      BY <1>0, Written DEF TypeOK
    <2> QED
      BY <1>12, <2>2, <2>4 DEF ExtendIndex, TypeOK
  <1>13. CASE SaveSeen(r)
    <2>1. At(r, "seen") /\ Continue(r)
      BY <1>13 DEF SaveSeen
    <2>2. todo' \in [Request -> Seq(Steps)] /\ Shapes'
      BY <1>c, <2>1
    <2>3. sid[r] \in Session /\ login[r] \in Held
      BY <2>1, InHandIsThere DEF NeedsLogin
    <2>4. [user |-> login[r].user, amr |-> login[r].amr, since |-> login[r].since, until |-> now + Ttl] \in Stored
      BY <1>0, <2>3, Written
    <2> QED
      BY <1>13, <2>2, <2>3, <2>4 DEF SaveSeen, TypeOK, Save
  <1>14. CASE SaveNew(r)
    <2>1. At(r, "save") /\ Continue(r)
      BY <1>14 DEF SaveNew
    <2>2. todo' \in [Request -> Seq(Steps)] /\ Shapes'
      BY <1>c, <2>1
    <2>3. sid[r] \in Session /\ login[r] \in Held
      BY <2>1, InHandIsThere DEF NeedsLogin
    <2>4. [user |-> login[r].user, amr |-> login[r].amr, since |-> login[r].since, until |-> now + Ttl] \in Stored
      BY <1>0, <2>3, Written
    <2> QED
      BY <1>14, <2>2, <2>3, <2>4 DEF SaveNew, TypeOK, Save
  <1>15. CASE AddMethod(r)
    <2>1. At(r, "addmethod") /\ Continue(r)
      BY <1>15 DEF AddMethod
    <2>2. todo' \in [Request -> Seq(Steps)] /\ Shapes'
      BY <1>c, <2>1
    <2>3. sid[r] \in Session /\ login[r] \in Held /\ arg[r] \in Method
      BY <2>1, InHandIsThere DEF NeedsLogin, Method
    <2> DEFINE obj == [user |-> login[r].user, amr |-> login[r].amr \cup {arg[r]}, since |-> login[r].since]
    <2>4. obj \in Held
      BY <2>3 DEF Held
    <2>5. [user |-> obj.user, amr |-> obj.amr, since |-> obj.since, until |-> now + Ttl] \in Stored
      BY <1>0, <2>4, Written
    <2>6. performed' \in [Session -> SUBSET (Method \X Time)]
      BY <1>0, <1>15, <2>3 DEF AddMethod, TypeOK
    <2>7. \/ UNCHANGED <<store, login>>
          \/ Save(r, sid[r], obj)
      BY <1>15 DEF AddMethod
    <2> HIDE DEF obj
    <2>8. store' \in [Session -> Stored \cup {None}] /\ login' \in [Request -> Held \cup {None}]
      <3>1. store \in [Session -> Stored \cup {None}] /\ login \in [Request -> Held \cup {None}]
        BY DEF TypeOK
      <3> QED
        BY <2>4, <2>5, <2>7, <3>1 DEF Save
    <2> QED
      BY <1>15, <2>2, <2>6, <2>8 DEF AddMethod, TypeOK
  <1>16. CASE Reauthenticate(r)
    <2>1. At(r, "reauth") /\ Continue(r)
      BY <1>16 DEF Reauthenticate
    <2>2. todo' \in [Request -> Seq(Steps)] /\ Shapes'
      BY <1>c, <2>1
    <2>3. sid[r] \in Session /\ who[r] \in User
      BY <2>1, InHandIsThere DEF NeedsLogin, NeedsWho
    <2> DEFINE obj == [user |-> who[r], amr |-> StartsOver(r), since |-> now]
    <2>4. obj \in Held
      BY <1>0, <2>3 DEF Held, StartsOver, Method
    <2>5. [user |-> obj.user, amr |-> obj.amr, since |-> obj.since, until |-> now + Ttl] \in Stored
      BY <1>0, <2>4, Written
    <2>6. performed' \in [Session -> SUBSET (Method \X Time)]
      BY <1>0, <1>16, <2>3 DEF Reauthenticate, TypeOK, Method
    <2>7. Save(r, sid[r], obj)
      BY <1>16 DEF Reauthenticate
    <2> HIDE DEF obj
    <2>8. store' \in [Session -> Stored \cup {None}] /\ login' \in [Request -> Held \cup {None}]
      <3>1. store \in [Session -> Stored \cup {None}] /\ login \in [Request -> Held \cup {None}]
        BY DEF TypeOK
      <3> QED
        BY <2>4, <2>5, <2>7, <3>1 DEF Save
    <2> QED
      BY <1>16, <2>2, <2>6, <2>8 DEF Reauthenticate, TypeOK
  <1>17. CASE NewSession(r)
    <2>1. At(r, "new") /\ Continue(r)
      BY <1>17 DEF NewSession
    <2>2. todo' \in [Request -> Seq(Steps)] /\ Shapes'
      BY <1>c, <2>1
    <2>3. who[r] \in User
      BY <2>1, InHandIsThere DEF NeedsWho
    <2>4. [user |-> who[r], amr |-> {Pwd}, since |-> now] \in Held
      BY <1>0, <2>3 DEF Held, Method
    <2>5. performed' \in [Session -> SUBSET (Method \X Time)] /\ sid' \in [Request -> Session \cup {None}]
      BY <1>0, <1>17 DEF NewSession, TypeOK, Method
    <2> QED
      BY <1>17, <2>2, <2>4, <2>5 DEF NewSession, TypeOK
  <1>18. CASE Get(r)
    <2>0. At(r, "get") /\ sid[r] \in Session
      BY <1>18, InHandIsThere DEF Get, NeedsSid
    <2>1. todo' \in [Request -> Seq(Steps)] /\ Shapes'
      <3>1. CASE Continue(r)
        BY <1>c, <2>0, <3>1
      <3>2. CASE todo' = [todo EXCEPT ![r] = Tail(Tail(@))]
        BY <1>0, <2>0, <3>2, Misses DEF Goes
      <3>3. CASE todo' = [todo EXCEPT ![r] = <<"check", "retire", "unlist", "forget">> \o Tail(Tail(@))]
        BY <1>0, <2>0, <3>3, Outlives DEF Goes
      <3> QED
        BY <1>18, <3>1, <3>2, <3>3 DEF Get
    <2>2. store[sid[r]] # None => [user |-> store[sid[r]].user, amr |-> store[sid[r]].amr,
                                   since |-> store[sid[r]].since] \in Held
      BY <2>0 DEF TypeOK, Stored, Held
    <2>3. login' \in [Request -> Held \cup {None}]
      <3>1. login \in [Request -> Held \cup {None}]
        BY DEF TypeOK
      <3>2. CASE login' = [login EXCEPT ![r] = None]
        BY <3>1, <3>2
      <3>3. CASE ~(login' = [login EXCEPT ![r] = None])
        <4> DEFINE session == [user |-> store[sid[r]].user, amr |-> store[sid[r]].amr,
                               since |-> store[sid[r]].since]
        <4>1. store[sid[r]] # None /\ login' = [login EXCEPT ![r] = session]
          BY <1>18, <3>3 DEF Get
        <4>2. session \in Held
          BY <2>2, <4>1
        <4> HIDE DEF session
        <4> QED
          BY <3>1, <4>1, <4>2
      <3> QED
        BY <3>2, <3>3
    <2>4. UNCHANGED <<now, redis, cookie, sid, who, arg, names, found, missing, stale, history>>
      BY <1>18 DEF Get
    <2> QED
      BY <2>1, <2>3, <2>4 DEF TypeOK, redis, history
  <1>19. CASE Touch(r)
    <2>0. At(r, "touch") /\ sid[r] \in Session
      BY <1>19, InHandIsThere DEF Touch, NeedsSid
    <2>1. todo' \in [Request -> Seq(Steps)] /\ Shapes'
      <3>1. CASE Continue(r)
        BY <1>c, <2>0, <3>1
      <3>2. CASE Call(r, <<"seen">>)
        BY <1>0, <2>0, <3>2, Seen DEF Goes
      <3> QED
        BY <1>19, <3>1, <3>2 DEF Touch
    <2>2. store' \in [Session -> Stored \cup {None}]
      <3>1. store[sid[r]] # None => [store[sid[r]] EXCEPT !.until = now + Ttl] \in Stored
        <4>1. now + Ttl \in Deadline /\ store[sid[r]] \in Stored \cup {None}
          BY <1>0, <2>0, Deadlines DEF TypeOK
        <4> QED
          BY <4>1 DEF Stored
      <3>2. store[sid[r]] # None => store' = [store EXCEPT ![sid[r]] = [store[sid[r]] EXCEPT !.until = now + Ttl]]
        BY <1>19 DEF Touch
      <3> QED
        BY <1>19, <3>1, <3>2 DEF Touch, TypeOK
    <2> QED
      BY <1>19, <2>1, <2>2 DEF Touch, TypeOK
  <1>20. CASE Del(r)
    <2>0. \E x \in {"del", "purge"} : At(r, x)
      BY <1>20 DEF Del
    <2>1. todo' \in [Request -> Seq(Steps)] /\ Shapes'
      BY <1>c, <1>20, <2>0 DEF Del
    <2>3. sid[r] \in Session /\ NoKey \in RedisSet(Client)
      BY <1>0, <2>0, InHandIsThere, Written DEF NeedsSid
    <2> QED
      BY <1>20, <2>1, <2>3 DEF Del, DeleteKeys, TypeOK
  <1>21. CASE Check(r)
    <2>0. At(r, "check")
      BY <1>21 DEF Check
    <2>1. todo' \in [Request -> Seq(Steps)] /\ Shapes'
      <3>1. CASE Continue(r)
        BY <1>c, <2>0, <3>1
      <3>2. CASE todo' = [todo EXCEPT ![r] = Tail(Tail(Tail(@)))]
        BY <1>0, <2>0, <3>2, Fails DEF Goes
      <3> QED
        BY <1>21, <3>1, <3>2 DEF Check
    <2>2. names' \in [Request -> SUBSET Client]
      BY <1>21 DEF Check, TypeOK
    <2> QED
      BY <1>21, <2>1, <2>2 DEF Check, TypeOK
  <1>22. CASE Tidy(r)
    <2>0. At(r, "tidy") /\ who[r] \in User
      BY <1>22, InHandIsThere DEF Tidy, NeedsWho, Lists
    <2>1. todo' \in [Request -> Seq(Steps)] /\ Shapes'
      <3>1. CASE Continue(r)
        BY <1>c, <2>0, <3>1
      <3>2. CASE todo' = [todo EXCEPT ![r] = <<"check", "retire", "unlist">> \o @]
        BY <1>0, <2>0, <3>2, Outdated DEF Goes
      <3>3. CASE UNCHANGED todo
        BY <1>0, <3>3 DEF Shapes
      <3> QED
        BY <1>22, <3>1, <3>2, <3>3 DEF Tidy
    <2>2. /\ missing' \in [Request -> SUBSET Session] /\ stale' \in [Request -> SUBSET Session]
          /\ sid' \in [Request -> Session \cup {None}]
      <3>1. /\ missing \in [Request -> SUBSET Session] /\ stale \in [Request -> SUBSET Session]
            /\ sid \in [Request -> Session \cup {None}]
        BY DEF TypeOK
      <3>2. stale[r] \subseteq Session
        BY <3>1
      <3>3. missing' \in [Request -> SUBSET Session]
        BY <1>22, <3>1 DEF Tidy
      <3>4. stale' \in [Request -> SUBSET Session]
        BY <1>22, <3>1 DEF Tidy
      <3>5. sid' \in [Request -> Session \cup {None}]
        BY <1>22, <3>1, <3>2 DEF Tidy
      <3> QED
        BY <3>3, <3>4, <3>5
    <2>3. index' \in [User -> RedisSet(Session)]
      <3>1. \A s : Removed(index[who[r]], s) \in RedisSet(Session)
        BY <1>0, <2>0, Written DEF TypeOK
      <3> QED
        <4>1. index \in [User -> RedisSet(Session)]
          BY DEF TypeOK
        <4>2. index' = index \/ \E s : index' = [index EXCEPT ![who[r]] = Removed(@, s)]
          BY <1>22 DEF Tidy
        <4> QED
          BY <3>1, <4>1, <4>2
    <2> QED
      BY <1>22, <2>1, <2>2, <2>3 DEF Tidy, TypeOK
  <1>23. CASE EndNext(r)
    <2>0. At(r, "endnext") /\ Left(r) \subseteq Session
      BY <1>23 DEF EndNext, Left, TypeOK
    <2>1. todo' \in [Request -> Seq(Steps)] /\ Shapes'
      <3>1. CASE Continue(r)
        BY <1>c, <2>0, <3>1
      <3>2. CASE todo' = [todo EXCEPT ![r] = <<"clients", "notify">> \o DeleteByPublicId \o @]
        BY <1>0, <2>0, <3>2, EndsOne DEF Goes
      <3> QED
        BY <1>23, <3>1, <3>2 DEF EndNext
    <2>2. found' \in [Request -> SUBSET Session] /\ sid' \in [Request -> Session \cup {None}]
      <3>1. found \in [Request -> SUBSET Session] /\ sid \in [Request -> Session \cup {None}]
        BY DEF TypeOK
      <3>2. \/ UNCHANGED <<found, sid>>
            \/ \E s \in Left(r) : /\ found' = [found EXCEPT ![r] = Left(r) \ {s}]
                                  /\ sid' = [sid EXCEPT ![r] = s]
        BY <1>23 DEF EndNext
      <3> QED
        BY <2>0, <3>1, <3>2
    <2> QED
      BY <1>23, <2>1, <2>2 DEF EndNext, TypeOK
  <1>24. CASE SignedInOnly(r)
    <2>1. todo' \in [Request -> Seq(Steps)] /\ Shapes'
      BY <1>c, <1>r, <1>24 DEF SignedInOnly
    <2> QED
      BY <1>24, <2>1 DEF SignedInOnly, TypeOK
  <1>25. CASE IssueCode(r)
    <2>1. todo' \in [Request -> Seq(Steps)] /\ Shapes'
      BY <1>c, <1>r, <1>25 DEF IssueCode
    <2>2. sid[r] \in Session /\ arg[r] \in Client
      BY <1>25, InHandIsThere DEF IssueCode, NeedsSid
    <2>3. owed' \subseteq Session \X Client
      BY <1>25, <2>2 DEF IssueCode, TypeOK
    <2> QED
      BY <1>25, <2>1, <2>3 DEF IssueCode, TypeOK
  <1>26. CASE Rejected(r)
    <2>1. todo' \in [Request -> Seq(Steps)] /\ Shapes'
      BY <1>r, <1>26 DEF Rejected
    <2> QED
      BY <1>26, <2>1 DEF Rejected, TypeOK
  <1>27. CASE SignIn(r)
    <2>1. todo' \in [Request -> Seq(Steps)] /\ Shapes'
      BY <1>0, <1>27, SignsIn DEF SignIn, Goes
    <2> QED
      BY <1>27, <2>1 DEF SignIn, TypeOK
  <1>28. CASE Done(r)
    <2>1. todo' \in [Request -> Seq(Steps)] /\ Shapes'
      BY <1>0, <1>28, Finishes DEF Done
    <2>2. cookie' \in [Session -> Deadline]
      <3>1. login[r] # None => sid[r] \in Session
        BY InHandIsThere
      <3> QED
        BY <1>0, <1>28, <3>1, Deadlines DEF Done, TypeOK
    <2> QED
      BY <1>28, <2>1, <2>2 DEF Done, TypeOK
  <1> QED
    BY <1>1, <1>2, <1>3, <1>4, <1>5, <1>6, <1>7, <1>8, <1>9, <1>10, <1>11, <1>12, <1>13, <1>14,
       <1>15, <1>16, <1>17, <1>18, <1>19, <1>20, <1>21, <1>22, <1>23, <1>24, <1>25, <1>26, <1>27,
       <1>28 DEF Step

\* So does an arrival.
LEMMA ArriveTypes ==
    ASSUME TypeOK, Shapes, NEW r \in Request, Arrive(r)
    PROVE  TypeOK' /\ Shapes'
  <1>1. ASSUME NEW p, NEW x, NEW S, Work(p \o <<"done">>, x, S),
               NEW s \in Session \cup {None}, NEW u \in User \cup {None},
               NEW a \in Client \cup Factor \cup Session \cup {None}, Start(r, p, s, u, a)
        PROVE  TypeOK' /\ Shapes'
    <2>1. todo' \in [Request -> Seq(Steps)] /\ Shapes'
      BY <1>1, Starts DEF TypeOK, Goes
    <2> QED
      BY <1>1, <2>1 DEF Start, TypeOK, locals, history, redis
  <1>2. ASSUME NEW s \in Session \cup {None}, NEW u \in User, Login(r, s, u)
        PROVE  TypeOK' /\ Shapes'
    <2>1. CASE s = None
      <3> DEFINE p == <<"login">>
      <3>1. \E x, S : Work(p \o <<"done">>, x, S)
        BY Programs
      <3>2. Start(r, p, s, u, None)
        BY <2>1, <1>2 DEF Login
      <3> HIDE DEF p
      <3> QED
        BY <1>1, <1>2, <3>1, <3>2
    <2>2. CASE s # None
      <3> DEFINE p == GetSession \o <<"login">>
      <3>1. \E x, S : Work(p \o <<"done">>, x, S)
        BY Programs
      <3>2. Start(r, p, s, u, None)
        BY <2>2, <1>2 DEF Login
      <3> HIDE DEF p
      <3> QED
        BY <1>1, <1>2, <3>1, <3>2
    <2> QED
      BY <2>1, <2>2
  <1>3. ASSUME NEW s \in Session, NEW c \in Client, Authorize(r, s, c)
        PROVE  TypeOK' /\ Shapes'
    <2> DEFINE p == GetSession \o <<"signedin", "code", "addclient", "clientsttl">>
    <2>1. \E x, S : Work(p \o <<"done">>, x, S)
      BY Programs
    <2>2. Start(r, p, s, None, c)
      BY <1>3 DEF Authorize
    <2> HIDE DEF p
    <2> QED
      BY <1>1, <1>3, <2>1, <2>2
  <1>4. ASSUME NEW s \in Session, NEW f \in Factor, StepUp(r, s, f)
        PROVE  TypeOK' /\ Shapes'
    <2> DEFINE p == GetSession \o <<"signedin", "addmethod">>
    <2>1. \E x, S : Work(p \o <<"done">>, x, S)
      BY Programs
    <2>2. Start(r, p, s, None, f)
      BY <1>4 DEF StepUp
    <2> HIDE DEF p
    <2> QED
      BY <1>1, <1>4, <2>1, <2>2
  <1>5. ASSUME NEW s \in Session, Logout(r, s)
        PROVE  TypeOK' /\ Shapes'
    <2> DEFINE p == GetSession \o <<"signedin">> \o EndSession
    <2>1. \E x, S : Work(p \o <<"done">>, x, S)
      BY Programs
    <2>2. Start(r, p, s, None, None)
      BY <1>5 DEF Logout
    <2> HIDE DEF p
    <2> QED
      BY <1>1, <1>5, <2>1, <2>2
  <1>6. ASSUME NEW s \in Session, NEW u \in User, RevokeSession(r, s, u)
        PROVE  TypeOK' /\ Shapes'
    <2> DEFINE p == <<"clients">> \o DeleteByPublicId \o <<"notify">>
    <2>1. \E x, S : Work(p \o <<"done">>, x, S)
      BY Programs
    <2>2. Start(r, p, s, u, None)
      BY <1>6 DEF RevokeSession
    <2> HIDE DEF p
    <2> QED
      BY <1>1, <1>6, <2>1, <2>2
  <1>7. ASSUME NEW u \in User, ListSessions(r, u)
        PROVE  TypeOK' /\ Shapes'
    <2> DEFINE p == <<"list", "mget", "tidy">>
    <2>1. \E x, S : Work(p \o <<"done">>, x, S)
      BY Programs
    <2>2. Start(r, p, None, u, None)
      BY <1>7 DEF ListSessions
    <2> HIDE DEF p
    <2> QED
      BY <1>1, <1>7, <2>1, <2>2
  <1>8. ASSUME NEW u \in User, NEW keep \in Session \cup {None}, EndAllSessions(r, u, keep)
        PROVE  TypeOK' /\ Shapes'
    <2> DEFINE p == <<"list", "mget", "tidy", "endnext">>
    <2>1. \E x, S : Work(p \o <<"done">>, x, S)
      BY Programs
    <2>2. Start(r, p, None, u, keep)
      BY <1>8 DEF EndAllSessions
    <2> HIDE DEF p
    <2> QED
      BY <1>1, <1>8, <2>1, <2>2 DEF EndAllSessions, Named
  <1> QED
    BY <1>2, <1>3, <1>4, <1>5, <1>6, <1>7, <1>8 DEF Arrive

\* Time does too.
LEMMA TickTypes ==
    ASSUME TypeOK, Shapes, InPlace, Tick
    PROVE  TypeOK' /\ Shapes' /\ InPlace'
  <1>0. UNCHANGED <<cookie, todo, locals, performed, ended, revived, owed, due>>
    BY DEF Tick
  <1>1. Shapes' /\ InPlace'
    BY <1>0 DEF Shapes, InPlace, Ready, At, Pending, locals
  <1>2. now' \in Time
    BY LimitsAssumption DEF Tick, TypeOK, Time
  <1>3. store' \in [Session -> Stored \cup {None}]
    BY DEF Tick, TypeOK
  <1>4. \A S : NoKey \in RedisSet(S)
    BY Written DEF TypeOK
  <1>5. clients' \in [Session -> RedisSet(Client)]
    BY <1>4 DEF Tick, TypeOK
  <1>6. index' \in [User -> RedisSet(Session)]
    BY <1>4 DEF Tick, TypeOK
  <1>7. broken' \subseteq Session /\ broken \subseteq broken'
    BY DEF Tick, TypeOK
  <1>8. lapsed' \subseteq Session
    BY DEF Tick, TypeOK, RedisSet
  <1>9. excused' \subseteq Session \X Client
    BY DEF Tick, TypeOK
  <1> QED
    BY <1>0, <1>1, <1>2, <1>3, <1>5, <1>6, <1>7, <1>8, <1>9 DEF TypeOK, locals

\* Types, shapes, and what is in hand, at every step.
LEMMA Sound ==
    ASSUME TypeOK, Shapes, InPlace, [Next]_vars
    PROVE  TypeOK' /\ Shapes' /\ InPlace'
  <1>1. ASSUME NEW r \in Request, Step(r)
        PROVE  TypeOK' /\ Shapes' /\ InPlace'
    <2>1. Ready(r)'
      BY <1>1, PlainReady, AnswerReady, GetReady, ForgetReady, TouchReady, SaveReady, ReadReady,
         TakeReady, SignInReady, NewReady, DoneReady DEF Step
    <2> QED
      BY <1>1, <2>1, StepTypes, OneAtATime, ReadyAlone
  <1>2. ASSUME NEW r \in Request, Arrive(r)
        PROVE  TypeOK' /\ Shapes' /\ InPlace'
    BY <1>2, ArriveTypes, ArriveReady, OneAtATime, ReadyAlone
  <1>3. CASE UNCHANGED vars
    BY <1>3 DEF TypeOK, Shapes, InPlace, Ready, At, Pending, vars, redis, locals, history
  <1> QED
    BY <1>1, <1>2, <1>3, TickTypes DEF Next

-----------------------------------------------------------------------------
(* What a step can have done to a session.                                 *)

\* A request only writes to the session it has in hand; what is over stays over;
\* what has been proved stays proved; and only that session is newly listed, or
\* else nobody's index changes but for what is gone.
Footprint(r) ==
    /\ now' = now /\ lapsed' = lapsed
    /\ \A s \in Session \ {sid[r]} : store'[s] = store[s] /\ cookie'[s] = cookie[s]
    /\ \A s \in Session : performed[s] \subseteq performed'[s]
    /\ \A s \in Session : sid'[r] # s => performed'[s] = performed[s] \/ s = sid[r]
    /\ broken \subseteq broken' /\ broken' \subseteq broken \cup {sid[r]}
    /\ \A u \in User : index'[u].members \subseteq index[u].members \cup {sid[r]}

\* A request's footprint.
LEMMA Footprints ==
    ASSUME TypeOK, Shapes, InPlace, NEW r \in Request, Step(r) \/ Arrive(r)
    PROVE  Footprint(r)
  <1>0. /\ store \in [Session -> Stored \cup {None}] /\ index \in [User -> RedisSet(Session)]
        /\ cookie \in [Session -> Deadline] /\ performed \in [Session -> SUBSET (Method \X Time)]
        /\ sid \in [Request -> Session \cup {None}]
    BY DEF TypeOK
  <1>1. /\ \A key, x : Added(key, x).members = key.members \cup {x}
        /\ \A key, x : Removed(key, x).members \subseteq key.members
        /\ \A key : Extended(key).members = key.members
    BY DEF Added, Removed, Extended, NoKey
  <1> USE DEF locals, history, redis
  <1>2. CASE Get(r)
    BY <1>0, <1>2 DEF Get, Footprint
  <1>3. CASE Forget(r)
    BY <1>0, <1>3 DEF Forget, Footprint
  <1>4. CASE Touch(r)
    BY <1>0, <1>4 DEF Touch, Footprint
  <1>5. CASE SaveSeen(r)
    <2>1. store' = store \/ \E v : store' = [store EXCEPT ![sid[r]] = v]
      BY <1>5 DEF SaveSeen, Save
    <2>2. performed' = performed \/ \E v : performed' = [performed EXCEPT ![sid[r]] = @ \cup v]
      BY <1>5 DEF SaveSeen
    <2>3. UNCHANGED <<now, lapsed, cookie, broken, index>>
      BY <1>5 DEF SaveSeen
    <2> QED
      BY <1>0, <2>1, <2>2, <2>3 DEF Footprint
  <1>6. CASE Del(r)
    BY <1>0, <1>6 DEF Del, Footprint, DeleteKeys
  <1>7. CASE Retire(r)
    BY <1>0, <1>7 DEF Retire, Footprint, DeleteKeys
  <1>8. CASE Unindex(r)
    <2>1. index' = index \/ \E u, s : index' = [index EXCEPT ![u] = Removed(@, s)]
      BY <1>8 DEF Unindex
    <2>2. \A u \in User : index'[u].members \subseteq index[u].members \cup {sid[r]}
      BY <1>0, <1>1, <2>1
    <2> QED
      BY <1>8, <2>2 DEF Unindex, Footprint
  <1>9. CASE Check(r)
    BY <1>0, <1>9 DEF Check, Footprint
  <1>10. CASE Unlist(r)
    <2>1. \E u, s : index' = [index EXCEPT ![u] = Removed(@, s)]
      BY <1>10 DEF Unlist
    <2>2. \A u \in User : index'[u].members \subseteq index[u].members \cup {sid[r]}
      BY <1>0, <1>1, <2>1
    <2> QED
      BY <1>10, <2>2 DEF Unlist, Footprint
  <1>11. CASE ReadClients(r)
    BY <1>0, <1>11 DEF ReadClients, Footprint
  <1>12. CASE Notify(r)
    BY <1>0, <1>12 DEF Notify, Footprint
  <1>13. CASE ReadIndex(r)
    BY <1>0, <1>13 DEF ReadIndex, Footprint
  <1>14. CASE ReadSessions(r)
    BY <1>0, <1>14 DEF ReadSessions, Footprint
  <1>15. CASE Tidy(r)
    <2>1. index' = index \/ \E u, s : index' = [index EXCEPT ![u] = Removed(@, s)]
      BY <1>15 DEF Tidy
    <2>2. \A u \in User : index'[u].members \subseteq index[u].members \cup {sid[r]}
      BY <1>0, <1>1, <2>1
    <2> QED
      BY <1>15, <2>2 DEF Tidy, Footprint
  <1>16. CASE EndNext(r)
    BY <1>0, <1>16 DEF EndNext, Footprint
  <1>17. CASE SignedInOnly(r)
    BY <1>0, <1>17 DEF SignedInOnly, Footprint
  <1>18. CASE IssueCode(r)
    BY <1>0, <1>18 DEF IssueCode, Footprint
  <1>19. CASE AddClient(r)
    BY <1>0, <1>19 DEF AddClient, Footprint
  <1>20. CASE ExtendClients(r)
    BY <1>0, <1>20 DEF ExtendClients, Footprint
  <1>21. CASE Rejected(r)
    BY <1>0, <1>21 DEF Rejected, Footprint
  <1>22. CASE AddMethod(r)
    <2>1. store' = store \/ \E v : store' = [store EXCEPT ![sid[r]] = v]
      BY <1>22 DEF AddMethod, Save
    <2>2. performed' = performed \/ \E v : performed' = [performed EXCEPT ![sid[r]] = @ \cup v]
      BY <1>22 DEF AddMethod
    <2>3. UNCHANGED <<now, lapsed, cookie, broken, index>>
      BY <1>22 DEF AddMethod
    <2> QED
      BY <1>0, <2>1, <2>2, <2>3 DEF Footprint
  <1>23. CASE SignIn(r)
    BY <1>0, <1>23 DEF SignIn, Footprint
  <1>24. CASE Reauthenticate(r)
    <2>1. store' = store \/ \E v : store' = [store EXCEPT ![sid[r]] = v]
      BY <1>24 DEF Reauthenticate, Save
    <2>2. performed' = performed \/ \E v : performed' = [performed EXCEPT ![sid[r]] = @ \cup v]
      BY <1>24 DEF Reauthenticate
    <2>3. UNCHANGED <<now, lapsed, cookie, broken, index>>
      BY <1>24 DEF Reauthenticate
    <2> QED
      BY <1>0, <2>1, <2>2, <2>3 DEF Footprint
  <1>25. CASE NewSession(r)
    BY <1>0, <1>25 DEF NewSession, Footprint, NewId
  <1>26. CASE SaveNew(r)
    <2>1. store' = store \/ \E v : store' = [store EXCEPT ![sid[r]] = v]
      BY <1>26 DEF SaveNew, Save
    <2>2. performed' = performed \/ \E v : performed' = [performed EXCEPT ![sid[r]] = @ \cup v]
      BY <1>26 DEF SaveNew
    <2>3. UNCHANGED <<now, lapsed, cookie, broken, index>>
      BY <1>26 DEF SaveNew
    <2> QED
      BY <1>0, <2>1, <2>2, <2>3 DEF Footprint
  <1>27. CASE Index(r)
    <2>1. \E u : index' = [index EXCEPT ![u] = Added(@, sid[r])]
      BY <1>27 DEF Index
    <2>2. \A u \in User : index'[u].members \subseteq index[u].members \cup {sid[r]}
      BY <1>0, <1>1, <2>1
    <2> QED
      BY <1>27, <2>2 DEF Index, Footprint
  <1>28. CASE ExtendIndex(r)
    <2>1. \E u : index' = [index EXCEPT ![u] = Extended(@)]
      BY <1>28 DEF ExtendIndex
    <2>2. \A u \in User : index'[u].members \subseteq index[u].members \cup {sid[r]}
      BY <1>0, <1>1, <2>1
    <2> QED
      BY <1>28, <2>2 DEF ExtendIndex, Footprint
  <1>29. CASE Done(r)
    BY <1>0, <1>29 DEF Done, Footprint
  <1>30. ASSUME NEW p, NEW s, NEW u, NEW a, Start(r, p, s, u, a)
        PROVE  Footprint(r)
    BY <1>0, <1>30 DEF Start, Footprint
  <1>31. CASE Arrive(r)
    BY <1>30, <1>31 DEF Arrive, Login, Authorize, StepUp, Logout, RevokeSession, ListSessions,
       EndAllSessions
  <1> QED
    BY <1>2, <1>3, <1>4, <1>5, <1>6, <1>7, <1>8, <1>9, <1>10, <1>11, <1>12, <1>13, <1>14, <1>15,
       <1>16, <1>17, <1>18, <1>19, <1>20, <1>21, <1>22, <1>23, <1>24, <1>25, <1>26, <1>27, <1>28,
       <1>29, <1>31 DEF Step

\* The requests other than r.
LEMMA OthersStill ==
    ASSUME NEW r \in Request, Alone(r), NEW q \in Request \ {r}
    PROVE  /\ Still(q)
           /\ \A x : At(q, x)' <=> At(q, x)
           /\ \A x : Pending(q, x)' <=> Pending(q, x)
  <1>1. Still(q)
    BY DEF Alone
  <1> QED
    BY <1>1, Others DEF Still

-----------------------------------------------------------------------------
(* Sessions come from somewhere.                                           *)

\* r takes nothing in hand but what is somewhere already, or what is new.
LEMMA TakesKnown ==
    ASSUME TypeOK, Shapes, InPlace, NEW r \in Request, Step(r) \/ Arrive(r),
           NEW s \in Session, cookie[s] = 0, \A u \in User : s \notin index[u].members,
           sid[r] # s, s \notin found[r] \cup stale[r] \cup missing[r], performed'[s] = {}
    PROVE  sid'[r] # s /\ s \notin found'[r] \cup stale'[r] \cup missing'[r]
  <1>0. Records /\ None \notin Session
    BY NamesAssumption DEF TypeOK, Records
  <1> USE DEF locals
  <1>1. CASE UNCHANGED <<sid, found, stale, missing>>
    BY <1>1
  <1>2. CASE Done(r)
    BY <1>0, <1>2 DEF Done, Records
  <1>3. CASE ReadIndex(r)
    <2>1. who[r] \in User
      BY <1>3, InHandIsThere DEF ReadIndex, NeedsWho, Lists
    <2> QED
      BY <1>0, <1>3, <2>1 DEF ReadIndex, Records
  <1>4. CASE ReadSessions(r)
    BY <1>0, <1>4 DEF ReadSessions, Records
  <1>5. CASE Tidy(r)
    BY <1>0, <1>5 DEF Tidy, Records
  <1>6. CASE EndNext(r)
    BY <1>0, <1>6 DEF EndNext, Left, Records
  <1>7. CASE NewSession(r)
    <2>1. PICK t \in Session : /\ sid' = [sid EXCEPT ![r] = t]
                               /\ performed' = [performed EXCEPT ![t] = @ \cup {<<Pwd, now>>}]
      BY <1>7 DEF NewSession
    <2>2. performed'[t] # {}
      BY <2>1 DEF TypeOK
    <2>3. UNCHANGED <<found, stale, missing>>
      BY <1>7 DEF NewSession
    <2> QED
      BY <1>0, <2>1, <2>2, <2>3 DEF Records
  <1>8. ASSUME NEW p, NEW t, NEW u, NEW a, Start(r, p, t, u, a), t # s
        PROVE  sid'[r] # s /\ s \notin found'[r] \cup stale'[r] \cup missing'[r]
    BY <1>0, <1>8 DEF Start, Records
  <1>9. CASE Arrive(r)
    <2>1. ~Presented(s) /\ s \notin Named
      BY DEF Presented, Named
    <2>2. CASE \E t \in Session \cup {None}, u \in User : Login(r, t, u)
      BY <1>0, <1>8, <2>1, <2>2 DEF Login
    <2>3. CASE \E t \in Session, c \in Client : Authorize(r, t, c)
      BY <1>8, <2>1, <2>3 DEF Authorize
    <2>4. CASE \E t \in Session, f \in Factor : StepUp(r, t, f)
      BY <1>8, <2>1, <2>4 DEF StepUp
    <2>5. CASE \E t \in Session : Logout(r, t)
      BY <1>8, <2>1, <2>5 DEF Logout
    <2>6. CASE \E t \in Session, u \in User : RevokeSession(r, t, u)
      BY <1>8, <2>1, <2>6 DEF RevokeSession
    <2>7. CASE \E u \in User : ListSessions(r, u)
      BY <1>0, <1>8, <2>7 DEF ListSessions
    <2>8. CASE \E u \in User, keep \in Session \cup {None} : EndAllSessions(r, u, keep)
      BY <1>0, <1>8, <2>8 DEF EndAllSessions
    <2> QED
      BY <1>9, <2>2, <2>3, <2>4, <2>5, <2>6, <2>7, <2>8 DEF Arrive
  <1> QED
    BY <1>1, <1>2, <1>3, <1>4, <1>5, <1>6, <1>7, <1>9
       DEF Step, Get, Forget, Touch, SaveSeen, Del, Retire, Unindex, Check, Unlist, ReadClients,
           Notify, SignedInOnly, IssueCode, AddClient, ExtendClients, Rejected, AddMethod, SignIn,
           Reauthenticate, SaveNew, Index, ExtendIndex

\* Ids are generated before they are anywhere else.
LEMMA GeneratedKept ==
    ASSUME TypeOK, Shapes, InPlace, Generated, [Next]_vars
    PROVE  Generated'
  <1>1. ASSUME NEW r \in Request, Step(r) \/ Arrive(r)
        PROVE  Generated'
    <2>1. Footprint(r) /\ Alone(r)
      BY <1>1, Footprints, OneAtATime
    <2> SUFFICES ASSUME NEW s \in Session, performed'[s] = {}
                 PROVE  /\ store'[s] = None /\ cookie'[s] = 0 /\ s \notin broken'
                        /\ \A u \in User : s \notin index'[u].members
                        /\ \A q \in Request :
                              sid'[q] # s /\ s \notin found'[q] \cup stale'[q] \cup missing'[q]
      BY DEF Generated
    <2>2. performed[s] = {}
      BY <2>1 DEF Footprint
    <2>3. /\ store[s] = None /\ cookie[s] = 0 /\ s \notin broken
          /\ \A u \in User : s \notin index[u].members
          /\ \A q \in Request : sid[q] # s /\ s \notin found[q] \cup stale[q] \cup missing[q]
      BY <2>2 DEF Generated
    <2>4. /\ store'[s] = None /\ cookie'[s] = 0 /\ s \notin broken'
          /\ \A u \in User : s \notin index'[u].members
      BY <2>1, <2>3 DEF Footprint
    <2>5. sid'[r] # s /\ s \notin found'[r] \cup stale'[r] \cup missing'[r]
      BY <1>1, <2>3, TakesKnown
    <2>6. \A q \in Request \ {r} : sid'[q] # s /\ s \notin found'[q] \cup stale'[q] \cup missing'[q]
      BY <2>1, <2>3 DEF Alone, Still
    <2> QED
      BY <2>4, <2>5, <2>6
  <1>2. CASE Tick
    <2>1. UNCHANGED <<cookie, sid, found, missing, stale, performed>>
      BY <1>2 DEF Tick, locals
    <2>2. \A s \in Session : /\ store[s] = None => store'[s] = None
                             /\ s \in broken' => s \in broken \/ store[s] # None
      BY <1>2 DEF Tick
    <2>3. \A u \in User : index'[u].members \subseteq index[u].members
      BY <1>2 DEF Tick, NoKey
    <2> QED
      BY <2>1, <2>2, <2>3 DEF Generated
  <1>3. CASE UNCHANGED vars
    BY <1>3 DEF Generated, vars, redis, locals, history
  <1> QED
    BY <1>1, <1>2, <1>3 DEF Next

-----------------------------------------------------------------------------
(* What a session claims was earned.                                       *)

\* What has been earned stays earned.
LEMMA StaysEarned ==
    ASSUME NEW deeds, NEW more, deeds \subseteq more, NEW obj, Earned(deeds, obj)
    PROVE  Earned(more, obj)
  BY DEF Earned

\* Objects that claim the same.
LEMMA SameClaim ==
    ASSUME NEW deeds, NEW a, NEW b, a.amr = b.amr, a.since = b.since, Earned(deeds, a)
    PROVE  Earned(deeds, b)
  BY DEF Earned

\* The saves: what r writes, and what it has in hand afterwards.
LEMMA SavesEarned ==
    ASSUME TypeOK, Shapes, InPlace, Earnings, NEW r \in Request,
           SaveSeen(r) \/ SaveNew(r) \/ AddMethod(r) \/ Reauthenticate(r)
    PROVE  /\ sid[r] \in Session /\ sid' = sid
           /\ store'[sid[r]] # None => Earned(performed'[sid[r]], store'[sid[r]])
           /\ Earned(performed'[sid[r]], login'[r])
           /\ \A p \in performed'[sid[r]] : p[2] <= now
  <1> DEFINE s == sid[r]
  <1>0. /\ store \in [Session -> Stored \cup {None}] /\ login \in [Request -> Held \cup {None}]
        /\ performed \in [Session -> SUBSET (Method \X Time)] /\ now \in Time /\ Time \subseteq Nat
    BY Deadlines DEF TypeOK
  <1>1. ASSUME NEW obj, Earned(performed'[s], obj), s \in Session, Save(r, s, obj)
        PROVE  /\ store'[s] # None => Earned(performed'[s], store'[s])
               /\ Earned(performed'[s], login'[r])
    <2>1. login'[r] = obj /\ store'[s].amr = obj.amr /\ store'[s].since = obj.since
      BY <1>0, <1>1 DEF Save
    <2> QED
      BY <1>1, <2>1, SameClaim
  <1>2. s \in Session /\ login[r] \in Held
    BY InHandIsThere DEF SaveSeen, SaveNew, AddMethod, Reauthenticate, NeedsLogin
  <1>3. Earned(performed[s], login[r]) /\ \A p \in performed[s] : p[2] <= now
    BY <1>2, NamesAssumption DEF Earnings, Held
  <1>4. sid' = sid
    BY DEF SaveSeen, SaveNew, AddMethod, Reauthenticate
  <1>5. CASE SaveSeen(r) \/ SaveNew(r)
    <2>1. performed' = performed /\ Save(r, s, login[r])
      BY <1>5 DEF SaveSeen, SaveNew, history
    <2> QED
      BY <1>1, <1>2, <1>3, <1>4, <2>1
  <1>6. CASE AddMethod(r)
    <2>1. performed' = [performed EXCEPT ![s] = @ \cup {<<arg[r], now>>}]
      BY <1>6 DEF AddMethod
    <2>2. performed'[s] = performed[s] \cup {<<arg[r], now>>}
      BY <1>0, <1>2, <2>1
    <2>3. \A p \in performed'[s] : p[2] <= now
      BY <1>0, <1>3, <2>2
    <2>4. Earned(performed'[s], login[r])
      BY <1>3, <2>2, StaysEarned
    <2>5. CASE UNCHANGED <<store, login>>
      <3>1. store[s] # None => Earned(performed[s], store[s])
        BY <1>2 DEF Earnings
      <3>2. store[s] # None => Earned(performed'[s], store[s])
        BY <2>2, <3>1, StaysEarned
      <3> QED
        BY <1>2, <1>4, <2>3, <2>4, <2>5, <3>2
    <2>6. CASE Save(r, s, [user |-> login[r].user, amr |-> login[r].amr \cup {arg[r]},
                           since |-> login[r].since])
      <3> DEFINE obj == [user |-> login[r].user, amr |-> login[r].amr \cup {arg[r]},
                         since |-> login[r].since]
      <3>1. obj.amr = login[r].amr \cup {arg[r]} /\ obj.since = login[r].since
        OBVIOUS
      <3> HIDE DEF obj
      <3>2. <<Pwd, login[r].since>> \in performed[s] /\ login[r].since \in Time
        BY <1>2, <1>3 DEF Earned, Held
      <3>3. login[r].since <= now
        <4>1. <<Pwd, login[r].since>>[2] <= now
          BY <1>3, <3>2
        <4> QED
          BY <4>1
      <3>4. now >= login[r].since /\ <<arg[r], now>> \in performed'[s]
        BY <1>0, <2>2, <3>2, <3>3
      <3>5. Earned(performed'[s], obj)
        BY <1>0, <2>4, <3>1, <3>4 DEF Earned
      <3>6. Save(r, s, obj)
        BY <2>6 DEF obj
      <3> QED
        BY <1>1, <1>2, <1>4, <2>3, <3>5, <3>6
    <2> QED
      BY <1>6, <2>5, <2>6 DEF AddMethod
  <1>7. CASE Reauthenticate(r)
    <2> DEFINE obj == [user |-> who[r], amr |-> StartsOver(r), since |-> now]
    <2>1. performed' = [performed EXCEPT ![s] = @ \cup {<<Pwd, now>>}] /\ Save(r, s, obj)
      BY <1>7 DEF Reauthenticate
    <2>2. performed'[s] = performed[s] \cup {<<Pwd, now>>}
      BY <1>0, <1>2, <2>1
    <2>3. \A p \in performed'[s] : p[2] <= now
      BY <1>0, <1>3, <2>2
    <2>4. obj.amr = {Pwd} /\ obj.since = now
      BY DEF StartsOver
    <2> HIDE DEF obj
    <2>5. Earned(performed'[s], obj)
      BY <1>0, <2>2, <2>4 DEF Earned
    <2> QED
      BY <1>1, <1>2, <1>4, <2>1, <2>3, <2>5
  <1> QED
    BY <1>5, <1>6, <1>7

\* What r has in hand.
LEMMA HeldEarned ==
    ASSUME TypeOK, Shapes, InPlace, Earnings, NEW r \in Request, Step(r) \/ Arrive(r),
           login'[r] # None
    PROVE  Earned(performed'[sid'[r]], login'[r])
  <1>0. Records /\ performed \in [Session -> SUBSET (Method \X Time)]
    BY DEF TypeOK, Records
  <1>f. Footprint(r) /\ (login[r] # None => sid[r] \in Session /\ Earned(performed[sid[r]], login[r]))
    BY Footprints, InHandIsThere DEF Earnings
  <1>1. ASSUME sid'[r] = sid[r], login'[r] = login[r]
        PROVE  Earned(performed'[sid'[r]], login'[r])
    BY <1>1, <1>f, StaysEarned DEF Footprint
  <1>2. CASE Get(r)
    <2>1. sid[r] \in Session /\ sid' = sid /\ performed' = performed
      BY <1>2, InHandIsThere DEF Get, NeedsSid, history
    <2>2. store[sid[r]] # None /\ login'[r] = [user |-> store[sid[r]].user,
              amr |-> store[sid[r]].amr, since |-> store[sid[r]].since]
      BY <1>0, <1>2 DEF Get, Records
    <2>3. Earned(performed[sid[r]], store[sid[r]])
      BY <2>1, <2>2 DEF Earnings
    <2>4. login'[r].amr = store[sid[r]].amr /\ login'[r].since = store[sid[r]].since
      BY <2>2
    <2> QED
      BY <2>1, <2>3, <2>4, SameClaim
  <1>3. CASE SaveSeen(r) \/ SaveNew(r) \/ AddMethod(r) \/ Reauthenticate(r)
    BY <1>3, SavesEarned
  <1>4. CASE NewSession(r)
    <2>1. PICK t \in Session : /\ sid' = [sid EXCEPT ![r] = t]
                               /\ performed' = [performed EXCEPT ![t] = @ \cup {<<Pwd, now>>}]
      BY <1>4 DEF NewSession
    <2>2. login'[r] = [user |-> who[r], amr |-> {Pwd}, since |-> now]
      BY <1>0, <1>4 DEF NewSession, Records
    <2>3. sid'[r] = t /\ <<Pwd, now>> \in performed'[t] /\ now \in Time /\ Time \subseteq Nat
      BY <1>0, <2>1, Deadlines DEF Records, TypeOK
    <2>4. login'[r].amr = {Pwd} /\ login'[r].since = now
      BY <2>2
    <2> QED
      BY <2>3, <2>4 DEF Earned
  <1>5. CASE Forget(r) \/ Done(r)
    BY <1>0, <1>5 DEF Forget, Done, Records
  <1>6. CASE Tidy(r) \/ EndNext(r)
    <2>1. login[r] = None
      BY <1>6, AtPending DEF Tidy, EndNext, InPlace, Ready, Lists
    <2> QED
      BY <1>6, <2>1 DEF Tidy, EndNext
  <1>7. CASE Arrive(r)
    <2>1. todo[r] = <<>> /\ login' = login
      BY <1>7 DEF Arrive, Login, Authorize, StepUp, Logout, RevokeSession, ListSessions,
         EndAllSessions, Start
    <2> QED
      BY <2>1 DEF InPlace, Ready
  <1> QED
    BY <1>1, <1>2, <1>3, <1>4, <1>5, <1>6, <1>7
       DEF Step, Touch, Del, Retire, Unindex, Check, Unlist, ReadClients, ReadIndex, ReadSessions,
           Notify, SignedInOnly, IssueCode, AddClient, ExtendClients, Rejected, SignIn,
           Index, ExtendIndex, locals

\* What is stored for the session r has in hand, and when things were proved.
LEMMA StoredEarned ==
    ASSUME TypeOK, Shapes, InPlace, Earnings, NEW r \in Request, Step(r) \/ Arrive(r),
           NEW s \in Session
    PROVE  /\ store'[s] # None => Earned(performed'[s], store'[s])
           /\ \A p \in performed'[s] : p[2] <= now
  <1>f. Footprint(r)
    BY Footprints
  <1>0. /\ store \in [Session -> Stored \cup {None}] /\ sid \in [Request -> Session \cup {None}]
        /\ performed \in [Session -> SUBSET (Method \X Time)] /\ now \in Time /\ Time \subseteq Nat
    BY Deadlines DEF TypeOK
  <1>1. /\ store[s] # None => Earned(performed[s], store[s])
        /\ \A p \in performed[s] : p[2] <= now
    BY DEF Earnings
  <1>2. store[s] # None => Earned(performed'[s], store[s])
    BY <1>f, <1>1, StaysEarned DEF Footprint
  <1>3. CASE SaveSeen(r) \/ SaveNew(r) \/ AddMethod(r) \/ Reauthenticate(r)
    <2>1. CASE s = sid[r]
      BY <1>3, <2>1, SavesEarned
    <2>2. CASE s # sid[r]
      <3>1. sid' = sid
        BY <1>3, SavesEarned
      <3>2. performed'[s] = performed[s]
        <4>1. performed' = performed \/ \E v : performed' = [performed EXCEPT ![sid[r]] = v]
          BY <1>3 DEF SaveSeen, SaveNew, AddMethod, Reauthenticate, history
        <4> QED
          BY <1>0, <2>2, <4>1
      <3>3. store'[s] = store[s]
        BY <1>f, <2>2 DEF Footprint
      <3> QED
        BY <1>1, <3>2, <3>3
    <2> QED
      BY <2>1, <2>2
  <1>4. CASE NewSession(r)
    <2>1. PICK t \in Session : performed' = [performed EXCEPT ![t] = @ \cup {<<Pwd, now>>}]
      BY <1>4 DEF NewSession
    <2>2. performed'[s] = performed[s] \/ performed'[s] = performed[s] \cup {<<Pwd, now>>}
      BY <1>0, <2>1
    <2>3. \A p \in performed'[s] : p[2] <= now
      BY <1>0, <1>1, <2>2
    <2>4. store' = store
      BY <1>4 DEF NewSession, redis
    <2> QED
      BY <1>2, <2>3, <2>4
  <1>5. CASE Touch(r)
    <2>1. performed' = performed
      BY <1>5 DEF Touch, history
    <2>2. store'[s] # None => /\ store[s] # None
                              /\ store'[s].amr = store[s].amr /\ store'[s].since = store[s].since
      <3>1. store' = store \/ (store[sid[r]] # None /\ store' = [store EXCEPT ![sid[r]].until = now + Ttl])
        BY <1>5 DEF Touch
      <3>2. store[s] # None => store[s] \in Stored
        BY <1>0
      <3> QED
        BY <1>0, <3>1, <3>2 DEF Stored
    <2>3. store'[s] # None => Earned(performed[s], store'[s])
      BY <1>1, <2>2, SameClaim
    <2> QED
      BY <1>1, <2>1, <2>3
  <1>6. CASE UNCHANGED performed /\ (store'[s] = store[s] \/ store'[s] = None)
    BY <1>1, <1>6
  <1>7. CASE Del(r) \/ Retire(r)
    BY <1>0, <1>6, <1>7 DEF Del, Retire, DeleteKeys
  <1>8. CASE Arrive(r)
    BY <1>6, <1>8 DEF Arrive, Login, Authorize, StepUp, Logout, RevokeSession, ListSessions,
         EndAllSessions, Start, redis, history
  <1> QED
    BY <1>3, <1>4, <1>5, <1>6, <1>7, <1>8
       DEF Step, Get, Forget, Unindex, Check, Unlist, ReadClients, ReadIndex, ReadSessions, Tidy,
           EndNext, Notify, SignedInOnly, IssueCode, AddClient, ExtendClients, Rejected, SignIn,
           Index, ExtendIndex, Done, redis, history

\* What sessions claim was earned, at every step.
LEMMA EarningsKept ==
    ASSUME TypeOK, Shapes, InPlace, Earnings, [Next]_vars
    PROVE  Earnings'
  <1>1. ASSUME NEW r \in Request, Step(r) \/ Arrive(r)
        PROVE  Earnings'
    <2>1. Footprint(r) /\ Alone(r)
      BY <1>1, Footprints, OneAtATime
    <2>2. now' = now
      BY <2>1 DEF Footprint
    <2>3. ASSUME NEW q \in Request, login'[q] # None
          PROVE  Earned(performed'[sid'[q]], login'[q])
      <3>1. CASE q = r
        BY <1>1, <2>3, <3>1, HeldEarned
      <3>2. CASE q # r
        <4>1. sid'[q] = sid[q] /\ login'[q] = login[q]
          BY <2>1, <3>2 DEF Alone, Still
        <4>2. sid[q] \in Session /\ Earned(performed[sid[q]], login[q])
          BY <2>3, <4>1, InHandIsThere DEF Earnings
        <4>3. performed[sid[q]] \subseteq performed'[sid[q]]
          BY <2>1, <4>2 DEF Footprint
        <4> QED
          BY <4>1, <4>2, <4>3, StaysEarned
      <3> QED
        BY <3>1, <3>2
    <2> QED
      BY <1>1, <2>2, <2>3, StoredEarned DEF Earnings
  <1>2. CASE Tick
    <2>1. UNCHANGED <<sid, login, performed>> /\ now' = now + 1
      BY <1>2 DEF Tick, locals
    <2>2. \A s \in Session : store'[s] # None => store'[s] = store[s]
      BY <1>2 DEF Tick
    <2>3. \A s \in Session : \A p \in performed[s] : p[2] <= now + 1
      <3>1. \A s \in Session : \A p \in performed[s] : p[2] \in Nat
        BY Deadlines DEF TypeOK
      <3> QED
        BY <3>1, Deadlines DEF Earnings, TypeOK
    <2> QED
      BY <2>1, <2>2, <2>3 DEF Earnings
  <1>3. CASE UNCHANGED vars
    BY <1>3 DEF Earnings, vars, redis, locals, history
  <1> QED
    BY <1>1, <1>2, <1>3 DEF Next

-----------------------------------------------------------------------------
(* A session is one person's.                                              *)

\* Whose a stored session is.
LEMMA StoreUsers ==
    ASSUME TypeOK, Shapes, InPlace, NEW r \in Request, Step(r) \/ Arrive(r), NEW s \in Session
    PROVE  \/ store'[s] = None /\ s \in broken'
           \/ store'[s] = store[s]
           \/ store[s] # None /\ store'[s] # None /\ store'[s].user = store[s].user
           \/ /\ SaveSeen(r) \/ SaveNew(r) \/ AddMethod(r) \/ Reauthenticate(r)
              /\ s = sid[r] /\ login[r] # None
              /\ store'[s] # None /\ store'[s].user = login[r].user
  <1>0. store \in [Session -> Stored \cup {None}] /\ now \in Time
    BY DEF TypeOK
  <1>1. CASE SaveSeen(r) \/ SaveNew(r) \/ AddMethod(r) \/ Reauthenticate(r)
    <2>1. sid[r] \in Session /\ login[r] \in Held /\ login[r] # None
      BY <1>1, InHandIsThere, NamesAssumption
         DEF SaveSeen, SaveNew, AddMethod, Reauthenticate, NeedsLogin, Held
    <2>2. PICK obj \in Held : obj.user = login[r].user /\ (store' = store \/ Save(r, sid[r], obj))
      <3>1. CASE SaveSeen(r) \/ SaveNew(r)
        BY <2>1, <3>1 DEF SaveSeen, SaveNew
      <3>2. CASE AddMethod(r)
        <4>1. arg[r] \in Method
          BY <3>2, InHandIsThere DEF AddMethod, Method
        <4>2. [user |-> login[r].user, amr |-> login[r].amr \cup {arg[r]}, since |-> login[r].since] \in Held
          BY <2>1, <4>1 DEF Held
        <4> QED
          BY <2>1, <3>2, <4>2 DEF AddMethod
      <3>3. CASE Reauthenticate(r)
        <4>1. who[r] \in User /\ login[r].user = who[r]
          BY <3>3, InHandIsThere DEF Reauthenticate, NeedsWho, InPlace, Ready
        <4>2. [user |-> who[r], amr |-> StartsOver(r), since |-> now] \in Held
          BY <1>0, <4>1 DEF Held, StartsOver, Method
        <4> QED
          BY <3>3, <4>1, <4>2 DEF Reauthenticate
      <3> QED
        BY <1>1, <3>1, <3>2, <3>3
    <2>3. CASE store' = store
      BY <2>3
    <2>4. CASE Save(r, sid[r], obj)
      <3> DEFINE val == [user |-> obj.user, amr |-> obj.amr, since |-> obj.since, until |-> now + Ttl]
      <3>1. val \in Stored /\ val.user = obj.user
        BY <1>0, Written
      <3>2. val # None
        BY <3>1, NamesAssumption DEF Stored
      <3>3. store' = [store EXCEPT ![sid[r]] = val]
        BY <2>4 DEF Save
      <3> HIDE DEF val
      <3> QED
        BY <1>0, <1>1, <2>1, <2>2, <3>1, <3>2, <3>3
    <2> QED
      BY <2>2, <2>3, <2>4
  <1>2. CASE Touch(r)
    <2>1. store' = store \/ (store[sid[r]] # None /\ store' = [store EXCEPT ![sid[r]].until = now + Ttl])
      BY <1>2 DEF Touch
    <2>2. \A v \in Stored : [v EXCEPT !.until = now + Ttl] \in Stored /\ [v EXCEPT !.until = now + Ttl].user = v.user
      BY <1>0, Deadlines DEF Stored
    <2>3. \A v \in Stored : v # None
      BY NamesAssumption DEF Stored
    <2>4. store[s] \in Stored \cup {None}
      BY <1>0
    <2>5. CASE store' = [store EXCEPT ![sid[r]].until = now + Ttl] /\ s = sid[r] /\ store[s] # None
      <3>1. store'[s] = [store[s] EXCEPT !.until = now + Ttl]
        BY <1>0, <2>5
      <3> QED
        BY <2>2, <2>3, <2>4, <2>5, <3>1
    <2> QED
      BY <1>0, <2>1, <2>5
  <1>3. CASE Del(r) \/ Retire(r)
    BY <1>0, <1>3 DEF Del, Retire, DeleteKeys
  <1>4. CASE Arrive(r)
    BY <1>4 DEF Arrive, Login, Authorize, StepUp, Logout, RevokeSession, ListSessions,
         EndAllSessions, Start, redis
  <1> QED
    BY <1>1, <1>2, <1>3, <1>4
       DEF Step, Get, Forget, Unindex, Check, Unlist, ReadClients, ReadIndex, ReadSessions, Tidy,
           EndNext, Notify, SignedInOnly, IssueCode, AddClient, ExtendClients, Rejected, SignIn,
           NewSession, Index, ExtendIndex, Done, redis

\* Whose session r has in hand.
LEMMA HeldUsers ==
    ASSUME TypeOK, Shapes, InPlace, NEW r \in Request, Step(r) \/ Arrive(r), login'[r] # None
    PROVE  \/ sid'[r] = sid[r] /\ login[r] # None /\ login'[r].user = login[r].user
           \/ Get(r) /\ sid'[r] = sid[r] /\ store[sid[r]] # None /\ login'[r].user = store[sid[r]].user
           \/ NewSession(r)
  <1>0. Records
    BY DEF TypeOK, Records
  <1>1. CASE UNCHANGED <<sid, login>>
    BY <1>1
  <1>2. CASE Get(r)
    <2>1. sid' = sid
      BY <1>2 DEF Get
    <2>2. store[sid[r]] # None /\ login'[r] = [user |-> store[sid[r]].user,
              amr |-> store[sid[r]].amr, since |-> store[sid[r]].since]
      BY <1>0, <1>2 DEF Get, Records
    <2>3. login'[r].user = store[sid[r]].user
      BY <2>2
    <2> QED
      BY <1>2, <2>1, <2>2, <2>3
  <1>3. CASE SaveSeen(r) \/ SaveNew(r) \/ AddMethod(r) \/ Reauthenticate(r)
    <2>1. sid' = sid /\ login[r] # None
      BY <1>3 DEF SaveSeen, SaveNew, AddMethod, Reauthenticate, InPlace, Ready, NeedsLogin
    <2>2. CASE SaveSeen(r) \/ SaveNew(r)
      BY <1>0, <2>1, <2>2 DEF SaveSeen, SaveNew, Save, Records
    <2>3. CASE AddMethod(r)
      BY <1>0, <2>1, <2>3 DEF AddMethod, Save, Records
    <2>4. CASE Reauthenticate(r)
      <3>1. login[r].user = who[r]
        BY <2>4 DEF Reauthenticate, InPlace, Ready
      <3> QED
        BY <1>0, <2>1, <2>4, <3>1 DEF Reauthenticate, Save, Records
    <2> QED
      BY <1>3, <2>2, <2>3, <2>4
  <1>4. CASE Forget(r) \/ Done(r)
    BY <1>0, <1>4 DEF Forget, Done, Records
  <1>5. CASE Tidy(r) \/ EndNext(r)
    <2>1. login[r] = None
      BY <1>5, AtPending DEF Tidy, EndNext, InPlace, Ready, Lists
    <2> QED
      BY <1>5, <2>1 DEF Tidy, EndNext
  <1>6. CASE Arrive(r)
    <2>1. todo[r] = <<>> /\ login' = login
      BY <1>6 DEF Arrive, Login, Authorize, StepUp, Logout, RevokeSession, ListSessions,
         EndAllSessions, Start
    <2> QED
      BY <2>1 DEF InPlace, Ready
  <1> QED
    BY <1>1, <1>2, <1>3, <1>4, <1>5, <1>6
       DEF Step, Touch, Del, Retire, Unindex, Check, Unlist, ReadClients, ReadIndex, ReadSessions,
           Notify, SignedInOnly, IssueCode, AddClient, ExtendClients, Rejected, SignIn,
           Index, ExtendIndex, locals

\* A session is one person's, at every step.
LEMMA OnePersonKept ==
    ASSUME TypeOK, Shapes, InPlace, Generated, OnePerson, [Next]_vars
    PROVE  OnePerson'
  <1>1. ASSUME NEW r \in Request, Step(r) \/ Arrive(r)
        PROVE  OnePerson'
    <2>0. Footprint(r) /\ Alone(r) /\ Records
      BY <1>1, Footprints, OneAtATime DEF TypeOK, Records
    <2>1. \A q \in Request \ {r} : sid'[q] = sid[q] /\ login'[q] = login[q]
      BY <2>0 DEF Alone, Still
    <2>2. ASSUME NewSession(r)
          PROVE  \E t \in Session : /\ sid'[r] = t /\ store'[t] = None
                                    /\ \A q \in Request : sid[q] # t
      <3>1. PICK t \in Session : NewId(r, t) /\ sid' = [sid EXCEPT ![r] = t]
        BY <2>2 DEF NewSession
      <3>2. store[t] = None /\ \A q \in Request : sid[q] # t
        BY <3>1 DEF NewId, Generated
      <3>3. store' = store
        BY <2>2 DEF NewSession, redis
      <3> QED
        BY <2>0, <3>1, <3>2, <3>3 DEF Records
    <2>3. ASSUME NEW q \in Request, login'[q] # None, store'[sid'[q]] # None
          PROVE  store'[sid'[q]].user = login'[q].user
      <3>1. CASE /\ sid'[q] = sid[q] /\ login[q] # None /\ login'[q].user = login[q].user
        <4>1. sid[q] \in Session
          BY <3>1, InHandIsThere
        <4>2. \/ store'[sid[q]] = store[sid[q]]
              \/ store[sid[q]] # None /\ store'[sid[q]].user = store[sid[q]].user
              \/ sid[q] = sid[r] /\ login[r] # None /\ store'[sid[q]].user = login[r].user
          BY <1>1, <2>3, <3>1, <4>1, StoreUsers
        <4> QED
          BY <2>3, <3>1, <4>2 DEF OnePerson
      <3>2. CASE q # r
        BY <2>1, <2>3, <3>1, <3>2
      <3>3. CASE q = r
        <4>1. CASE Get(r) /\ sid'[r] = sid[r] /\ login'[r].user = store[sid[r]].user
          BY <3>3, <4>1 DEF Get, redis
        <4>2. CASE NewSession(r)
          BY <2>2, <2>3, <3>3, <4>2
        <4> QED
          BY <1>1, <2>3, <3>1, <3>3, <4>1, <4>2, HeldUsers
      <3> QED
        BY <3>2, <3>3
    <2>4. ASSUME NEW q \in Request \ {r}, login'[q] # None, login'[r] # None, sid'[q] = sid'[r]
          PROVE  login'[q].user = login'[r].user
      <3>1. sid[q] = sid'[r] /\ login[q] # None /\ login'[q] = login[q]
        BY <2>1, <2>4
      <3>2. CASE sid'[r] = sid[r] /\ login[r] # None /\ login'[r].user = login[r].user
        BY <3>1, <3>2 DEF OnePerson
      <3>3. CASE sid'[r] = sid[r] /\ store[sid[r]] # None /\ login'[r].user = store[sid[r]].user
        BY <3>1, <3>3 DEF OnePerson
      <3>4. CASE NewSession(r)
        BY <2>2, <3>1, <3>4
      <3> QED
        BY <1>1, <2>4, <3>2, <3>3, <3>4, HeldUsers
    <2>5. ASSUME NEW p \in Request \ {r}, NEW q \in Request \ {r}, login'[p] # None, login'[q] # None,
                 sid'[q] = sid'[p]
          PROVE  login'[q].user = login'[p].user
      BY <2>1, <2>5 DEF OnePerson
    <2> QED
      BY <2>3, <2>4, <2>5 DEF OnePerson
  <1>2. CASE Tick
    <2>1. UNCHANGED <<sid, login>>
      BY <1>2 DEF Tick, locals
    <2>2. \A s \in Session : store'[s] # None => store'[s] = store[s]
      BY <1>2 DEF Tick
    <2>3. \A r \in Request : login[r] # None => sid[r] \in Session
      BY InHandIsThere
    <2> QED
      BY <2>1, <2>2, <2>3 DEF OnePerson
  <1>3. CASE UNCHANGED vars
    BY <1>3 DEF OnePerson, vars, redis, locals, history
  <1> QED
    BY <1>1, <1>2, <1>3 DEF Next

-----------------------------------------------------------------------------
(* A session that has not ended is listed.                                 *)

\* Whatever a request does, it is about to do.
LEMMA Guards ==
    ASSUME NEW r \in Request
    PROVE  /\ (Get(r) => At(r, "get")) /\ (Forget(r) => At(r, "forget"))
           /\ (Touch(r) => At(r, "touch")) /\ (SaveSeen(r) => At(r, "seen"))
           /\ (Del(r) => At(r, "del") \/ At(r, "purge")) /\ (Retire(r) => At(r, "retire"))
           /\ (Unindex(r) => At(r, "srem")) /\ (Check(r) => At(r, "check"))
           /\ (Unlist(r) => At(r, "unlist")) /\ (ReadClients(r) => At(r, "clients"))
           /\ (Notify(r) => At(r, "notify")) /\ (ReadIndex(r) => At(r, "list"))
           /\ (ReadSessions(r) => At(r, "mget")) /\ (Tidy(r) => At(r, "tidy"))
           /\ (EndNext(r) => At(r, "endnext")) /\ (SignedInOnly(r) => At(r, "signedin"))
           /\ (IssueCode(r) => At(r, "code")) /\ (AddClient(r) => At(r, "addclient"))
           /\ (ExtendClients(r) => At(r, "clientsttl"))
           /\ (Rejected(r) => At(r, "login") \/ At(r, "addmethod"))
           /\ (AddMethod(r) => At(r, "addmethod")) /\ (SignIn(r) => At(r, "login"))
           /\ (Reauthenticate(r) => At(r, "reauth")) /\ (NewSession(r) => At(r, "new"))
           /\ (SaveNew(r) => At(r, "save")) /\ (Index(r) => At(r, "sadd"))
           /\ (ExtendIndex(r) => At(r, "indexttl")) /\ (Done(r) => At(r, "done"))
           /\ (Arrive(r) => todo[r] = <<>>)
  <1>1. Arrive(r) => todo[r] = <<>>
    BY DEF Arrive, Login, Authorize, StepUp, Logout, RevokeSession, ListSessions,
       EndAllSessions, Start
  <1> QED
    BY <1>1 DEF Get, Forget, Touch, SaveSeen, Del, Retire, Unindex, Check, Unlist, ReadClients,
       Notify, ReadIndex, ReadSessions, Tidy, EndNext, SignedInOnly, IssueCode, AddClient,
       ExtendClients, Rejected, AddMethod, SignIn, Reauthenticate, NewSession, SaveNew, Index,
       ExtendIndex, Done

\* What a request puts in an index, and what it takes out.
LEMMA IndexMoves ==
    ASSUME TypeOK, Shapes, InPlace, Listing, NEW r \in Request, Step(r) \/ Arrive(r),
           NEW u \in User, NEW s \in Session
    PROVE  /\ s \in index'[u].members =>
                 s \in index[u].members \/ (Index(r) /\ s = sid[r] /\ u = who[r])
           /\ s \in index[u].members /\ s \notin broken => s \in index'[u].members
  <1>0. index \in [User -> RedisSet(Session)]
    BY DEF TypeOK
  <1>1. /\ \A key, x : Added(key, x).members = key.members \cup {x}
        /\ \A key, x : Removed(key, x).members = key.members \ {x}
        /\ \A key : Extended(key).members = key.members
    BY DEF Added, Removed, Extended, NoKey
  <1>2. ASSUME NEW v, NEW t, index' = [index EXCEPT ![v] = Removed(@, t)], t \in broken
        PROVE  /\ index'[u].members \subseteq index[u].members
               /\ s \in index[u].members /\ s \notin broken => s \in index'[u].members
    <2>1. index'[u] = index[u] \/ index'[u] = Removed(index[u], t)
      BY <1>0, <1>2
    <2> QED
      BY <1>1, <1>2, <2>1
  <1>3. CASE Unindex(r)
    <2>1. sid[r] \in broken
      BY <1>3 DEF Unindex, Listing, Finds
    <2>2. index' = index \/ \E v : index' = [index EXCEPT ![v] = Removed(@, sid[r])]
      BY <1>3 DEF Unindex
    <2> QED
      BY <1>2, <2>1, <2>2
  <1>4. CASE Unlist(r)
    <2>1. sid[r] \in broken
      BY <1>4 DEF Unlist, Listing, Finds
    <2>2. \E v : index' = [index EXCEPT ![v] = Removed(@, sid[r])]
      BY <1>4 DEF Unlist
    <2> QED
      BY <1>2, <2>1, <2>2
  <1>5. CASE Tidy(r)
    <2>1. missing[r] \subseteq broken
      BY DEF Listing, Finds
    <2>2. \/ index' = index
          \/ \E t \in missing[r] : \E v : index' = [index EXCEPT ![v] = Removed(@, t)]
      BY <1>5 DEF Tidy
    <2> QED
      BY <1>2, <2>1, <2>2
  <1>6. CASE Index(r)
    <2>1. index' = [index EXCEPT ![who[r]] = Added(@, sid[r])]
      BY <1>6 DEF Index
    <2>2. (u # who[r] /\ index'[u] = index[u]) \/ (u = who[r] /\ index'[u] = Added(index[u], sid[r]))
      BY <1>0, <2>1
    <2> QED
      BY <1>1, <1>6, <2>2
  <1>7. CASE ExtendIndex(r)
    <2>1. index' = [index EXCEPT ![who[r]] = Extended(@)]
      BY <1>7 DEF ExtendIndex
    <2>2. index'[u] = index[u] \/ index'[u] = Extended(index[u])
      BY <1>0, <2>1
    <2> QED
      BY <1>1, <2>2
  <1>8. CASE index' = index
    BY <1>8
  <1>9. CASE Arrive(r)
    BY <1>8, <1>9 DEF Arrive, Login, Authorize, StepUp, Logout, RevokeSession, ListSessions,
         EndAllSessions, Start, redis
  <1> QED
    BY <1>3, <1>4, <1>5, <1>6, <1>7, <1>8, <1>9
       DEF Step, Get, Forget, Touch, SaveSeen, Del, Retire, Check, ReadClients, Notify, ReadIndex,
           ReadSessions, EndNext, SignedInOnly, IssueCode, AddClient, ExtendClients, Rejected,
           AddMethod, SignIn, Reauthenticate, NewSession, SaveNew, Done, redis

\* What has not ended stays there, one person's, and listed.
LEMMA Stays ==
    ASSUME TypeOK, Shapes, InPlace, OnePerson, Listing, NEW r \in Request, Step(r) \/ Arrive(r),
           NEW s \in Session
    PROVE  /\ Live(s) => Live(s)'
           /\ \A u : Kept(s, u) => (s \notin broken' => store'[s] # None /\ store'[s].user = u)
           /\ Listed(s) => Listed(s)'
  <1>1. broken \subseteq broken' /\ lapsed' = lapsed
    BY Footprints DEF Footprint
  <1>2. \/ store'[s] = None /\ s \in broken'
        \/ store'[s] = store[s]
        \/ store[s] # None /\ store'[s] # None /\ store'[s].user = store[s].user
        \/ s = sid[r] /\ login[r] # None /\ store'[s] # None /\ store'[s].user = login[r].user
    BY StoreUsers
  <1>3. s = sid[r] /\ login[r] # None /\ store[s] # None => store[s].user = login[r].user
    BY DEF OnePerson
  <1>4. store[s] # None => store[s].user \in User
    BY DEF TypeOK, Stored
  <1>5. Live(s) => Live(s)'
    BY <1>1, <1>2 DEF Live
  <1>6. \A u : Kept(s, u) => (s \notin broken' => store'[s] # None /\ store'[s].user = u)
    BY <1>1, <1>2, <1>3 DEF Kept
  <1>7. ASSUME Listed(s), s \notin broken' \cup lapsed'
        PROVE  store'[s] # None /\ s \in index'[store'[s].user].members
    <2>1. store[s] # None /\ s \in index[store[s].user].members /\ s \notin broken
      BY <1>1, <1>7 DEF Listed
    <2>2. s \in index'[store[s].user].members
      BY <1>4, <2>1, IndexMoves
    <2>3. store'[s] # None /\ store'[s].user = store[s].user
      BY <1>2, <1>3, <1>7, <2>1
    <2> QED
      BY <2>2, <2>3
  <1>8. Listed(s) => Listed(s)'
    BY <1>7 DEF Listed
  <1> QED
    BY <1>5, <1>6, <1>8

\* What lasts, of a session.
Lasts(s) ==
    /\ Live(s) => Live(s)'
    /\ \A u : Kept(s, u) => Kept(s, u)'
    /\ Listed(s) => Listed(s)'

\* Everything lasts.
LEMMA AllLasts ==
    ASSUME TypeOK, Shapes, InPlace, OnePerson, Listing, NEW r \in Request, Step(r) \/ Arrive(r)
    PROVE  \A s \in Session : Lasts(s)
  <1> SUFFICES ASSUME NEW s \in Session
               PROVE  Lasts(s)
    OBVIOUS
  <1>1. \A u : Kept(s, u) => Kept(s, u)'
    BY Stays DEF Kept
  <1>2. (Live(s) => Live(s)') /\ (Listed(s) => Listed(s)')
    BY Stays
  <1> QED
    BY <1>1, <1>2 DEF Lasts

\* A request that finds nothing new, and takes nothing else in hand.
LEMMA CalmFinds ==
    ASSUME TypeOK, Shapes, InPlace, Listing, NEW r \in Request,
           \A s \in Session : Lasts(s), broken \subseteq broken',
           sid'[r] = sid[r], who'[r] = who[r], found'[r] = found[r], stale'[r] = stale[r],
           missing'[r] = missing[r], todo'[r] # <<>>,
           \A x \in {"mget", "tidy", "endnext", "login", "addmethod"} : Pending(r, x)' => Pending(r, x),
           Pending(r, "tidy") => Pending(r, "tidy")',
           ~At(r, "save"), ~At(r, "sadd"), ~At(r, "save")', ~At(r, "sadd")',
           At(r, "unlist")' \/ At(r, "srem")' => sid[r] \in broken'
    PROVE  Finds(r)'
  <1>1. Finds(r) /\ found[r] \subseteq Session /\ stale[r] \subseteq Session
        /\ sid[r] \in Session \cup {None}
    BY DEF Listing, TypeOK
  <1>2. \A s \in found'[r] \cup stale'[r] : Kept(s, who[r])' /\ Listed(s)'
    BY <1>1 DEF Finds, Lasts
  <1>3. missing'[r] \subseteq broken'
    BY <1>1 DEF Finds
  <1>4. sid[r] # None => Live(sid[r])' /\ Listed(sid[r])'
    BY <1>1 DEF Finds, Lasts
  <1>5. (Pending(r, "tidy") \/ Pending(r, "endnext")) /\ sid[r] # None => Kept(sid[r], who[r])'
    BY <1>1 DEF Finds, Lasts
  <1> QED
    BY <1>1, <1>2, <1>3, <1>4, <1>5 DEF Finds

\* r goes on to the next step, and has in hand what it had.
Calm(r) ==
    /\ sid'[r] = sid[r] /\ who'[r] = who[r] /\ found'[r] = found[r] /\ stale'[r] = stale[r]
    /\ missing'[r] = missing[r]

\* A step that looks for nothing.
LEMMA PassFinds ==
    ASSUME TypeOK, Shapes, InPlace, Listing, NEW r \in Request,
           \A s \in Session : Lasts(s), broken \subseteq broken', Calm(r),
           NEW x, At(r, x), Continue(r), x \notin {"new", "save", "sadd", "tidy", "done"},
           x \in {"purge", "retire", "del"} => sid[r] \in broken'
    PROVE  Finds(r)'
  <1>1. Passed(r, x)
    BY Continues DEF TypeOK
  <1>2. \A y : At(r, y) => y = x
    BY AtPending
  <1>3. PICK y : Follows(x, y) /\ \A z : At(r, z)' <=> z = y
    BY <1>1 DEF Passed
  <1>4. y \notin {"save", "sadd"}
    BY <1>3 DEF Follows
  <1>5. x \notin {"purge", "retire", "del"} => y \notin {"unlist", "srem"}
    BY <1>3 DEF Follows
  <1>6. /\ \A z \in {"mget", "tidy", "endnext", "login", "addmethod"} : Pending(r, z)' => Pending(r, z)
        /\ Pending(r, "tidy") => Pending(r, "tidy")'
        /\ todo'[r] # <<>>
    BY <1>1 DEF Passed, Goes
  <1>7. /\ ~At(r, "save") /\ ~At(r, "sadd") /\ ~At(r, "save")' /\ ~At(r, "sadd")'
        /\ At(r, "unlist")' \/ At(r, "srem")' => sid[r] \in broken'
    BY <1>2, <1>3, <1>4, <1>5
  <1> QED
    BY <1>6, <1>7, CalmFinds DEF Calm

\* The answer goes out early, from where no listing goes on.
LEMMA ReturnFinds ==
    ASSUME TypeOK, Shapes, InPlace, Listing, NEW r \in Request,
           \A s \in Session : Lasts(s), broken \subseteq broken',
           sid'[r] = sid[r], found'[r] = found[r], stale'[r] = stale[r], missing'[r] = missing[r],
           NEW x \in {"signedin", "code", "login", "addmethod"}, At(r, x), Return(r),
           who'[r] = who[r] \/ x \in {"login", "addmethod"}
    PROVE  Finds(r)'
  <1>1. /\ todo'[r] # <<>>
        /\ \A y \in {"mget", "tidy", "endnext", "login", "addmethod", "save", "sadd", "unlist", "srem"} :
              ~At(r, y)' /\ ~Pending(r, y)'
    BY Returns DEF TypeOK, Goes
  <1>2. /\ ~Pending(r, "tidy") /\ ~At(r, "save") /\ ~At(r, "sadd") /\ Pending(r, x)
    BY AtPending DEF NoMore, Lists, Owns
  <1>3. /\ Finds(r) /\ found[r] \subseteq Session /\ sid[r] \in Session \cup {None}
    BY DEF Listing, TypeOK
  <1>4. stale'[r] \cup missing'[r] = {} /\ (found'[r] = {} \/ who'[r] = who[r])
    BY <1>2, <1>3 DEF Finds
  <1>5. \A s \in found'[r] \cup stale'[r] : Kept(s, who[r])' /\ Listed(s)' /\ who'[r] = who[r]
    BY <1>3, <1>4 DEF Finds, Lasts
  <1>6. sid[r] # None => Live(sid[r])' /\ Listed(sid[r])'
    BY <1>2, <1>3 DEF Finds, Lasts
  <1> QED
    BY <1>1, <1>4, <1>5, <1>6 DEF Finds

\* The steps that have nothing to do with listings.
LEMMA StepFindsCalm ==
    ASSUME TypeOK, Shapes, InPlace, OnePerson, Listing, NEW r \in Request,
           \/ Get(r) \/ Forget(r) \/ Touch(r) \/ SaveSeen(r) \/ Del(r) \/ Retire(r) \/ Unindex(r)
           \/ Check(r) \/ Unlist(r) \/ ReadClients(r) \/ Notify(r) \/ SignedInOnly(r) \/ IssueCode(r)
           \/ AddClient(r) \/ ExtendClients(r) \/ Rejected(r) \/ AddMethod(r) \/ SignIn(r)
           \/ Reauthenticate(r) \/ ExtendIndex(r)
    PROVE  Finds(r)'
  <1>0. Step(r)
    BY DEF Step
  <1>1. (\A s \in Session : Lasts(s)) /\ broken \subseteq broken' /\ Records
    BY <1>0, AllLasts, Footprints DEF Footprint, Records, TypeOK
  <1> USE DEF locals
  <1>2. ASSUME \/ Get(r) \/ Forget(r) \/ Touch(r) \/ SaveSeen(r) \/ Del(r) \/ Retire(r) \/ Unindex(r)
               \/ Check(r) \/ Unlist(r) \/ ReadClients(r) \/ Notify(r) \/ SignedInOnly(r) \/ IssueCode(r)
               \/ AddClient(r) \/ ExtendClients(r) \/ AddMethod(r) \/ SignIn(r) \/ Reauthenticate(r)
               \/ ExtendIndex(r)
        PROVE  Calm(r)
    BY <1>1, <1>2 DEF Calm, Get, Forget, Touch, SaveSeen, Del, Retire, Unindex, Check, Unlist,
       ReadClients, Notify, SignedInOnly, IssueCode, AddClient, ExtendClients, AddMethod, SignIn,
       Reauthenticate, ExtendIndex
  <1>3. CASE Forget(r)
    BY <1>1, <1>2, <1>3, PassFinds DEF Forget
  <1>4. CASE SaveSeen(r)
    BY <1>1, <1>2, <1>4, PassFinds DEF SaveSeen
  <1>5. CASE Del(r)
    BY <1>1, <1>2, <1>5, PassFinds DEF Del, DeleteKeys
  <1>6. CASE Retire(r)
    BY <1>1, <1>2, <1>6, PassFinds DEF Retire, DeleteKeys
  <1>7. CASE Unindex(r)
    BY <1>1, <1>2, <1>7, PassFinds DEF Unindex
  <1>8. CASE Unlist(r)
    BY <1>1, <1>2, <1>8, PassFinds DEF Unlist
  <1>9. CASE ReadClients(r)
    BY <1>1, <1>2, <1>9, PassFinds DEF ReadClients
  <1>10. CASE Notify(r)
    BY <1>1, <1>2, <1>10, PassFinds DEF Notify
  <1>11. CASE AddClient(r)
    BY <1>1, <1>2, <1>11, PassFinds DEF AddClient
  <1>12. CASE ExtendClients(r)
    BY <1>1, <1>2, <1>12, PassFinds DEF ExtendClients
  <1>13. CASE AddMethod(r)
    BY <1>1, <1>2, <1>13, PassFinds DEF AddMethod
  <1>14. CASE Reauthenticate(r)
    BY <1>1, <1>2, <1>14, PassFinds DEF Reauthenticate
  <1>15. CASE ExtendIndex(r)
    BY <1>1, <1>2, <1>15, PassFinds DEF ExtendIndex
  <1>16. CASE Get(r)
    <2>1. At(r, "get") /\ ~At(r, "save") /\ ~At(r, "sadd") /\ Calm(r)
      BY <1>2, <1>16, AtPending DEF Get
    <2>2. CASE Continue(r)
      BY <1>1, <2>1, <2>2, PassFinds
    <2>3. CASE todo' = [todo EXCEPT ![r] = Tail(Tail(@))]
      <3>1. /\ Goes(r)
            /\ \E y \in {"login", "signedin", "del"} : \A z : At(r, z)' <=> z = y
            /\ \A z : Pending(r, z)' => Pending(r, z)
            /\ \A z : Pending(r, z) /\ z \notin {"get", "touch"} => Pending(r, z)'
        BY <2>1, <2>3, Misses DEF TypeOK
      <3> QED
        BY <1>1, <2>1, <3>1, CalmFinds DEF Calm, Goes
    <2>4. CASE todo' = [todo EXCEPT ![r] = <<"check", "retire", "unlist", "forget">> \o Tail(Tail(@))]
      <3>1. /\ Goes(r)
            /\ \A z : At(r, z)' <=> z = "check"
            /\ \A z : Pending(r, z)' => z \in {"check", "retire", "unlist", "forget"} \/ Pending(r, z)
            /\ \A z : Pending(r, z) /\ z \notin {"get", "touch"} => Pending(r, z)'
        BY <2>1, <2>4, Outlives DEF TypeOK
      <3> QED
        BY <1>1, <2>1, <3>1, CalmFinds DEF Calm, Goes
    <2> QED
      BY <1>16, <2>2, <2>3, <2>4 DEF Get
  <1>17. CASE Touch(r)
    <2>1. At(r, "touch") /\ ~At(r, "save") /\ ~At(r, "sadd") /\ Calm(r)
      BY <1>2, <1>17, AtPending DEF Touch
    <2>2. CASE Continue(r)
      BY <1>1, <2>1, <2>2, PassFinds
    <2>3. CASE Call(r, <<"seen">>)
      <3>1. /\ Goes(r)
            /\ \A z : At(r, z)' <=> z = "seen"
            /\ \A z : Pending(r, z)' => z = "seen" \/ Pending(r, z)
            /\ \A z : Pending(r, z) /\ z # "touch" => Pending(r, z)'
        BY <2>1, <2>3, Seen DEF TypeOK
      <3> QED
        BY <1>1, <2>1, <3>1, CalmFinds DEF Calm, Goes
    <2> QED
      BY <1>17, <2>2, <2>3 DEF Touch
  <1>18. CASE Check(r)
    <2>1. At(r, "check") /\ ~At(r, "save") /\ ~At(r, "sadd") /\ Calm(r)
      BY <1>2, <1>18, AtPending DEF Check
    <2>2. CASE Continue(r)
      BY <1>1, <2>1, <2>2, PassFinds
    <2>3. CASE todo' = [todo EXCEPT ![r] = Tail(Tail(Tail(@)))]
      <3>1. /\ Goes(r)
            /\ \E y \in {"forget", "notify", "tidy", "endnext"} : \A z : At(r, z)' <=> z = y
            /\ \A z : Pending(r, z)' => Pending(r, z)
            /\ \A z : Pending(r, z) /\ z \notin {"check", "purge", "retire", "unlist"} => Pending(r, z)'
        BY <2>1, <2>3, Fails DEF TypeOK
      <3> QED
        BY <1>1, <2>1, <3>1, CalmFinds DEF Calm, Goes
    <2> QED
      BY <1>18, <2>2, <2>3 DEF Check
  <1>19. CASE SignedInOnly(r)
    BY <1>1, <1>2, <1>19, PassFinds, ReturnFinds DEF SignedInOnly, Calm
  <1>20. CASE IssueCode(r)
    BY <1>1, <1>2, <1>20, PassFinds, ReturnFinds DEF IssueCode, Calm
  <1>21. CASE Rejected(r)
    BY <1>1, <1>21, ReturnFinds DEF Rejected
  <1>22. CASE SignIn(r)
    <2>1. /\ At(r, "login") /\ ~At(r, "save") /\ ~At(r, "sadd") /\ Calm(r)
          /\ ~Pending(r, "tidy") 
      BY <1>2, <1>22, AtPending DEF SignIn, NoMore, Lists, Owns
    <2>2. /\ Goes(r)
          /\ \E y \in {"new", "reauth", "clients"} : \A z : At(r, z)' <=> z = y
          /\ \A z \in {"mget", "tidy", "endnext", "login", "addmethod"} : ~Pending(r, z)'
      BY <1>22, <2>1, SignsIn DEF SignIn, TypeOK
    <2> QED
      BY <1>1, <2>1, <2>2, CalmFinds DEF Calm, Goes
  <1> QED
    BY <1>3, <1>4, <1>5, <1>6, <1>7, <1>8, <1>9, <1>10, <1>11, <1>12, <1>13, <1>14, <1>15, <1>16,
       <1>17, <1>18, <1>19, <1>20, <1>21, <1>22

\* A step that has been reached is left to do.
LEMMA Reached ==
    ASSUME NEW r \in Request, Goes(r), NEW x, At(r, x)'
    PROVE  Pending(r, x)'
  <1>1. todo'[r] \in Seq(Steps) /\ todo'[r] # <<>> /\ Head(todo'[r]) = x
    BY DEF Goes, At
  <1>2. 1 \in DOMAIN todo'[r] /\ todo'[r][1] = x
    BY <1>1, EmptySeq
  <1> QED
    BY <1>2 DEF Pending

\* A session is being made.
LEMMA MakeFinds ==
    ASSUME TypeOK, Shapes, InPlace, OnePerson, Listing, NEW r \in Request,
           NewSession(r) \/ SaveNew(r) \/ Index(r)
    PROVE  Finds(r)'
  <1>0. Step(r)
    BY DEF Step
  <1>1. (\A s \in Session : Lasts(s)) /\ broken \subseteq broken' /\ Records /\ Finds(r)
    BY <1>0, AllLasts, Footprints DEF Footprint, Records, TypeOK, Listing
  <1>2. /\ who'[r] = who[r] /\ found'[r] = found[r] /\ stale'[r] = stale[r]
        /\ missing'[r] = missing[r] /\ found[r] \subseteq Session /\ stale[r] \subseteq Session
    BY <1>1 DEF NewSession, SaveNew, Index, Records, locals
  <1>3. PICK x \in {"new", "save", "sadd"} : At(r, x) /\ Continue(r)
    BY DEF NewSession, SaveNew, Index
  <1>4. Passed(r, x)
    BY <1>3, Continues DEF TypeOK
  <1>5. ~Pending(r, "tidy") /\ ~Pending(r, "endnext") /\ \A y : At(r, y) => y = x
    BY <1>3, AtPending DEF NoMore, Lists, Owns
  <1>6. /\ ~Pending(r, "tidy")' /\ ~Pending(r, "endnext")' /\ todo'[r] # <<>>
        /\ \A z \in {"login", "addmethod"} : Pending(r, z)' => Pending(r, z)
    BY <1>4, <1>5 DEF Passed, Goes
  <1>7. /\ \A s \in found'[r] \cup stale'[r] : Kept(s, who[r])' /\ Listed(s)'
        /\ missing'[r] \subseteq broken' /\ stale'[r] \cup missing'[r] = {}
        /\ found'[r] # {} => ~Pending(r, "login")' /\ ~Pending(r, "addmethod")'
    BY <1>1, <1>2, <1>5, <1>6 DEF Finds, Lasts
  <1>8. ~At(r, "unlist")' /\ ~At(r, "srem")'
    BY <1>3, <1>4 DEF Passed, Follows
  <1>9. CASE NewSession(r)
    <2>1. x = "new" /\ At(r, "save")' /\ ~At(r, "sadd")'
      BY <1>4, <1>5, <1>9 DEF NewSession, Passed, Follows
    <2> QED
      BY <1>2, <1>6, <1>7, <1>8, <2>1 DEF Finds
  <1>10. CASE SaveNew(r)
    <2>1. x = "save" /\ At(r, "sadd")' /\ ~At(r, "save")'
      BY <1>4, <1>5, <1>10 DEF SaveNew, Passed, Follows
    <2>2. sid' = sid /\ sid[r] \in Session /\ login[r].user = who[r] /\ login[r] \in Held
      BY <1>10, InHandIsThere DEF SaveNew, InPlace, Ready, NeedsLogin
    <2>3. store'[sid[r]] # None /\ store'[sid[r]].user = who[r]
      <3> DEFINE val == [user |-> login[r].user, amr |-> login[r].amr, since |-> login[r].since,
                         until |-> now + Ttl]
      <3>1. val \in Stored /\ val.user = who[r]
        BY <2>2, Written DEF TypeOK
      <3>2. val # None
        BY <3>1, NamesAssumption DEF Stored
      <3>3. store' = [store EXCEPT ![sid[r]] = val]
        BY <1>10 DEF SaveNew, Save
      <3> HIDE DEF val
      <3> QED
        BY <2>2, <3>1, <3>2, <3>3 DEF TypeOK
    <2>4. Kept(sid[r], who[r])' /\ Live(sid[r])'
      BY <1>2, <2>2, <2>3 DEF Kept, Live
    <2> QED
      BY <1>2, <1>6, <1>7, <1>8, <2>1, <2>2, <2>4 DEF Finds
  <1>11. CASE Index(r)
    <2>1. x = "sadd" /\ ~At(r, "sadd")' /\ ~At(r, "save")' /\ ~At(r, "save")
      BY <1>4, <1>5, <1>11 DEF Index, Passed, Follows
    <2>2. /\ sid' = sid /\ sid[r] \in Session /\ who[r] \in User /\ At(r, "sadd")
          /\ store' = store
      BY <1>11, InHandIsThere DEF Index, NeedsLogin, NeedsWho, locals
    <2>3. Kept(sid[r], who[r]) /\ Live(sid[r])'
      BY <1>1, <2>1, <2>2, NamesAssumption DEF Finds, Lasts
    <2>4. sid[r] \in index'[who[r]].members
      <3>1. index' = [index EXCEPT ![who[r]] = Added(@, sid[r])]
        BY <1>11 DEF Index
      <3>2. index'[who[r]] = Added(index[who[r]], sid[r])
        BY <2>2, <3>1 DEF TypeOK
      <3> QED
        BY <3>2 DEF Added
    <2>5. Listed(sid[r])'
      BY <1>1, <2>2, <2>3, <2>4 DEF Kept, Listed
    <2> QED
      BY <1>2, <1>6, <1>7, <1>8, <2>1, <2>2, <2>3, <2>5 DEF Finds
  <1> QED
    BY <1>9, <1>10, <1>11

\* The index is read.
LEMMA IndexFinds ==
    ASSUME TypeOK, Shapes, InPlace, OnePerson, Listing, NEW r \in Request, ReadIndex(r)
    PROVE  Finds(r)'
  <1>0. Step(r)
    BY DEF Step
  <1>1. (\A s \in Session : Lasts(s)) /\ Records /\ Finds(r)
    BY <1>0, AllLasts DEF Records, TypeOK, Listing
  <1>2. At(r, "list") /\ Continue(r) /\ who[r] \in User
    BY InHandIsThere DEF ReadIndex, NeedsWho, Lists
  <1>3. Passed(r, "list") /\ At(r, "mget")' /\ \A z : At(r, z)' => z = "mget"
    <2>1. Passed(r, "list")
      BY <1>2, Continues DEF TypeOK
    <2>2. PICK y : Follows("list", y) /\ \A z : At(r, z)' <=> z = y
      BY <2>1 DEF Passed
    <2>3. y = "mget"
      BY <2>2 DEF Follows
    <2> QED
      BY <2>1, <2>2, <2>3
  <1>4. Pending(r, "mget") /\ ~Pending(r, "login") /\ ~Pending(r, "addmethod")
        /\ ~At(r, "save") /\ ~At(r, "sadd")
    <2>1. Pending(r, "mget")'
      BY <1>3, Reached DEF Passed
    <2> QED
      BY <1>2, <1>3, <2>1, AtPending DEF Passed, NoMore, Lists, Owns
  <1>5. /\ found'[r] = index[who[r]].members /\ stale'[r] = stale[r] /\ missing'[r] = missing[r]
        /\ who' = who /\ sid' = sid /\ UNCHANGED <<store, index, broken, lapsed>>
    BY <1>1, <1>2 DEF ReadIndex, Records, redis
  <1>6. stale[r] = {} /\ missing[r] = {}
    BY <1>1, <1>4 DEF Finds
  <1>7. \A s \in index[who[r]].members : s \in Session /\ Kept(s, who[r]) /\ Listed(s)
    <2>1. \A s \in index[who[r]].members : s \in Session /\ Kept(s, who[r])
      BY <1>2 DEF Listing, TypeOK, RedisSet
    <2> QED
      BY <2>1 DEF Kept, Listed
  <1>8. \A s \in found'[r] \cup stale'[r] : Kept(s, who[r])' /\ Listed(s)'
    BY <1>1, <1>5, <1>6, <1>7 DEF Lasts
  <1>9. /\ todo'[r] # <<>> /\ ~Pending(r, "login")' /\ ~Pending(r, "addmethod")'
        /\ \A z : Pending(r, z)' => Pending(r, z)
    BY <1>3, <1>4 DEF Passed, Goes
  <1>10. ~At(r, "unlist")' /\ ~At(r, "srem")' /\ ~At(r, "save")' /\ ~At(r, "sadd")'
    BY <1>3
  <1>11. sid[r] # None => /\ Live(sid[r])' /\ Listed(sid[r])'
                          /\ (Pending(r, "tidy") \/ Pending(r, "endnext") => Kept(sid[r], who[r])')
    BY <1>1, <1>4, <1>5 DEF Finds, Lasts, Records
  <1> QED
    BY <1>5, <1>6, <1>8, <1>9, <1>10, <1>11 DEF Finds

\* The sessions are read.
LEMMA SessionsFinds ==
    ASSUME TypeOK, Shapes, InPlace, OnePerson, Listing, NEW r \in Request, ReadSessions(r)
    PROVE  Finds(r)'
  <1>0. Step(r)
    BY DEF Step
  <1>1. (\A s \in Session : Lasts(s)) /\ Records /\ Finds(r)
    BY <1>0, AllLasts DEF Records, TypeOK, Listing
  <1>2. At(r, "mget") /\ Continue(r) /\ ~At(r, "save") /\ ~At(r, "sadd")
    BY AtPending DEF ReadSessions
  <1>3. Passed(r, "mget") /\ At(r, "tidy")' /\ \A z : At(r, z)' => z = "tidy"
    <2>1. Passed(r, "mget")
      BY <1>2, Continues DEF TypeOK
    <2>2. PICK y : Follows("mget", y) /\ \A z : At(r, z)' <=> z = y
      BY <2>1 DEF Passed
    <2>3. y = "tidy"
      BY <2>2 DEF Follows
    <2> QED
      BY <2>1, <2>2, <2>3
  <1>4. Pending(r, "tidy")' /\ ~Pending(r, "mget")'
    BY <1>3, Reached DEF Passed, NoMore
  <1> DEFINE absent == {s \in found[r] : store[s] = None}
             old == {s \in found[r] \ absent : Outlived(store[s])}
  <1>5. /\ found'[r] = found[r] \ (absent \cup old) /\ stale'[r] = old /\ missing'[r] = absent
        /\ who' = who /\ sid' = sid /\ UNCHANGED <<store, index, broken, lapsed>>
    BY <1>1, <1>2 DEF ReadSessions, Records, redis, history
  <1>6. absent \subseteq broken
    BY <1>1 DEF Finds, Kept
  <1>7. old \subseteq found[r]
    OBVIOUS
  <1> HIDE DEF absent, old
  <1>8. \A s \in found'[r] \cup stale'[r] : Kept(s, who[r])' /\ Listed(s)'
    BY <1>1, <1>5, <1>7 DEF Finds, Lasts, Records
  <1>9. /\ todo'[r] # <<>> /\ \A z : Pending(r, z)' => Pending(r, z)
    BY <1>3 DEF Passed, Goes
  <1>10. ~At(r, "unlist")' /\ ~At(r, "srem")' /\ ~At(r, "save")' /\ ~At(r, "sadd")'
    BY <1>3
  <1>11. sid[r] # None => /\ Live(sid[r])' /\ Listed(sid[r])'
                          /\ (Pending(r, "tidy") \/ Pending(r, "endnext") => Kept(sid[r], who[r])')
    BY <1>1, <1>2, <1>5 DEF Finds, Lasts, Records
  <1>12. found'[r] # {} => ~Pending(r, "login")' /\ ~Pending(r, "addmethod")'
    BY <1>1, <1>5, <1>9 DEF Finds
  <1> QED
    BY <1>4, <1>5, <1>6, <1>8, <1>9, <1>10, <1>11, <1>12 DEF Finds

\* Tidying up.
LEMMA TidyFinds ==
    ASSUME TypeOK, Shapes, InPlace, OnePerson, Listing, NEW r \in Request, Tidy(r)
    PROVE  Finds(r)'
  <1>0. Step(r)
    BY DEF Step
  <1>1. (\A s \in Session : Lasts(s)) /\ broken \subseteq broken' /\ Records /\ Finds(r)
    BY <1>0, AllLasts, Footprints DEF Footprint, Records, TypeOK, Listing
  <1>2. At(r, "tidy") /\ ~At(r, "save") /\ ~At(r, "sadd") /\ todo[r] # <<>> /\ Pending(r, "tidy")
        /\ who' = who /\ found' = found
        /\ ~At(r, "unlist") /\ ~At(r, "srem")
    BY AtPending DEF Tidy
  <1>3. CASE todo' = todo /\ sid' = sid /\ stale' = stale /\ missing'[r] \subseteq missing[r]
    <2>1. /\ \A z : At(r, z)' <=> At(r, z)
          /\ \A z : Pending(r, z)' <=> Pending(r, z)
      BY <1>3, Others
    <2>2. \A s \in found'[r] \cup stale'[r] : Kept(s, who[r])' /\ Listed(s)'
      BY <1>1, <1>2, <1>3 DEF Finds, Lasts, Records
    <2>3. sid[r] # None => Live(sid[r])' /\ Listed(sid[r])' /\ Kept(sid[r], who[r])'
      BY <1>1, <1>2, <1>3 DEF Finds, Lasts, Records
    <2>4. /\ missing'[r] \subseteq broken'
          /\ stale'[r] \cup missing'[r] # {} => ~Pending(r, "mget")
          /\ found'[r] # {} => ~Pending(r, "login") /\ ~Pending(r, "addmethod")
      BY <1>1, <1>2, <1>3 DEF Finds
    <2> QED
      BY <1>2, <1>3, <2>1, <2>2, <2>3, <2>4 DEF Finds
  <1>4. ASSUME NEW s \in stale[r], stale' = [stale EXCEPT ![r] = @ \ {s}],
               sid' = [sid EXCEPT ![r] = s], missing' = missing,
               todo' = [todo EXCEPT ![r] = <<"check", "retire", "unlist">> \o @]
        PROVE  Finds(r)'
    <2>1. /\ Goes(r)
          /\ \A z : At(r, z)' <=> z = "check"
          /\ \A z : Pending(r, z)' <=> z \in {"check", "retire", "unlist"} \/ Pending(r, z)
      BY <1>2, <1>4, Outdated DEF TypeOK
    <2>2. stale'[r] \subseteq stale[r] /\ sid'[r] = s /\ s \in Session
      BY <1>1, <1>4 DEF Records
    <2>3. \A t \in found'[r] \cup stale'[r] : Kept(t, who[r])' /\ Listed(t)'
      BY <1>1, <1>2, <2>2 DEF Finds, Lasts, Records
    <2>4. Kept(s, who[r]) /\ Listed(s) /\ Live(s)
      BY <1>1 DEF Finds, Kept, Live
    <2>5. Kept(s, who[r])' /\ Listed(s)' /\ Live(s)'
      BY <1>1, <1>2, <2>2, <2>4 DEF Lasts
    <2>6. /\ missing'[r] \subseteq broken' /\ ~Pending(r, "mget")
          /\ found'[r] # {} => ~Pending(r, "login") /\ ~Pending(r, "addmethod")
      BY <1>1, <1>2, <1>4 DEF Finds
    <2> QED
      BY <1>2, <2>1, <2>2, <2>3, <2>5, <2>6 DEF Finds, Goes
  <1>5. CASE missing[r] = {} /\ stale[r] = {} /\ Continue(r) /\ UNCHANGED <<missing, stale, sid>>
    <2>1. Passed(r, "tidy")
      BY <1>2, <1>5, Continues DEF TypeOK
    <2>2. ~At(r, "unlist")' /\ ~At(r, "srem")' /\ ~At(r, "save")' /\ ~At(r, "sadd")'
      BY <2>1 DEF Passed, Follows
    <2>3. \A s \in found'[r] \cup stale'[r] : Kept(s, who[r])' /\ Listed(s)'
      BY <1>1, <1>2, <1>5 DEF Finds, Lasts, Records
    <2>4. sid[r] # None => Live(sid[r])' /\ Listed(sid[r])' /\ Kept(sid[r], who[r])'
      BY <1>1, <1>2, <1>5 DEF Finds, Lasts, Records
    <2>5. /\ todo'[r] # <<>>
          /\ found'[r] # {} => ~Pending(r, "login")' /\ ~Pending(r, "addmethod")'
      BY <1>1, <1>2, <2>1 DEF Finds, Passed, Goes
    <2> QED
      BY <1>2, <1>5, <2>2, <2>3, <2>4, <2>5 DEF Finds
  <1>6. \A s \in missing[r] : missing' = [missing EXCEPT ![r] = @ \ {s}] => missing'[r] \subseteq missing[r]
    BY <1>1 DEF Records
  <1> QED
    BY <1>3, <1>4, <1>5, <1>6 DEF Tidy

\* The next session is ended.
LEMMA EndFinds ==
    ASSUME TypeOK, Shapes, InPlace, OnePerson, Listing, NEW r \in Request, EndNext(r)
    PROVE  Finds(r)'
  <1>0. Step(r)
    BY DEF Step
  <1>1. (\A s \in Session : Lasts(s)) /\ broken \subseteq broken' /\ Records /\ Finds(r)
    BY <1>0, AllLasts, Footprints DEF Footprint, Records, TypeOK, Listing
  <1>2. At(r, "endnext") /\ ~Pending(r, "tidy")
        /\ who' = who /\ stale' = stale /\ missing' = missing
    BY AtPending DEF EndNext, NoMore
  <1>3. CASE Continue(r) /\ UNCHANGED <<found, sid>>
    BY <1>1, <1>2, <1>3, PassFinds DEF Calm
  <1>4. ASSUME NEW s \in Left(r), found' = [found EXCEPT ![r] = Left(r) \ {s}],
               sid' = [sid EXCEPT ![r] = s],
               todo' = [todo EXCEPT ![r] = <<"clients", "notify">> \o DeleteByPublicId \o @]
        PROVE  Finds(r)'
    <2>1. /\ Goes(r)
          /\ \A z : At(r, z)' <=> z = "clients"
          /\ ~Pending(r, "tidy")' /\ ~Pending(r, "login")' /\ ~Pending(r, "addmethod")'
      <3>1. todo \in [Request -> Seq(Steps)]
        BY DEF TypeOK
      <3>2. /\ Goes(r)
            /\ \A z : At(r, z)' <=> z = "clients"
            /\ \A z : Pending(r, z)' <=>
                  z \in {"clients", "notify", "check", "purge", "unlist", "endnext", "done"}
        BY <1>2, <1>4, <3>1, EndsOne
      <3> QED
        BY <3>2
    <2>2. found'[r] \subseteq found[r] /\ sid'[r] = s /\ s \in Session /\ s \in found[r]
      BY <1>1, <1>4 DEF Records, Left
    <2>3. stale'[r] \cup missing'[r] = {}
      BY <1>1, <1>2 DEF Finds
    <2>4. \A t \in found'[r] \cup stale'[r] : Kept(t, who[r])' /\ Listed(t)'
      BY <1>1, <1>2, <2>2, <2>3 DEF Finds, Lasts, Records
    <2>5. Kept(s, who[r]) /\ Listed(s) /\ Live(s)
      BY <1>1, <2>2 DEF Finds, Kept, Live
    <2>6. Kept(s, who[r])' /\ Listed(s)' /\ Live(s)'
      BY <1>1, <1>2, <2>2, <2>5 DEF Lasts
    <2> QED
      BY <1>2, <2>1, <2>2, <2>3, <2>4, <2>6 DEF Finds, Goes
  <1> QED
    BY <1>3, <1>4 DEF EndNext

\* A request arrives: with nobody's cookie or with one that a browser was given, and
\* at the beginning of what it does.
Arrival(r, s, x, S) ==
    /\ Goes(r) /\ (\A z : At(r, z)' <=> z = x) /\ (\A z : Pending(r, z)' <=> z \in S)
    /\ todo[r] = <<>> /\ sid'[r] = s /\ (s = None \/ s \in Named)
    /\ x \in {"login", "get", "clients", "list"}
    /\ "tidy" \in S \/ "endnext" \in S => s = None
    /\ "notify" \in S \/ "del" \in S \/ "purge" \in S => "clients" \in S
    /\ "retire" \notin S
    /\ UNCHANGED <<now, redis, cookie, login, names, found, missing, stale, history>>

\* Every request that arrives does.
LEMMA Arrivals ==
    ASSUME TypeOK, Shapes, NEW r \in Request, Arrive(r)
    PROVE  \E s, x, S : Arrival(r, s, x, S)
  <1>1. ASSUME NEW p, NEW x, NEW S, Work(p \o <<"done">>, x, S),
               NEW s, NEW u, NEW a, Start(r, p, s, u, a),
               s = None \/ s \in Named, x \in {"login", "get", "clients", "list"},
               "tidy" \in S \/ "endnext" \in S => s = None,
               "notify" \in S \/ "del" \in S \/ "purge" \in S => "clients" \in S,
               "retire" \notin S
        PROVE  \E s1, x1, S1 : Arrival(r, s1, x1, S1)
    <2>1. Goes(r) /\ (\A z : At(r, z)' <=> z = x) /\ (\A z : Pending(r, z)' <=> z \in S)
      BY <1>1, Starts DEF TypeOK
    <2>2. /\ sid'[r] = s /\ todo[r] = <<>>
          /\ UNCHANGED <<now, redis, cookie, login, names, found, missing, stale, history>>
      BY <1>1 DEF Start, TypeOK
    <2>3. Arrival(r, s, x, S)
      BY <1>1, <2>1, <2>2 DEF Arrival
    <2> QED
      BY <2>3
  <1>2. \A s \in Session : Presented(s) => s \in Named
    BY DEF Presented, Named
  <1>3. ASSUME NEW s \in Session \cup {None}, NEW u \in User, Login(r, s, u), s = None
        PROVE  \E s1, x1, S1 : Arrival(r, s1, x1, S1)
    <2> DEFINE p == <<"login">>
               S == {"login", "done"}
    <2>1. Work(p \o <<"done">>, "login", S)
      BY Programs
    <2>2. Start(r, p, s, u, None) /\ (s = None \/ s \in Named)
      BY <1>2, <1>3 DEF Login
    <2>3. /\ "tidy" \in S \/ "endnext" \in S => s = None
          /\ "notify" \in S \/ "del" \in S \/ "purge" \in S => "clients" \in S
          /\ "retire" \notin S
      BY DEF Lists
    <2> HIDE DEF p, S
    <2> QED
      BY <1>1, <2>1, <2>2, <2>3
  <1>4. ASSUME NEW s \in Session, NEW u \in User, Login(r, s, u), s # None
        PROVE  \E s1, x1, S1 : Arrival(r, s1, x1, S1)
    <2> DEFINE p == GetSession \o <<"login">>
               S == {"get", "touch", "login", "done"}
    <2>1. Work(p \o <<"done">>, "get", S)
      BY Programs
    <2>2. Start(r, p, s, u, None) /\ (s = None \/ s \in Named)
      BY <1>2, <1>4 DEF Login
    <2>3. /\ "tidy" \in S \/ "endnext" \in S => s = None
          /\ "notify" \in S \/ "del" \in S \/ "purge" \in S => "clients" \in S
          /\ "retire" \notin S
      BY DEF Lists
    <2> HIDE DEF p, S
    <2> QED
      BY <1>1, <2>1, <2>2, <2>3
  <1>5. ASSUME NEW s \in Session, NEW c \in Client, Authorize(r, s, c)
        PROVE  \E s1, x1, S1 : Arrival(r, s1, x1, S1)
    <2> DEFINE p == GetSession \o <<"signedin", "code", "addclient", "clientsttl">>
               S == {"get", "touch", "signedin", "code", "addclient", "clientsttl", "done"}
    <2>1. Work(p \o <<"done">>, "get", S)
      BY Programs
    <2>2. Start(r, p, s, None, c) /\ (s = None \/ s \in Named)
      BY <1>2, <1>5 DEF Authorize
    <2>3. /\ "tidy" \in S \/ "endnext" \in S => s = None
          /\ "notify" \in S \/ "del" \in S \/ "purge" \in S => "clients" \in S
          /\ "retire" \notin S
      BY DEF Lists
    <2> HIDE DEF p, S
    <2> QED
      BY <1>1, <2>1, <2>2, <2>3
  <1>6. ASSUME NEW s \in Session, NEW f \in Factor, StepUp(r, s, f)
        PROVE  \E s1, x1, S1 : Arrival(r, s1, x1, S1)
    <2> DEFINE p == GetSession \o <<"signedin", "addmethod">>
               S == {"get", "touch", "signedin", "addmethod", "done"}
    <2>1. Work(p \o <<"done">>, "get", S)
      BY Programs
    <2>2. Start(r, p, s, None, f) /\ (s = None \/ s \in Named)
      BY <1>2, <1>6 DEF StepUp
    <2>3. /\ "tidy" \in S \/ "endnext" \in S => s = None
          /\ "notify" \in S \/ "del" \in S \/ "purge" \in S => "clients" \in S
          /\ "retire" \notin S
      BY DEF Lists
    <2> HIDE DEF p, S
    <2> QED
      BY <1>1, <2>1, <2>2, <2>3
  <1>7. ASSUME NEW s \in Session, Logout(r, s)
        PROVE  \E s1, x1, S1 : Arrival(r, s1, x1, S1)
    <2> DEFINE p == GetSession \o <<"signedin">> \o EndSession
               S == {"get", "touch", "signedin", "clients", "notify", "del", "srem", "done"}
    <2>1. Work(p \o <<"done">>, "get", S)
      BY Programs
    <2>2. Start(r, p, s, None, None) /\ (s = None \/ s \in Named)
      BY <1>2, <1>7 DEF Logout
    <2>3. /\ "tidy" \in S \/ "endnext" \in S => s = None
          /\ "notify" \in S \/ "del" \in S \/ "purge" \in S => "clients" \in S
          /\ "retire" \notin S
      BY DEF Lists
    <2> HIDE DEF p, S
    <2> QED
      BY <1>1, <2>1, <2>2, <2>3
  <1>8. ASSUME NEW s \in Session, NEW u \in User, RevokeSession(r, s, u)
        PROVE  \E s1, x1, S1 : Arrival(r, s1, x1, S1)
    <2> DEFINE p == <<"clients">> \o DeleteByPublicId \o <<"notify">>
               S == {"clients", "check", "purge", "unlist", "notify", "done"}
    <2>1. Work(p \o <<"done">>, "clients", S)
      BY Programs
    <2>2. Start(r, p, s, u, None) /\ (s = None \/ s \in Named)
      BY <1>2, <1>8 DEF RevokeSession
    <2>3. /\ "tidy" \in S \/ "endnext" \in S => s = None
          /\ "notify" \in S \/ "del" \in S \/ "purge" \in S => "clients" \in S
          /\ "retire" \notin S
      BY DEF Lists
    <2> HIDE DEF p, S
    <2> QED
      BY <1>1, <2>1, <2>2, <2>3
  <1>9. ASSUME NEW u \in User, ListSessions(r, u)
        PROVE  \E s1, x1, S1 : Arrival(r, s1, x1, S1)
    <2> DEFINE p == <<"list", "mget", "tidy">>
               S == {"list", "mget", "tidy", "done"}
    <2>1. Work(p \o <<"done">>, "list", S)
      BY Programs
    <2>2. Start(r, p, None, u, None) /\ (None = None \/ None \in Named)
      BY <1>2, <1>9 DEF ListSessions
    <2>3. /\ "tidy" \in S \/ "endnext" \in S => None = None
          /\ "notify" \in S \/ "del" \in S \/ "purge" \in S => "clients" \in S
          /\ "retire" \notin S
      BY DEF Lists
    <2> HIDE DEF p, S
    <2> QED
      BY <1>1, <2>1, <2>2, <2>3
  <1>10. ASSUME NEW u \in User, NEW keep, EndAllSessions(r, u, keep)
        PROVE  \E s1, x1, S1 : Arrival(r, s1, x1, S1)
    <2> DEFINE p == <<"list", "mget", "tidy", "endnext">>
               S == Lists \cup {"done"}
    <2>1. Work(p \o <<"done">>, "list", S)
      BY Programs
    <2>2. Start(r, p, None, u, keep) /\ (None = None \/ None \in Named)
      BY <1>2, <1>10 DEF EndAllSessions
    <2>3. /\ "tidy" \in S \/ "endnext" \in S => None = None
          /\ "notify" \in S \/ "del" \in S \/ "purge" \in S => "clients" \in S
          /\ "retire" \notin S
      BY DEF Lists
    <2> HIDE DEF p, S
    <2> QED
      BY <1>1, <2>1, <2>2, <2>3
  <1> QED
    BY <1>3, <1>4, <1>5, <1>6, <1>7, <1>8, <1>9, <1>10, NamesAssumption DEF Arrive

\* A request that arrives has found nothing yet.
LEMMA ArriveFinds ==
    ASSUME TypeOK, Shapes, InPlace, OnePerson, Listing, NEW r \in Request, Arrive(r)
    PROVE  Finds(r)'
  <1>1. (\A s \in Session : Lasts(s)) /\ Finds(r)
    BY AllLasts DEF Listing
  <1>2. PICK s, x, S : Arrival(r, s, x, S)
    BY Arrivals
  <1>3. todo[r] = <<>> /\ (\A z : ~Pending(r, z)) /\ found[r] = {} /\ stale[r] \cup missing[r] = {}
    BY <1>1, <1>2, AtPending DEF Arrival, Finds
  <1>4. found'[r] = {} /\ stale'[r] = {} /\ missing'[r] = {} /\ sid'[r] = s
    BY <1>2, <1>3 DEF Arrival
  <1>5. s # None => s \in Session /\ Live(s)' /\ Listed(s)'
    BY <1>1, <1>2 DEF Arrival, Named, Listing, Lasts
  <1>6. /\ ~At(r, "unlist")' /\ ~At(r, "srem")' /\ ~At(r, "save")' /\ ~At(r, "sadd")'
        /\ Pending(r, "tidy")' \/ Pending(r, "endnext")' => s = None
    BY <1>2 DEF Arrival
  <1> QED
    BY <1>4, <1>5, <1>6 DEF Finds

\* A request that is answered forgets what it found.
LEMMA DoneFinds ==
    ASSUME TypeOK, Shapes, InPlace, Listing, NEW r \in Request, Done(r)
    PROVE  Finds(r)'
  <1>1. Records /\ Finds(r) /\ ~Pending(r, "tidy")
    BY AtPending DEF Records, TypeOK, Listing, Done
  <1>2. found'[r] = {} /\ sid'[r] = None /\ stale'[r] = {} /\ missing'[r] = {}
    BY <1>1 DEF Done, Finds, Records
  <1>3. (\A z : ~At(r, z)') /\ (\A z : ~Pending(r, z)')
    BY <1>1, Finishes DEF Done, Records
  <1> QED
    BY <1>2, <1>3 DEF Finds

\* What r has found, after any step of its.
LEMMA FindsKept ==
    ASSUME TypeOK, Shapes, InPlace, OnePerson, Listing, NEW r \in Request, Step(r) \/ Arrive(r)
    PROVE  Finds(r)'
  BY StepFindsCalm, MakeFinds, IndexFinds, SessionsFinds, TidyFinds, EndFinds, DoneFinds,
     ArriveFinds DEF Step

\* What another request has found lasts.
LEMMA OthersFind ==
    ASSUME TypeOK, Shapes, InPlace, OnePerson, Listing, NEW r \in Request, Step(r) \/ Arrive(r),
           NEW q \in Request \ {r}
    PROVE  Finds(q)'
  <1>1. (\A s \in Session : Lasts(s)) /\ broken \subseteq broken' /\ Finds(q)
    BY AllLasts, Footprints DEF Footprint, Listing
  <1>2. /\ Still(q)
        /\ \A x : At(q, x)' <=> At(q, x)
        /\ \A x : Pending(q, x)' <=> Pending(q, x)
    BY OneAtATime, OthersStill
  <1>3. found[q] \subseteq Session /\ stale[q] \subseteq Session /\ sid[q] \in Session \cup {None}
    BY DEF TypeOK
  <1>4. \A s \in found'[q] \cup stale'[q] : Kept(s, who[q])' /\ Listed(s)'
    BY <1>1, <1>2, <1>3 DEF Finds, Lasts, Still
  <1>5. sid[q] # None =>
           /\ ~At(q, "save")' => Live(sid[q])'
           /\ ~At(q, "save")' /\ ~At(q, "sadd")' => Listed(sid[q])'
           /\ Pending(q, "tidy")' \/ Pending(q, "endnext")' => Kept(sid[q], who[q])'
    BY <1>1, <1>2, <1>3 DEF Finds, Lasts, Still
  <1>6. At(q, "sadd")' => Kept(sid[q], who[q])'
    <2>1. At(q, "sadd") => sid[q] \in Session
      BY InHandIsThere DEF NeedsLogin
    <2> QED
      BY <1>1, <1>2, <2>1 DEF Finds, Lasts, Still
  <1> QED
    BY <1>1, <1>2, <1>4, <1>5, <1>6 DEF Finds, Still

\* Sessions are listed, at every step.
LEMMA ListingKept ==
    ASSUME TypeOK, Shapes, InPlace, OnePerson, Listing, [Next]_vars
    PROVE  Listing'
  <1>1. ASSUME NEW r \in Request, Step(r) \/ Arrive(r)
        PROVE  Listing'
    <2>1. \A s \in Session : Lasts(s)
      BY <1>1, AllLasts
    <2>2. \A q \in Request : Finds(q)'
      BY <1>1, FindsKept, OthersFind
    <2>3. ASSUME NEW s \in Session, cookie'[s] # 0
          PROVE  Listed(s)' /\ Live(s)'
      <3>1. CASE cookie[s] # 0
        BY <2>1, <3>1 DEF Listing, Lasts
      <3>2. CASE cookie[s] = 0
        <4>1. Done(r) /\ s = sid[r]
          <5>1. s = sid[r]
            BY <1>1, <2>3, <3>2, Footprints DEF Footprint
          <5>2. Arrive(r) => cookie' = cookie
            BY DEF Arrive, Login, Authorize, StepUp, Logout, RevokeSession, ListSessions,
               EndAllSessions, Start
          <5> QED
            BY <1>1, <2>3, <3>2, <5>1, <5>2
               DEF Step, Get, Forget, Touch, SaveSeen, Del, Retire, Unindex, Check, Unlist,
                   ReadClients, Notify, ReadIndex, ReadSessions, Tidy, EndNext, SignedInOnly,
                   IssueCode, AddClient, ExtendClients, Rejected, AddMethod, SignIn,
                   Reauthenticate, NewSession, SaveNew, Index, ExtendIndex
        <4>2. At(r, "done") /\ ~At(r, "save") /\ ~At(r, "sadd") /\ sid[r] # None
          BY <4>1, AtPending, NamesAssumption DEF Done
        <4>3. Live(s) /\ Listed(s)
          BY <4>1, <4>2 DEF Listing, Finds
        <4> QED
          BY <2>1, <4>3 DEF Lasts
      <3> QED
        BY <3>1, <3>2
    <2>4. ASSUME NEW u \in User, NEW s \in index'[u].members
          PROVE  Kept(s, u)'
      <3>1. s \in Session
        <4>1. TypeOK'
          BY <1>1, Sound DEF Next
        <4> QED
          BY <2>4, <4>1 DEF TypeOK, RedisSet
      <3>2. Kept(s, u)
        <4>1. CASE s \in index[u].members
          BY <4>1 DEF Listing
        <4>2. CASE Index(r) /\ s = sid[r] /\ u = who[r]
          BY <4>2 DEF Index, Listing, Finds
        <4> QED
          BY <1>1, <2>4, <3>1, <4>1, <4>2, IndexMoves
      <3> QED
        BY <2>1, <3>1, <3>2 DEF Lasts
    <2> QED
      BY <2>2, <2>3, <2>4 DEF Listing
  <1>2. CASE Tick
    <2>0. /\ cookie' = cookie /\ todo' = todo /\ locals' = locals /\ broken \subseteq broken'
          /\ lapsed \subseteq lapsed'
      BY <1>2 DEF Tick
    <2>1. \A s \in Session : store'[s] = store[s] \/ (store'[s] = None /\ s \in broken')
      BY <1>2 DEF Tick
    <2>2. \A u \in User : \/ index'[u] = index[u]
                          \/ index'[u].members = {} /\ index[u].members \subseteq lapsed'
      BY <1>2 DEF Tick, NoKey
    <2>3. ASSUME NEW s \in Session
          PROVE  Lasts(s)
      <3>1. store[s] # None => store[s].user \in User
        BY DEF TypeOK, Stored
      <3> QED
        BY <2>0, <2>1, <2>2, <3>1 DEF Lasts, Live, Kept, Listed
    <2>4. ASSUME NEW q \in Request
          PROVE  Finds(q)'
      <3>1. /\ \A x : At(q, x)' <=> At(q, x)
            /\ \A x : Pending(q, x)' <=> Pending(q, x)
        BY <2>0, Others
      <3>2. Finds(q) /\ found[q] \subseteq Session /\ stale[q] \subseteq Session /\ sid[q] \in Session \cup {None}
        BY DEF TypeOK, Listing
      <3>3. /\ sid' = sid /\ who' = who /\ found' = found /\ stale' = stale /\ missing' = missing
        BY <2>0 DEF locals
      <3>4. \A s \in found'[q] \cup stale'[q] : Kept(s, who[q])' /\ Listed(s)'
        BY <2>3, <3>2, <3>3 DEF Finds, Lasts
      <3>5. sid[q] # None =>
               /\ ~At(q, "save")' => Live(sid[q])'
               /\ ~At(q, "save")' /\ ~At(q, "sadd")' => Listed(sid[q])'
               /\ Pending(q, "tidy")' \/ Pending(q, "endnext")' => Kept(sid[q], who[q])'
        BY <2>3, <3>1, <3>2, <3>3 DEF Finds, Lasts
      <3>6. At(q, "sadd")' => Kept(sid[q], who[q])'
        <4>1. At(q, "sadd") => sid[q] \in Session
          BY InHandIsThere DEF NeedsLogin
        <4> QED
          BY <2>3, <3>1, <3>2, <3>3, <4>1 DEF Finds, Lasts
      <3> QED
        BY <2>0, <3>1, <3>2, <3>3, <3>4, <3>5, <3>6 DEF Finds
    <2>5. \A s \in Session : cookie'[s] # 0 => Listed(s)' /\ Live(s)'
      BY <2>0, <2>3 DEF Listing, Lasts
    <2>6. ASSUME NEW u \in User, NEW s \in index'[u].members
          PROVE  Kept(s, u)'
      <3>1. s \in index[u].members /\ s \in Session
        BY <2>2 DEF TypeOK, RedisSet
      <3> QED
        BY <2>3, <3>1 DEF Listing, Lasts
    <2> QED
      BY <2>4, <2>5, <2>6 DEF Listing
  <1>3. CASE UNCHANGED vars
    BY <1>3 DEF Listing, Finds, Kept, Live, Listed, At, Pending, vars, redis, locals, history
  <1> QED
    BY <1>1, <1>2, <1>3 DEF Next

-----------------------------------------------------------------------------
(* Signed out, and all of them ended.                                      *)

\* What is signed out, and by whom.
LEMMA SignedOut ==
    ASSUME NEW r \in Request, Step(r) \/ Arrive(r)
    PROVE  \/ UNCHANGED <<ended, revived>>
           \/ /\ Del(r) /\ ended' = ended \cup {sid[r]} /\ revived \subseteq revived'
              /\ InHand(r, sid[r]) # {} => sid[r] \in revived'
  <1>1. Arrive(r) => UNCHANGED <<ended, revived>>
    BY DEF Arrive, Login, Authorize, StepUp, Logout, RevokeSession, ListSessions,
       EndAllSessions, Start, history
  <1>2. Del(r) => /\ ended' = ended \cup {sid[r]} /\ revived \subseteq revived'
                  /\ InHand(r, sid[r]) # {} => sid[r] \in revived'
    BY DEF Del
  <1> QED
    BY <1>1, <1>2
       DEF Step, Get, Forget, Touch, SaveSeen, Retire, Unindex, Check, Unlist, ReadClients,
           Notify, ReadIndex, ReadSessions, Tidy, EndNext, SignedInOnly, IssueCode, AddClient,
           ExtendClients, Rejected, AddMethod, SignIn, Reauthenticate, NewSession, SaveNew,
           Index, ExtendIndex, Done, history

\* A session that was signed out and is gone stays so.
LEMMA OutStays ==
    ASSUME TypeOK, Shapes, InPlace, Generated, NEW r \in Request, Step(r) \/ Arrive(r),
           NEW s \in Session, s \in broken, store[s] = None,
           \A q \in Request : sid[q] = s /\ login[q] # None =>
              At(q, "srem") \/ At(q, "new") \/ At(q, "done")
    PROVE  /\ store'[s] = None
           /\ \A q \in Request : sid'[q] = s /\ login'[q] # None =>
                 At(q, "srem")' \/ At(q, "new")' \/ At(q, "done")'
  <1>1. \A x : At(r, x) /\ At(r, "srem") => x = "srem"
    BY AtPending
  <1>2. \A x : At(r, x) /\ At(r, "new") => x = "new"
    BY AtPending
  <1>3. \A x : At(r, x) /\ At(r, "done") => x = "done"
    BY AtPending
  <1>4. store'[s] = None
    <2>1. ASSUME SaveSeen(r) \/ SaveNew(r) \/ AddMethod(r) \/ Reauthenticate(r), s = sid[r],
                 login[r] # None
          PROVE  FALSE
      <3>1. At(r, "seen") \/ At(r, "save") \/ At(r, "addmethod") \/ At(r, "reauth")
        BY <2>1, Guards
      <3>2. At(r, "srem") \/ At(r, "new") \/ At(r, "done")
        BY <2>1
      <3> QED
        BY <1>1, <1>2, <1>3, <3>1, <3>2
    <2> QED
      BY <2>1, StoreUsers
  <1>5. ASSUME NEW q \in Request \ {r}, sid'[q] = s, login'[q] # None
        PROVE  At(q, "srem")' \/ At(q, "new")' \/ At(q, "done")'
    BY <1>5, OneAtATime, OthersStill DEF Still
  <1>6. ASSUME sid'[r] = s, login'[r] # None
        PROVE  At(r, "srem")' \/ At(r, "new")' \/ At(r, "done")'
    <2>1. CASE sid'[r] = sid[r] /\ login[r] # None
      <3>1. At(r, "srem") \/ At(r, "new") \/ At(r, "done")
        BY <1>6, <2>1
      <3>2. ~Done(r)
        BY <1>6 DEF Done, TypeOK
      <3>3. ~NewSession(r)
        BY <1>6 DEF NewSession, NewId, Generated, TypeOK
      <3>4. Unindex(r)
        <4>1. todo[r] # <<>>
          BY <3>1 DEF At
        <4> QED
          <5>1. \A x : At(r, x) => x \in {"srem", "new", "done"}
            BY <1>1, <1>2, <1>3, <3>1
          <5> QED
            BY <3>2, <3>3, <4>1, <5>1, Guards DEF Step
      <3>5. Passed(r, "srem")
        BY <3>4, Continues DEF Unindex, TypeOK
      <3> QED
        BY <3>5 DEF Passed, Follows
    <2>2. CASE NewSession(r)
      BY <1>6, <2>2 DEF NewSession, NewId, Generated, TypeOK
    <2> QED
      BY <1>6, <2>1, <2>2, HeldUsers
  <1> QED
    BY <1>4, <1>5, <1>6

\* Signed out is signed out, at every step.
LEMMA OutKept ==
    ASSUME TypeOK, Shapes, InPlace, Generated, Out, [Next]_vars
    PROVE  Out'
  <1>1. ASSUME NEW r \in Request, Step(r) \/ Arrive(r)
        PROVE  Out'
    <2> SUFFICES ASSUME NEW s \in ended' \ revived'
                 PROVE  /\ store'[s] = None
                        /\ \A q \in Request : sid'[q] = s /\ login'[q] # None =>
                              At(q, "srem")' \/ At(q, "new")' \/ At(q, "done")'
      BY DEF Out
    <2>1. CASE s \in ended
      <3>1. s \notin revived
        BY <1>1, SignedOut
      <3>2. s \in Session /\ s \in broken
        BY <2>1 DEF TypeOK
      <3> QED
        BY <1>1, <2>1, <3>1, <3>2, OutStays DEF Out
    <2>2. CASE s \notin ended
      <3>1. Del(r) /\ s = sid[r] /\ InHand(r, s) = {}
        BY <1>1, <2>2, SignedOut
      <3>2. s \in Session
        BY <3>1, InHandIsThere DEF Del, NeedsSid, Lists, Owns
      <3>3. store'[s] = None /\ login' = login /\ sid' = sid
        BY <3>1, <3>2 DEF Del, DeleteKeys, TypeOK, locals
      <3>4. ASSUME login[r] # None
            PROVE  At(r, "srem")'
        <4>1. At(r, "del") /\ Continue(r)
          BY <3>1, <3>4, AtPending DEF Del, InPlace, Ready
        <4>2. Passed(r, "del")
          BY <4>1, Continues DEF TypeOK
        <4> QED
          BY <4>2 DEF Passed, Follows
      <3>5. \A q \in Request \ {r} : ~(sid[q] = s /\ login[q] # None)
        BY <3>1 DEF InHand
      <3> QED
        BY <3>1, <3>3, <3>4, <3>5
    <2> QED
      BY <2>1, <2>2
  <1>2. CASE Tick
    <2>1. UNCHANGED <<ended, revived, todo, sid, login>>
      BY <1>2 DEF Tick, locals
    <2>2. \A s \in Session : store[s] = None => store'[s] = None
      BY <1>2 DEF Tick
    <2>3. ended \subseteq Session
      BY DEF TypeOK
    <2> QED
      BY <2>1, <2>2, <2>3 DEF Out, At
  <1>3. CASE UNCHANGED vars
    BY <1>3 DEF Out, At, vars, redis, locals, history
  <1> QED
    BY <1>1, <1>2, <1>3 DEF Next

\* What an end_all_sessions still ought to end, when its step passes nothing over.
LEMMA CalmEnds ==
    ASSUME Ending, NEW r \in Request, broken \subseteq broken', due'[r] = due[r],
           due[r] \subseteq broken \/
              /\ found'[r] = found[r] /\ stale'[r] = stale[r] /\ arg'[r] = arg[r] /\ sid'[r] = sid[r]
              /\ Pending(r, "endnext")'
              /\ Pending(r, "purge") \/ Pending(r, "retire") =>
                    Pending(r, "purge")' \/ Pending(r, "retire")' \/ sid[r] \in broken'
    PROVE  Ends(r)'
  <1>1. Ends(r)
    BY DEF Ending
  <1>2. CASE due[r] \subseteq broken
    BY <1>2 DEF Ends
  <1>3. CASE ~(due[r] \subseteq broken)
    BY <1>1, <1>3 DEF Ends
  <1> QED
    BY <1>2, <1>3

\* The steps that pass nothing over.
LEMMA StepEndsCalm ==
    ASSUME TypeOK, Shapes, InPlace, OnePerson, Listing, Ending, NEW r \in Request, Step(r),
           ~ReadIndex(r), ~ReadSessions(r), ~Tidy(r), ~EndNext(r), ~Done(r)
    PROVE  Ends(r)'
  <1>1. broken \subseteq broken' /\ Records /\ Ends(r)
    BY Footprints DEF Footprint, Records, TypeOK, Ending
  <1>2. due'[r] = due[r]
    BY DEF Step, Get, Forget, Touch, SaveSeen, Del, Retire, Unindex, Check, Unlist, ReadClients,
       Notify, SignedInOnly, IssueCode, AddClient, ExtendClients, Rejected, AddMethod, SignIn,
       Reauthenticate, NewSession, SaveNew, Index, ExtendIndex, history
  <1>3. CASE due[r] \subseteq broken
    BY <1>1, <1>2, <1>3, CalmEnds
  <1>4. CASE ~(due[r] \subseteq broken)
    <2>1. Pending(r, "endnext")
      BY <1>1, <1>4 DEF Ends
    <2>2. /\ \A x \in Owns : ~At(r, x)
          /\ ~At(r, "done")
      BY <2>1, AtPending DEF NoMore, Lists, Owns
    <2>3. \/ Del(r) \/ Retire(r) \/ Check(r) \/ Unlist(r) \/ ReadClients(r) \/ Notify(r)
      <3>1. /\ ~At(r, "get") /\ ~At(r, "touch") /\ ~At(r, "seen") /\ ~At(r, "forget")
            /\ ~At(r, "signedin") /\ ~At(r, "code") /\ ~At(r, "addclient") /\ ~At(r, "clientsttl")
            /\ ~At(r, "addmethod") /\ ~At(r, "login") /\ ~At(r, "reauth") /\ ~At(r, "new")
            /\ ~At(r, "save") /\ ~At(r, "sadd") /\ ~At(r, "indexttl") /\ ~At(r, "srem")
        BY <2>2 DEF Owns
      <3> QED
        BY <2>2, <3>1, Guards DEF Step
    <2>4. /\ found'[r] = found[r] /\ stale'[r] = stale[r] /\ arg'[r] = arg[r] /\ sid'[r] = sid[r]
      BY <2>3 DEF Del, Retire, Check, Unlist, ReadClients, Notify, locals
    <2>5. CASE Continue(r)
      <3>1. PICK x \in Steps : At(r, x) /\ x # "done" /\ x # "endnext"
        BY <2>3 DEF Del, Retire, Check, Unlist, ReadClients, Notify, Steps
      <3>2. Passed(r, x)
        BY <2>5, <3>1, Continues DEF TypeOK
      <3>3. \A z : Pending(r, z) /\ z # x => Pending(r, z)'
        BY <3>2 DEF Passed
      <3>4. x \in {"purge", "retire"} => sid[r] \in broken'
        <4>1. \A y : At(r, y) => y = x
          BY <3>1, AtPending
        <4>2. x \in {"purge", "retire"} => Del(r) \/ Retire(r)
          <5>1. Del(r) => ~At(r, "del")
            BY <2>2 DEF Owns
          <5>2. \/ Del(r) \/ Retire(r) \/ (Check(r) /\ At(r, "check")) \/ (Unlist(r) /\ At(r, "unlist"))
                \/ (ReadClients(r) /\ At(r, "clients")) \/ (Notify(r) /\ At(r, "notify"))
            BY <2>3, Guards
          <5> QED
            BY <4>1, <5>1, <5>2
        <4> QED
          BY <4>2 DEF Del, Retire, DeleteKeys
      <3>5. /\ Pending(r, "endnext")'
            /\ Pending(r, "purge") \/ Pending(r, "retire") =>
                  Pending(r, "purge")' \/ Pending(r, "retire")' \/ sid[r] \in broken'
        BY <2>1, <3>1, <3>3, <3>4
      <3> QED
        BY <1>1, <1>2, <2>4, <3>5, CalmEnds
    <2>6. CASE Check(r) /\ ~Continue(r)
      <3>1. /\ todo' = [todo EXCEPT ![r] = Tail(Tail(Tail(@)))] /\ At(r, "check")
            /\ store[sid[r]] = None \/ store[sid[r]].user # Owner(r)
        BY <2>6 DEF Check
      <3>2. Pending(r, "endnext")'
        BY <2>1, <3>1, Fails DEF TypeOK
      <3>3. sid[r] \in broken
        <4>1. login[r] = None /\ sid[r] # None
          BY <2>1, <3>1, AtPending DEF InPlace, Ready, Lists, NeedsSid
        <4>2. Kept(sid[r], who[r])
          BY <2>1, <4>1 DEF Listing, Finds
        <4> QED
          BY <3>1, <4>1, <4>2 DEF Kept, Owner
      <3> QED
        BY <1>1, <1>2, <2>4, <3>2, <3>3, CalmEnds
    <2> QED
      BY <2>3, <2>5, <2>6 DEF Del, Retire, Unlist, ReadClients, Notify
  <1> QED
    BY <1>3, <1>4

\* The listing, and what is ended of it.
LEMMA StepEnds ==
    ASSUME TypeOK, Shapes, InPlace, OnePerson, Listing, Ending, NEW r \in Request,
           Step(r) \/ Arrive(r)
    PROVE  Ends(r)'
  <1>1. broken \subseteq broken' /\ Records /\ Ends(r) /\ Finds(r)
    BY Footprints DEF Footprint, Records, TypeOK, Ending, Listing
  <1>2. CASE ReadIndex(r)
    <2>1. /\ found'[r] = index[who[r]].members /\ arg'[r] = arg[r] /\ broken' = broken
          /\ due'[r] = IF Pending(r, "endnext")
                         THEN SignedIn(who[r]) \ (broken \cup lapsed \cup {arg[r]}) ELSE {}
      BY <1>1, <1>2 DEF ReadIndex, Records
    <2>2. Pending(r, "endnext") => Pending(r, "endnext")'
      <3>1. Passed(r, "list")
        BY <1>2, Continues DEF ReadIndex, TypeOK
      <3> QED
        BY <3>1 DEF Passed
    <2>3. \A s \in SignedIn(who[r]) \ (broken \cup lapsed) : s \in index[who[r]].members
      BY DEF SignedIn, Named, Listing, Listed
    <2> QED
      BY <2>1, <2>2, <2>3 DEF Ends
  <1>3. CASE ReadSessions(r)
    <2> DEFINE absent == {s \in found[r] : store[s] = None}
               old == {s \in found[r] \ absent : Outlived(store[s])}
    <2>1. /\ found'[r] = found[r] \ (absent \cup old) /\ stale'[r] = old
          /\ arg'[r] = arg[r] /\ due'[r] = due[r] /\ sid'[r] = sid[r]
      BY <1>1, <1>3 DEF ReadSessions, Records, history
    <2>2. absent \subseteq broken
      BY <1>1 DEF Finds, Kept
    <2>3. stale[r] = {}
      BY <1>1, <1>3, AtPending DEF ReadSessions, Finds
    <2>4. arg[r] \in old => arg[r] \in stale'[r]
      BY <2>1
    <2> HIDE DEF absent, old
    <2>5. \A z : Pending(r, z) /\ z # "mget" => Pending(r, z)'
      BY <1>3, Continues DEF ReadSessions, TypeOK, Passed
    <2> QED
      BY <1>1, <2>1, <2>2, <2>3, <2>5 DEF Ends
  <1>4. CASE Tidy(r)
    <2>1. /\ At(r, "tidy") /\ due' = due /\ found' = found /\ arg' = arg
          /\ ~Pending(r, "purge") /\ ~Pending(r, "retire")
      BY <1>4, AtPending DEF Tidy, NoMore, Lists, Tells, history
    <2>2. CASE UNCHANGED <<todo, sid, stale>>
      <3>1. \A z : Pending(r, z)' <=> Pending(r, z)
        BY <2>2, Others
      <3> QED
        BY <1>1, <2>1, <2>2, <3>1 DEF Ends
    <2>3. ASSUME NEW s \in stale[r], stale' = [stale EXCEPT ![r] = @ \ {s}],
                 sid' = [sid EXCEPT ![r] = s],
                 todo' = [todo EXCEPT ![r] = <<"check", "retire", "unlist">> \o @]
          PROVE  Ends(r)'
      <3>1. \A z : Pending(r, z)' <=> z \in {"check", "retire", "unlist"} \/ Pending(r, z)
        BY <2>1, <2>3, Outdated DEF TypeOK
      <3>2. stale'[r] = stale[r] \ {s} /\ sid'[r] = s
        BY <1>1, <2>3 DEF Records
      <3> QED
        BY <1>1, <2>1, <3>1, <3>2 DEF Ends
    <2>4. CASE stale[r] = {} /\ Continue(r) /\ UNCHANGED <<stale, sid>>
      <3>1. \A z : Pending(r, z) /\ z # "tidy" => Pending(r, z)'
        BY <2>1, <2>4, Continues DEF TypeOK, Passed
      <3> QED
        BY <1>1, <2>1, <2>4, <3>1 DEF Ends
    <2> QED
      BY <1>4, <2>2, <2>3, <2>4 DEF Tidy
  <1>5. CASE EndNext(r)
    <2>1. /\ At(r, "endnext") /\ due' = due /\ arg' = arg /\ stale' = stale
          /\ ~Pending(r, "purge") /\ ~Pending(r, "retire") /\ ~Pending(r, "tidy")
      BY <1>5, AtPending DEF EndNext, history
    <2>2. stale[r] = {}
      BY <1>1, <2>1 DEF Finds
    <2>3. due[r] \subseteq broken \cup Left(r)
      BY <1>1, <2>1, <2>2 DEF Ends, Left
    <2>4. CASE Left(r) = {}
      BY <1>1, <2>1, <2>3, <2>4 DEF Ends
    <2>5. ASSUME NEW s \in Left(r), found' = [found EXCEPT ![r] = Left(r) \ {s}],
                 sid' = [sid EXCEPT ![r] = s],
                 todo' = [todo EXCEPT ![r] = <<"clients", "notify">> \o DeleteByPublicId \o @]
          PROVE  Ends(r)'
      <3>1. todo \in [Request -> Seq(Steps)]
        BY DEF TypeOK
      <3>2. \A z : Pending(r, z)' <=>
               z \in {"clients", "notify", "check", "purge", "unlist", "endnext", "done"}
        BY <2>1, <2>5, <3>1, EndsOne
      <3>3. Pending(r, "purge")' /\ Pending(r, "endnext")'
        BY <3>2
      <3>4. found'[r] = Left(r) \ {s} /\ sid'[r] = s /\ arg[r] \notin Left(r)
        BY <1>1, <2>5 DEF Records, Left
      <3> QED
        BY <1>1, <2>1, <2>3, <3>3, <3>4 DEF Ends
    <2> QED
      BY <1>5, <2>4, <2>5 DEF EndNext
  <1>6. CASE Done(r)
    BY <1>1, <1>6 DEF Done, Records, Ends
  <1>7. CASE Arrive(r)
    <2>1. PICK s, x, S : Arrival(r, s, x, S)
      BY <1>7, Arrivals
    <2>2. due'[r] = due[r] /\ due[r] \subseteq broken
      BY <1>1, <2>1, AtPending DEF Arrival, Ends, history
    <2> QED
      BY <1>1, <2>2, CalmEnds
  <1> QED
    BY <1>2, <1>3, <1>4, <1>5, <1>6, <1>7, StepEndsCalm

\* end_all_sessions loses none, at every step.
LEMMA EndingKept ==
    ASSUME TypeOK, Shapes, InPlace, OnePerson, Listing, Ending, [Next]_vars
    PROVE  Ending'
  <1>1. ASSUME NEW r \in Request, Step(r) \/ Arrive(r)
        PROVE  Ending'
    <2>1. ASSUME NEW q \in Request \ {r}
          PROVE  Ends(q)'
      <3>1. /\ Still(q) /\ \A x : Pending(q, x)' <=> Pending(q, x)
        BY <1>1, OneAtATime, OthersStill
      <3>2. broken \subseteq broken' /\ Ends(q)
        BY <1>1, Footprints DEF Footprint, Ending
      <3> QED
        BY <3>1, <3>2 DEF Ends, Still
    <2> QED
      BY <1>1, <2>1, StepEnds DEF Ending
  <1>2. CASE Tick
    <2>1. UNCHANGED <<todo, sid, arg, found, stale, due>> /\ broken \subseteq broken'
      BY <1>2 DEF Tick, locals
    <2> QED
      BY <2>1 DEF Ending, Ends, Pending
  <1>3. CASE UNCHANGED vars
    BY <1>3 DEF Ending, Ends, Pending, vars, redis, locals, history
  <1> QED
    BY <1>1, <1>2, <1>3 DEF Next

-----------------------------------------------------------------------------
(* The clients a session reached are told.                                 *)

\* Before the handlers that sign nobody out, or decide whether to, nobody is to be
\* told who has not been read.
LEMMA TellsAfter ==
    ASSUME Shapes, todo \in [Request -> Seq(Steps)], NEW r \in Request,
           NEW x \in {"signedin", "addmethod", "code", "login"}, At(r, x), Pending(r, "notify")
    PROVE  Pending(r, "clients")
  <1>1. PICK y, S :
              /\ Work(Tail(todo[r]), y, S) /\ Follows(x, y) /\ S \subseteq Steps
              /\ \A z \in S : Pending(r, z)
              /\ \A z : Pending(r, z) /\ z # x => z \in S
    BY Remains
  <1>2. y \in {"clients", "code", "addmethod", "addclient", "done"} /\ "notify" \in S
    BY <1>1 DEF Follows
  <1>3. ASSUME NEW s, NEW z, NEW T, Work(s, z, T), "notify" \in T
        PROVE  z \in T /\ z \notin {"done", "code", "addclient"}
    <2>1. /\ Shape(s) /\ s # <<>> /\ Head(s) = z /\ \A t : Has(s, t) <=> t \in T
      BY <1>3 DEF Work
    <2>2. /\ Has(s, z)
          /\ \A t : Has(s, t) /\ t # z => ~NoMore(z, t)
          /\ z = "done" => \A t : Has(s, t) <=> t = "done"
      BY <2>1, FirstAndRest
    <2> QED
      BY <1>3, <2>1, <2>2 DEF NoMore, Tells
  <1>4. y \in S /\ y \in {"clients", "addmethod"}
    BY <1>1, <1>2, <1>3
  <1>5. y # "addmethod"
    <2> SUFFICES ASSUME y = "addmethod"
                 PROVE  FALSE
      OBVIOUS
    <2> DEFINE t == Tail(todo[r])
    <2>1. Work(t, "addmethod", S) /\ S \subseteq Steps
      BY <1>1
    <2> HIDE DEF t
    <2>2. PICK z, T : /\ Work(Tail(t), z, T) /\ Follows("addmethod", z)
                      /\ \A u \in S : u # "addmethod" => u \in T
      BY <2>1, RemainsAfter
    <2>3. z = "done" /\ "notify" \in T
      BY <1>2, <2>2 DEF Follows
    <2> QED
      BY <1>3, <2>2, <2>3
  <1> QED
    BY <1>1, <1>4, <1>5

\* How a request gets to where it has read the clients and goes on to delete the
\* session, and how it keeps what it has to tell until it does.
Ahead(r) ==
    /\ Leaving(r)' => sid'[r] = sid[r] /\ (Leaving(r) \/ ReadClients(r))
    /\ Leaving(r) /\ Leaving(r)' /\ Pending(r, "notify") =>
          Notify(r) \/ (names'[r] = names[r] /\ Pending(r, "notify")')
    /\ Pending(r, "notify") /\ ~Pending(r, "clients") /\ ~Pending(r, "check") =>
          \/ Notify(r)
          \/ /\ sid'[r] = sid[r] /\ names'[r] = names[r]
             /\ Pending(r, "notify")' /\ ~Pending(r, "clients")' /\ ~Pending(r, "check")'

\* A step of the work.
LEMMA PassAhead ==
    ASSUME Shapes, todo \in [Request -> Seq(Steps)], NEW r \in Request,
           NEW x, At(r, x), x # "done", Continue(r),
           x = "clients" => ReadClients(r), x = "notify" => Notify(r),
           x # "clients" => names'[r] = names[r], x # "new" => sid'[r] = sid[r]
    PROVE  Ahead(r)
  <1>1. /\ \A z : Pending(r, z)' => Pending(r, z) /\ ~NoMore(x, z)
        /\ \A z : Pending(r, z) /\ z # x => Pending(r, z)'
    BY Continues DEF Passed
  <1>2. Pending(r, x)
    BY AtPending
  <1>3. x = "new" => /\ ~Pending(r, "notify") /\ ~Pending(r, "clients")
                     /\ ~Pending(r, "del") /\ ~Pending(r, "purge")
    BY AtPending DEF NoMore, Tells
  <1>4. Leaving(r)' => sid'[r] = sid[r] /\ (Leaving(r) \/ ReadClients(r))
    BY <1>1, <1>3 DEF Leaving
  <1>5. Leaving(r) /\ Pending(r, "notify") => Notify(r) \/ (names'[r] = names[r] /\ Pending(r, "notify")')
    BY <1>1, <1>2 DEF Leaving
  <1>6. Pending(r, "notify") /\ ~Pending(r, "clients") /\ ~Pending(r, "check") =>
          \/ Notify(r)
          \/ /\ sid'[r] = sid[r] /\ names'[r] = names[r]
             /\ Pending(r, "notify")' /\ ~Pending(r, "clients")' /\ ~Pending(r, "check")'
    BY <1>1, <1>2, <1>3
  <1> QED
    BY <1>4, <1>5, <1>6 DEF Ahead

\* A change of plans that leaves nobody to be told who has not been read.
LEMMA NewAhead ==
    ASSUME NEW r \in Request, Pending(r, "notify") => Pending(r, "clients"),
           \/ ~Pending(r, "del")' /\ ~Pending(r, "purge")'
           \/ Pending(r, "clients")'
           \/ /\ sid'[r] = sid[r] /\ ~Pending(r, "clients")
              /\ Pending(r, "del") \/ Pending(r, "purge")
    PROVE  Ahead(r)
  BY DEF Ahead, Leaving

\* Every step of a request.
LEMMA StepAhead ==
    ASSUME TypeOK, Shapes, NEW r \in Request, Step(r) \/ Arrive(r)
    PROVE  Ahead(r)
  <1>1. Records /\ todo \in [Request -> Seq(Steps)]
    BY DEF TypeOK, Records
  <1> USE DEF locals
  <1>2. CASE Get(r)
    <2>1. At(r, "get") /\ sid' = sid /\ names' = names
      BY <1>2 DEF Get
    <2>2. Pending(r, "notify") => Pending(r, "clients")
      BY <2>1, AtPending
    <2>3. CASE Continue(r)
      BY <1>1, <2>1, <2>3, PassAhead
    <2>4. CASE ~Continue(r)
      <3>1. /\ \A z \in {"del", "purge"} : Pending(r, z)' => Pending(r, z)
            /\ Pending(r, "clients") => Pending(r, "clients")'
        <4>1. CASE todo' = [todo EXCEPT ![r] = Tail(Tail(@))]
          BY <1>1, <2>1, <4>1, Misses
        <4>2. CASE todo' = [todo EXCEPT ![r] = <<"check", "retire", "unlist", "forget">> \o Tail(Tail(@))]
          <5>1. \A z : Pending(r, z)' => z \in {"check", "retire", "unlist", "forget"} \/ Pending(r, z)
            BY <1>1, <2>1, <4>2, Outlives
          <5>2. \A z : Pending(r, z) /\ z \notin {"get", "touch"} => Pending(r, z)'
            BY <1>1, <2>1, <4>2, Outlives
          <5> QED
            BY <5>1, <5>2
        <4> QED
          BY <1>2, <2>4, <4>1, <4>2 DEF Get
      <3> QED
        BY <2>1, <2>2, <3>1, NewAhead
    <2> QED
      BY <2>3, <2>4
  <1>3. CASE Touch(r)
    <2>1. At(r, "touch") /\ sid' = sid /\ names' = names
      BY <1>3 DEF Touch
    <2>2. CASE Continue(r)
      BY <1>1, <2>1, <2>2, PassAhead
    <2>3. CASE Call(r, <<"seen">>)
      <3>1. \A z : Pending(r, z)' => z = "seen" \/ Pending(r, z)
        BY <1>1, <2>1, <2>3, Seen
      <3>2. \A z : Pending(r, z) /\ z # "touch" => Pending(r, z)'
        BY <1>1, <2>1, <2>3, Seen
      <3> QED
        BY <2>1, <3>1, <3>2 DEF Ahead, Leaving
    <2> QED
      BY <1>3, <2>2, <2>3 DEF Touch
  <1>4. CASE Check(r)
    <2>1. At(r, "check") /\ Pending(r, "check") /\ sid' = sid
      BY <1>4, AtPending DEF Check
    <2>2. CASE Continue(r) /\ names' = names
      BY <1>1, <2>1, <2>2, PassAhead
    <2>3. CASE todo' = [todo EXCEPT ![r] = Tail(Tail(Tail(@)))]
      <3>1. /\ \A z : Pending(r, z)' => Pending(r, z)
            /\ \A z : Pending(r, z) /\ z \notin {"check", "purge", "retire", "unlist"} => Pending(r, z)'
            /\ ~Pending(r, "purge")'
            /\ Pending(r, "del")' /\ Pending(r, "notify")' => Pending(r, "clients")'
        BY <1>1, <2>1, <2>3, Fails
      <3> QED
        BY <2>1, <3>1 DEF Ahead, Leaving
    <2> QED
      BY <1>4, <2>2, <2>3 DEF Check
  <1>5. CASE Tidy(r)
    <2>1. /\ At(r, "tidy") /\ ~Pending(r, "notify") /\ ~Pending(r, "del") /\ ~Pending(r, "purge")
          /\ names' = names
      BY <1>5, AtPending DEF Tidy, NoMore, Lists, Tells
    <2>2. CASE Continue(r) /\ sid' = sid
      BY <1>1, <2>1, <2>2, PassAhead
    <2>3. CASE todo' = todo
      <3>1. \A z : Pending(r, z)' <=> Pending(r, z)
        BY <2>3, Others
      <3> QED
        BY <2>1, <3>1, NewAhead
    <2>4. CASE todo' = [todo EXCEPT ![r] = <<"check", "retire", "unlist">> \o @]
      <3>1. \A z : Pending(r, z)' <=> z \in {"check", "retire", "unlist"} \/ Pending(r, z)
        BY <1>1, <2>1, <2>4, Outdated
      <3> QED
        BY <2>1, <3>1, NewAhead
    <2> QED
      BY <1>5, <2>2, <2>3, <2>4 DEF Tidy
  <1>6. CASE EndNext(r)
    <2>1. At(r, "endnext") /\ ~Pending(r, "notify") /\ names' = names
      BY <1>6, AtPending DEF EndNext
    <2>2. CASE Continue(r) /\ sid' = sid
      BY <1>1, <2>1, <2>2, PassAhead
    <2>3. CASE todo' = [todo EXCEPT ![r] = <<"clients", "notify">> \o DeleteByPublicId \o @]
      <3>1. \A z : Pending(r, z)' <=>
               z \in {"clients", "notify", "check", "purge", "unlist", "endnext", "done"}
        BY <1>1, <2>1, <2>3, EndsOne
      <3>2. Pending(r, "clients")'
        BY <3>1
      <3> QED
        BY <2>1, <3>2, NewAhead
    <2> QED
      BY <1>6, <2>2, <2>3 DEF EndNext
  <1>7. ASSUME NEW x \in {"signedin", "addmethod", "code", "login"}, At(r, x), Return(r)
        PROVE  Ahead(r)
    <2>1. Pending(r, "notify") => Pending(r, "clients")
      BY <1>1, <1>7, TellsAfter
    <2>2. \A z : Pending(r, z)' <=> z = "done"
      BY <1>1, <1>7, Returns
    <2>3. ~Pending(r, "del")' /\ ~Pending(r, "purge")'
      BY <2>2
    <2> QED
      BY <2>1, <2>3, NewAhead
  <1>8. CASE SignedInOnly(r)
    BY <1>1, <1>7, <1>8, PassAhead DEF SignedInOnly
  <1>9. CASE IssueCode(r)
    BY <1>1, <1>7, <1>9, PassAhead DEF IssueCode
  <1>10. CASE Rejected(r)
    BY <1>7, <1>10 DEF Rejected
  <1>11. CASE SignIn(r)
    <2>1. At(r, "login") /\ ~Pending(r, "notify")
      BY <1>11, AtPending DEF SignIn
    <2>2. (~Pending(r, "del")' /\ ~Pending(r, "purge")') \/ Pending(r, "clients")'
      <3>1. CASE Call(r, CreateSession)
        <4>1. \A z : Pending(r, z)' <=> z \in {"new", "save", "sadd", "indexttl", "done"}
          BY <1>1, <2>1, <3>1, SignsIn
        <4> QED
          BY <4>1
      <3>2. CASE Call(r, <<"reauth">>)
        <4>1. \A z : Pending(r, z)' <=> z \in {"reauth", "done"}
          BY <1>1, <2>1, <3>2, SignsIn
        <4> QED
          BY <4>1
      <3>3. CASE Call(r, EndSession \o CreateSession)
        <4>1. \A z : Pending(r, z)' <=>
                 z \in {"clients", "notify", "get", "touch", "del", "srem",
                        "new", "save", "sadd", "indexttl", "done"}
          BY <1>1, <2>1, <3>3, SignsIn
        <4> QED
          BY <4>1
      <3> QED
        BY <1>11, <3>1, <3>2, <3>3 DEF SignIn
    <2> QED
      BY <2>1, <2>2, NewAhead
  <1>12. CASE Done(r)
    <2>1. ~Pending(r, "notify")
      BY <1>12, AtPending DEF Done
    <2>2. \A z : ~Pending(r, z)'
      BY <1>1, <1>12, Finishes DEF Done
    <2> QED
      BY <2>1, <2>2, NewAhead
  <1>13. CASE Arrive(r)
    <2>1. PICK s, x, S : Arrival(r, s, x, S)
      BY <1>13, Arrivals
    <2>2. ~Pending(r, "notify") /\ (Pending(r, "del")' \/ Pending(r, "purge")' => Pending(r, "clients")')
      BY <2>1, AtPending DEF Arrival
    <2> QED
      BY <2>2, NewAhead
  <1>14. CASE ReadClients(r)
    BY <1>1, <1>14, PassAhead DEF ReadClients
  <1>15. CASE Notify(r)
    BY <1>1, <1>15, PassAhead DEF Notify
  <1>16. CASE NewSession(r)
    BY <1>1, <1>16, PassAhead DEF NewSession
  <1>17. CASE Forget(r) \/ SaveSeen(r) \/ Unindex(r) \/ Unlist(r) \/ ReadIndex(r) \/ ReadSessions(r)
    BY <1>1, <1>17, PassAhead DEF Forget, SaveSeen, Unindex, Unlist, ReadIndex, ReadSessions
  <1>18. CASE AddClient(r) \/ ExtendClients(r) \/ AddMethod(r) \/ Reauthenticate(r) \/ SaveNew(r)
    BY <1>1, <1>18, PassAhead DEF AddClient, ExtendClients, AddMethod, Reauthenticate, SaveNew
  <1>19. CASE Index(r) \/ ExtendIndex(r) \/ Del(r) \/ Retire(r)
    BY <1>1, <1>19, PassAhead DEF Index, ExtendIndex, Del, Retire
  <1> QED
    BY <1>2, <1>3, <1>4, <1>5, <1>6, <1>8, <1>9, <1>10, <1>11, <1>12, <1>13, <1>14, <1>15,
       <1>16, <1>17, <1>18, <1>19 DEF Step

\* What a step writes on the record of who is owed and who is on record.
Ledger(r) ==
    /\ excused \subseteq excused'
    /\ \A s, c : <<s, c>> \in owed' =>
          <<s, c>> \in owed \/ (IssueCode(r) /\ Continue(r) /\ s = sid[r] /\ c = arg[r])
    /\ \A s \in Session : \A c \in clients'[s].members :
          c \in clients[s].members \/ (AddClient(r) /\ s = sid[r] /\ c = arg[r])
    /\ \A s \in Session : \A c \in clients[s].members :
          \/ c \in clients'[s].members
          \/ s = sid[r] /\ (Del(r) \/ <<s, c>> \in excused')
    /\ Notify(r) => owed' = owed \ ({sid[r]} \X names[r])
    /\ AddClient(r) /\ (sid[r] \in broken \/ TooLateToTell(r, sid[r])) =>
          <<sid[r], arg[r]>> \in excused'

\* Every step keeps the record.
LEMMA Ledgers ==
    ASSUME TypeOK, Shapes, InPlace, NEW r \in Request, Step(r) \/ Arrive(r)
    PROVE  Ledger(r)
  <1>1. /\ clients \in [Session -> RedisSet(Client)] /\ sid \in [Request -> Session \cup {None}]
    BY DEF TypeOK
  <1>2. /\ \A key, x : Added(key, x).members = key.members \cup {x}
        /\ \A key : Extended(key).members = key.members
    BY DEF Added, Extended
  <1>3. CASE /\ UNCHANGED <<clients, owed, excused>>
             /\ ~Notify(r) /\ ~AddClient(r)
    BY <1>3 DEF Ledger
  <1>4. CASE Del(r)
    <2>1. \A s \in Session : s # sid[r] => clients'[s] = clients[s]
      BY <1>1, <1>4 DEF Del, DeleteKeys
    <2>2. \A s \in Session : s = sid[r] => clients'[s].members = {}
      BY <1>1, <1>4 DEF Del, DeleteKeys, NoKey
    <2>3. UNCHANGED <<owed, excused>>
      BY <1>4 DEF Del
    <2>4. ~Notify(r) /\ ~AddClient(r)
      <3>1. At(r, "del") \/ At(r, "purge")
        BY <1>4 DEF Del
      <3> QED
        BY <3>1, AtPending, Guards
    <2> QED
      BY <1>4, <2>1, <2>2, <2>3, <2>4 DEF Ledger
  <1>5. CASE Retire(r)
    <2>1. \A s \in Session : s # sid[r] => clients'[s] = clients[s]
      BY <1>1, <1>5 DEF Retire, DeleteKeys
    <2>2. \A s \in Session : s = sid[r] => clients'[s].members = {}
      BY <1>1, <1>5 DEF Retire, DeleteKeys, NoKey
    <2>3. /\ owed' = owed /\ excused \subseteq excused'
          /\ \A c \in clients[sid[r]].members : <<sid[r], c>> \in excused'
      BY <1>5 DEF Retire
    <2>4. ~Notify(r) /\ ~AddClient(r)
      <3>1. At(r, "retire")
        BY <1>5 DEF Retire
      <3> QED
        BY <3>1, AtPending, Guards
    <2> QED
      BY <1>5, <2>1, <2>2, <2>3, <2>4 DEF Ledger
  <1>6. CASE Notify(r)
    <2>1. owed' = owed \ ({sid[r]} \X names[r]) /\ UNCHANGED <<clients, excused>>
      BY <1>6 DEF Notify, redis
    <2>2. ~AddClient(r)
      BY <1>6, AtPending, Guards
    <2> QED
      BY <2>1, <2>2 DEF Ledger
  <1>7. CASE IssueCode(r)
    <2>1. UNCHANGED <<clients, excused>>
      BY <1>7 DEF IssueCode, redis
    <2>2. \/ owed' = owed
          \/ Continue(r) /\ owed' = owed \cup {<<sid[r], arg[r]>>}
      BY <1>7 DEF IssueCode
    <2>3. ~Notify(r) /\ ~AddClient(r)
      BY <1>7, AtPending, Guards
    <2> QED
      BY <1>7, <2>1, <2>2, <2>3 DEF Ledger
  <1>8. CASE AddClient(r)
    <2>1. sid[r] \in Session
      BY <1>8, InHandIsThere DEF AddClient, NeedsSid
    <2>2. clients' = [clients EXCEPT ![sid[r]] = Added(@, arg[r])]
      BY <1>8 DEF AddClient
    <2>3. clients'[sid[r]].members = clients[sid[r]].members \cup {arg[r]}
      BY <1>1, <1>2, <2>1, <2>2
    <2>4. \A s \in Session : s # sid[r] => clients'[s] = clients[s]
      BY <1>1, <2>2
    <2>5. /\ owed' = owed /\ excused \subseteq excused'
          /\ sid[r] \in broken \/ TooLateToTell(r, sid[r]) => <<sid[r], arg[r]>> \in excused'
      BY <1>8 DEF AddClient
    <2>6. ~Notify(r)
      BY <1>8, AtPending, Guards
    <2> QED
      BY <1>8, <2>3, <2>4, <2>5, <2>6 DEF Ledger
  <1>9. CASE ExtendClients(r)
    <2>1. clients' = [clients EXCEPT ![sid[r]] = Extended(@)] /\ UNCHANGED <<owed, excused>>
      BY <1>9 DEF ExtendClients, history
    <2>2. \A s \in Session : clients'[s] = clients[s] \/ clients'[s] = Extended(clients[s])
      BY <1>1, <2>1
    <2>3. \A s \in Session : clients'[s].members = clients[s].members
      BY <1>2, <2>2
    <2>4. ~Notify(r) /\ ~AddClient(r)
      BY <1>9, AtPending, Guards
    <2> QED
      BY <2>1, <2>3, <2>4 DEF Ledger
  <1>10. CASE ~Del(r) /\ ~Retire(r) /\ ~Notify(r) /\ ~IssueCode(r) /\ ~AddClient(r) /\ ~ExtendClients(r)
    <2>1. Arrive(r) => UNCHANGED <<clients, owed, excused>>
      BY DEF Arrive, Login, Authorize, StepUp, Logout, RevokeSession, ListSessions,
         EndAllSessions, Start, redis, history
    <2>2. UNCHANGED <<clients, owed, excused>>
      BY <1>10, <2>1
         DEF Step, Get, Forget, Touch, SaveSeen, Unindex, Check, Unlist, ReadClients,
             ReadIndex, ReadSessions, Tidy, EndNext, SignedInOnly, Rejected, AddMethod, SignIn,
             Reauthenticate, NewSession, SaveNew, Index, ExtendIndex, Done, redis, history
    <2> QED
      BY <1>3, <1>10, <2>2
  <1> QED
    BY <1>4, <1>5, <1>6, <1>7, <1>8, <1>9, <1>10

\* Who is owed stays on the way to being told.
LEMMA OwedKept ==
    ASSUME TypeOK, Shapes, InPlace, Owing, NEW r \in Request, Step(r) \/ Arrive(r),
           NEW s \in Session, NEW c \in Client, <<s, c>> \in owed, <<s, c>> \in owed' \ excused'
    PROVE  Recording(s, c)' \/ c \in clients'[s].members \/ Telling(s, c)'
  <1>1. Ledger(r) /\ Ahead(r) /\ Alone(r)
    BY Ledgers, StepAhead, OneAtATime
  <1>2. <<s, c>> \in owed \ excused
    BY <1>1 DEF Ledger
  <1>3. ASSUME NEW q \in Request \ {r}
        PROVE  /\ \A x : At(q, x)' <=> At(q, x)
               /\ \A x : Pending(q, x)' <=> Pending(q, x)
               /\ sid'[q] = sid[q] /\ arg'[q] = arg[q] /\ names'[q] = names[q]
    BY <1>1, OthersStill DEF Still
  <1>4. ASSUME NEW q \in Request, At(q, "addclient"), sid[q] = s, arg[q] = c
        PROVE  Recording(s, c)' \/ c \in clients'[s].members
    <2>1. CASE q # r
      BY <1>3, <1>4, <2>1 DEF Recording
    <2>2. CASE q = r
      <3>1. AddClient(r)
        <4>1. \A x : At(r, x) => x = "addclient"
          BY <1>4, <2>2, AtPending
        <4>2. todo[r] # <<>>
          BY <1>4, <2>2 DEF At
        <4> QED
          BY <4>1, <4>2, Guards DEF Step
      <3>2. clients' = [clients EXCEPT ![s] = Added(@, c)]
        BY <1>4, <2>2, <3>1 DEF AddClient
      <3>3. clients'[s] = Added(clients[s], c)
        BY <3>2 DEF TypeOK
      <3> QED
        BY <3>3 DEF Added
    <2> QED
      BY <2>1, <2>2
  <1>5. ASSUME NEW q \in Request, sid[q] = s, c \in names[q],
               Pending(q, "notify"), ~Pending(q, "clients"), ~Pending(q, "check")
        PROVE  Telling(s, c)'
    <2>1. CASE q # r
      BY <1>3, <1>5, <2>1 DEF Telling
    <2>2. CASE q = r
      <3>1. ~Notify(r)
        BY <1>1, <1>5, <2>2 DEF Ledger
      <3>2. /\ sid'[r] = sid[r] /\ names'[r] = names[r]
            /\ Pending(r, "notify")' /\ ~Pending(r, "clients")' /\ ~Pending(r, "check")'
        BY <1>1, <1>5, <2>2, <3>1 DEF Ahead
      <3> QED
        BY <1>5, <2>2, <3>2 DEF Telling
    <2> QED
      BY <2>1, <2>2
  <1>6. ASSUME c \in clients[s].members, c \notin clients'[s].members
        PROVE  Recording(s, c)' \/ Telling(s, c)'
    <2>1. Del(r) /\ s = sid[r]
      BY <1>1, <1>6 DEF Ledger
    <2>2. PICK x \in {"del", "purge"} : At(r, x) /\ Continue(r)
      BY <2>1 DEF Del
    <2>3. /\ Leaving(r) /\ (x = "del" => ~Pending(r, "notify"))
          /\ \A y : At(r, y) => y = x
      <3>1. Pending(r, x) /\ \A y : Pending(r, y) /\ y # x => ~NoMore(x, y)
        BY <2>2, AtPending
      <3>2. ~Pending(r, "clients")
        BY <3>1 DEF NoMore
      <3>3. x = "del" => ~Pending(r, "notify")
        BY <3>1 DEF NoMore
      <3> QED
        BY <2>2, <3>1, <3>2, <3>3, AtPending DEF Leaving
    <2>4. Recording(s, c) \/ (c \in names[r] /\ Pending(r, "notify"))
      BY <1>2, <1>6, <2>1, <2>3 DEF Owing
    <2>5. CASE Recording(s, c)
      BY <1>4, <1>6, <2>5 DEF Recording
    <2>6. CASE c \in names[r] /\ Pending(r, "notify")
      <3>1. x = "purge" /\ Passed(r, "purge")
        BY <2>2, <2>3, <2>6, Continues DEF TypeOK
      <3>2. /\ Pending(r, "notify")' /\ ~Pending(r, "clients")' /\ ~Pending(r, "check")'
        BY <2>6, <3>1 DEF Passed, NoMore
      <3>3. sid'[r] = s /\ c \in names'[r]
        BY <2>1, <2>6 DEF Del, locals
      <3> QED
        BY <3>2, <3>3 DEF Telling
    <2> QED
      BY <2>4, <2>5, <2>6
  <1>7. Recording(s, c) \/ c \in clients[s].members \/ Telling(s, c)
    BY <1>2 DEF Owing
  <1>8. Recording(s, c) => Recording(s, c)' \/ c \in clients'[s].members
    BY <1>4 DEF Recording
  <1>9. Telling(s, c) => Telling(s, c)'
    BY <1>5 DEF Telling
  <1> QED
    BY <1>6, <1>7, <1>8, <1>9

\* Who deletes the record will tell it.
LEMMA LeaversTell ==
    ASSUME TypeOK, Shapes, InPlace, Owing, NEW r \in Request, Step(r) \/ Arrive(r),
           NEW s \in Session, NEW c \in Client, <<s, c>> \in owed, <<s, c>> \in owed' \ excused',
           NEW q \in Request, sid'[q] = s, Leaving(q)', c \in clients'[s].members
    PROVE  Recording(s, c)' \/ (c \in names'[q] /\ Pending(q, "notify")')
  <1>1. Ledger(r) /\ Ahead(r) /\ Alone(r)
    BY Ledgers, StepAhead, OneAtATime
  <1>2. <<s, c>> \in owed \ excused
    BY <1>1 DEF Ledger
  <1>3. ASSUME NEW p \in Request \ {r}
        PROVE  /\ \A x : At(p, x)' <=> At(p, x)
               /\ \A x : Pending(p, x)' <=> Pending(p, x)
               /\ sid'[p] = sid[p] /\ arg'[p] = arg[p] /\ names'[p] = names[p]
    BY <1>1, OthersStill DEF Still
  <1>4. ASSUME AddClient(r), sid[r] = s, arg[r] = c
        PROVE  ~Leaving(q)'
    <2>1. CASE q = r
      <3>1. At(r, "addclient") /\ Passed(r, "addclient")
        BY <1>4, Continues DEF AddClient, TypeOK
      <3>2. ~Pending(r, "del")' /\ ~Pending(r, "purge")'
        BY <3>1 DEF Passed, NoMore, Tells
      <3> QED
        BY <2>1, <3>2 DEF Leaving
    <2>2. CASE q # r
      <3>1. ~TooLateToTell(r, s)
        BY <1>1, <1>4 DEF Ledger
      <3>2. sid[q] = s
        BY <1>3, <2>2
      <3>3. ~Leaving(q)
        BY <2>2, <3>1, <3>2 DEF TooLateToTell, Leaving
      <3> QED
        BY <1>3, <2>2, <3>3 DEF Leaving
    <2> QED
      BY <2>1, <2>2
  <1>5. c \in clients[s].members
    BY <1>1, <1>4 DEF Ledger
  <1>6. Recording(s, c) => Recording(s, c)'
    <2> SUFFICES ASSUME NEW p \in Request, At(p, "addclient"), sid[p] = s, arg[p] = c
                 PROVE  Recording(s, c)'
      BY DEF Recording
    <2>1. p # r
      <3> SUFFICES ASSUME p = r
                   PROVE  FALSE
        OBVIOUS
      <3>1. \A x : At(r, x) => x = "addclient"
        BY AtPending
      <3>2. todo[r] # <<>>
        BY DEF At
      <3>3. AddClient(r)
        BY <3>1, <3>2, Guards DEF Step
      <3> QED
        BY <1>4, <3>3
    <2> QED
      BY <1>3, <2>1 DEF Recording
  <1>7. CASE sid[q] = s /\ Leaving(q)
    <2>1. Recording(s, c) \/ (c \in names[q] /\ Pending(q, "notify"))
      BY <1>2, <1>5, <1>7 DEF Owing
    <2>2. ASSUME c \in names[q], Pending(q, "notify")
          PROVE  c \in names'[q] /\ Pending(q, "notify")'
      <3>1. CASE q # r
        BY <1>3, <2>2, <3>1
      <3>2. CASE q = r
        <4>1. ~Notify(r)
          BY <1>1, <1>7, <2>2, <3>2 DEF Ledger
        <4> QED
          BY <1>1, <1>7, <2>2, <3>2, <4>1 DEF Ahead
      <3> QED
        BY <3>1, <3>2
    <2> QED
      BY <1>6, <2>1, <2>2
  <1>8. CASE q # r
    <2>1. sid[q] = s /\ Leaving(q)
      BY <1>3, <1>8 DEF Leaving
    <2> QED
      BY <1>7, <2>1
  <1>9. CASE q = r /\ ~(sid[q] = s /\ Leaving(q))
    <2>1. ReadClients(r) /\ sid[r] = s
      BY <1>1, <1>9 DEF Ahead
    <2>2. At(r, "clients") /\ Continue(r) /\ names'[r] = clients[s].members
      BY <2>1 DEF ReadClients, TypeOK
    <2>3. Pending(r, "notify")'
      <3>1. Pending(r, "notify") /\ Passed(r, "clients")
        BY <2>2, AtPending, Continues DEF TypeOK
      <3> QED
        BY <3>1 DEF Passed
    <2> QED
      BY <1>5, <1>9, <2>2, <2>3
  <1> QED
    BY <1>7, <1>8, <1>9

\* What is owed is paid or excused, at every step.
LEMMA OwingKept ==
    ASSUME TypeOK, Shapes, InPlace, Owing, [Next]_vars
    PROVE  Owing'
  <1>1. ASSUME NEW r \in Request, Step(r) \/ Arrive(r)
        PROVE  Owing'
    <2>1. Ledger(r)
      BY <1>1, Ledgers
    <2>2. ASSUME NEW s \in ended', NEW c \in clients'[s].members
          PROVE  <<s, c>> \in excused'
      <3>1. CASE s \in ended
        <4>1. s \in Session /\ s \in broken
          BY <3>1 DEF TypeOK
        <4>2. CASE c \in clients[s].members
          BY <2>1, <3>1, <4>2 DEF Ledger, Owing
        <4>3. CASE AddClient(r) /\ s = sid[r] /\ c = arg[r]
          BY <2>1, <4>1, <4>3 DEF Ledger
        <4> QED
          BY <2>1, <2>2, <4>1, <4>2, <4>3 DEF Ledger
      <3>2. CASE s \notin ended
        <4>1. Del(r) /\ s = sid[r]
          BY <1>1, <3>2, SignedOut
        <4>2. s \in Session
          BY <4>1, InHandIsThere DEF Del, NeedsSid
        <4>3. clients'[s].members = {}
          BY <4>1, <4>2 DEF Del, DeleteKeys, NoKey, TypeOK
        <4> QED
          BY <2>2, <4>3
      <3> QED
        BY <3>1, <3>2
    <2>3. ASSUME NEW s \in Session, NEW c \in Client, <<s, c>> \in owed' \ excused', <<s, c>> \notin owed
          PROVE  Recording(s, c)'
      <3>1. IssueCode(r) /\ Continue(r) /\ s = sid[r] /\ c = arg[r]
        BY <2>1, <2>3 DEF Ledger
      <3>2. At(r, "code") /\ sid' = sid /\ arg' = arg
        BY <3>1 DEF IssueCode, locals
      <3>3. Passed(r, "code")
        BY <3>1, <3>2, Continues DEF TypeOK
      <3>4. At(r, "addclient")'
        BY <3>3 DEF Passed, Follows
      <3> QED
        BY <3>1, <3>2, <3>4 DEF Recording
    <2>4. ASSUME NEW s \in Session, NEW c \in Client, <<s, c>> \in owed' \ excused'
          PROVE  /\ Recording(s, c)' \/ c \in clients'[s].members \/ Telling(s, c)'
                 /\ \A q \in Request : sid'[q] = s /\ Leaving(q)' /\ c \in clients'[s].members =>
                       Recording(s, c)' \/ (c \in names'[q] /\ Pending(q, "notify")')
      BY <1>1, <2>3, <2>4, OwedKept, LeaversTell
    <2> QED
      BY <2>2, <2>4 DEF Owing
  <1>2. CASE Tick
    <2>1. UNCHANGED <<todo, sid, arg, names, owed, ended>> /\ excused \subseteq excused'
      BY <1>2 DEF Tick, locals
    <2>2. \A s \in Session : \/ clients'[s] = clients[s]
                             \/ /\ clients'[s].members = {}
                                /\ \A c \in Client : c \in clients[s].members => <<s, c>> \in excused'
      BY <1>2 DEF Tick, NoKey
    <2>3. ASSUME NEW s \in ended', NEW c \in clients'[s].members
          PROVE  <<s, c>> \in excused'
      BY <2>1, <2>2, <2>3 DEF Owing, TypeOK
    <2>4. ASSUME NEW s \in Session, NEW c \in Client
          PROVE  /\ Recording(s, c)' <=> Recording(s, c)
                 /\ Telling(s, c)' <=> Telling(s, c)
                 /\ \A q \in Request : /\ Leaving(q)' <=> Leaving(q)
                                       /\ Pending(q, "notify")' <=> Pending(q, "notify")
      BY <2>1 DEF Recording, Telling, Leaving, At, Pending
    <2>5. ASSUME NEW s \in Session, NEW c \in Client, <<s, c>> \in owed' \ excused'
          PROVE  /\ Recording(s, c)' \/ c \in clients'[s].members \/ Telling(s, c)'
                 /\ \A q \in Request : sid'[q] = s /\ Leaving(q)' /\ c \in clients'[s].members =>
                       Recording(s, c)' \/ (c \in names'[q] /\ Pending(q, "notify")')
      <3>1. <<s, c>> \in owed \ excused
        BY <2>1, <2>5
      <3>2. c \in clients[s].members <=> c \in clients'[s].members
        BY <2>2, <2>5
      <3> QED
        BY <2>1, <2>4, <3>1, <3>2 DEF Owing
    <2> QED
      BY <2>3, <2>5 DEF Owing
  <1>3. CASE UNCHANGED vars
    BY SMTT(60), <1>3 DEF Owing, Recording, Telling, Leaving, At, Pending, vars, redis, locals, history
  <1> QED
    BY <1>1, <1>2, <1>3 DEF Next

-----------------------------------------------------------------------------
(* The theorems.                                                           *)

\* The inductive invariant.
IInv ==
    /\ TypeOK /\ Shapes /\ InPlace
    /\ Generated /\ Earnings /\ OnePerson
    /\ Listing /\ Out /\ Ending /\ Owing

\* Nothing has happened yet.
LEMMA Begins == Init => IInv
  <1> SUFFICES ASSUME Init
               PROVE  IInv
    OBVIOUS
  <1>1. TypeOK
    <2>1. now \in Time /\ 0 \in Deadline /\ Never \in Deadline
      <3>1. 0 \in Time
        BY LimitsAssumption DEF Time
      <3> QED
        BY <3>1, Deadlines DEF Init
    <2>2. /\ store \in [Session -> Stored \cup {None}] /\ cookie \in [Session -> Deadline]
          /\ clients \in [Session -> RedisSet(Client)] /\ index \in [User -> RedisSet(Session)]
      BY <2>1 DEF Init, RedisSet, NoKey
    <2>3. \A r \in Request : <<>> \in Seq(Steps)
      OBVIOUS
    <2> QED
      BY <2>1, <2>2, <2>3 DEF Init, TypeOK
  <1>2. \A r \in Request : /\ todo[r] = <<>> /\ sid[r] = None /\ login[r] = None
                           /\ found[r] = {} /\ stale[r] = {} /\ missing[r] = {} /\ due[r] = {}
    BY DEF Init
  <1>3. \A r \in Request : \A x : ~At(r, x) /\ ~Pending(r, x)
    BY <1>2 DEF At, Pending
  <1>4. Shapes
    <2>1. Shape(<<>>)
      BY DEF Shape, Chain
    <2> QED
      BY <1>2, <2>1 DEF Shapes
  <1>5. InPlace
    BY <1>2, <1>3 DEF InPlace, Ready
  <1>6. Generated
    BY <1>2, NamesAssumption DEF Generated, Init, NoKey
  <1>7. Earnings /\ OnePerson
    BY <1>2 DEF Earnings, OnePerson, Init
  <1>8. Listing
    BY <1>2, <1>3 DEF Listing, Finds, Init, NoKey
  <1>9. Out /\ Ending
    BY <1>2 DEF Out, Ending, Ends, Init
  <1>10. Owing
    BY DEF Owing, Init
  <1> QED
    BY <1>1, <1>4, <1>5, <1>6, <1>7, <1>8, <1>9, <1>10 DEF IInv

\* It is an invariant.
LEMMA Invariant == Spec => []IInv
  <1>1. IInv /\ [Next]_vars => IInv'
    BY Sound, GeneratedKept, EarningsKept, OnePersonKept, ListingKept, OutKept, EndingKept,
       OwingKept DEF IInv
  <1> QED
    BY Begins, <1>1, PTL DEF Spec

\* The assurance a session claims was earned: its password was given at the time it
\* says and every factor since then, in whatever order the requests that hold copies
\* of it save them (reauthenticate, add_method, get).
THEOREM EarnedTheorem == Spec => []StoredMethodsWerePerformed
  <1>1. IInv => StoredMethodsWerePerformed
    BY DEF IInv, Earnings, Earned, StoredMethodsWerePerformed
  <1> QED
    BY Invariant, <1>1, PTL

\* Until it ends or its user's index expires, a session that a browser was given is
\* there and in its user's index (create, list_for_user).
THEOREM ListedTheorem == Spec => []ListedUntilLapse
  <1>1. IInv => ListedUntilLapse
    BY DEF IInv, Listing, Listed, Named, ListedUntilLapse
  <1> QED
    BY Invariant, <1>1, PTL

\* When end_all_sessions is about to answer, every session it found the user had when
\* it began has ended, but for the one to keep.
THEOREM EndAllTheorem == Spec => []EndAllEndsAll
  <1>1. IInv => EndAllEndsAll
    <2> SUFFICES ASSUME IInv, NEW r \in Request, At(r, "done")
                 PROVE  due[r] \subseteq broken
      BY DEF EndAllEndsAll
    <2>1. ~Pending(r, "endnext")
      BY AtPending DEF IInv
    <2> QED
      BY <2>1 DEF IInv, Ending, Ends
  <1> QED
    BY Invariant, <1>1, PTL

\* A session that was signed out is only stored again if some other request had it in
\* hand at that moment (delete, _save).
THEOREM OutTheorem == Spec => []SignedOutStaysOut
  <1>1. IInv => SignedOutStaysOut
    BY DEF IInv, Out, SignedOutStaysOut
  <1> QED
    BY Invariant, <1>1, PTL

\* Once a session has been signed out and nobody works on it, every client it issued a
\* code to has been told, but for those recorded too late or forgotten (end_session).
THEOREM ToldTheorem == Spec => []ReachedClientsAreTold
  <1>1. IInv => ReachedClientsAreTold
    <2> SUFFICES ASSUME IInv, NEW s \in ended, NEW c \in Client, Quiet(s), <<s, c>> \in owed,
                        <<s, c>> \notin excused
                 PROVE  FALSE
      BY DEF ReachedClientsAreTold
    <2>1. s \in Session
      BY DEF IInv, TypeOK
    <2>2. Recording(s, c) \/ c \in clients[s].members \/ Telling(s, c)
      BY <2>1 DEF IInv, Owing
    <2>3. c \notin clients[s].members
      BY DEF IInv, Owing
    <2>4. \A r \in Request : sid[r] = s => todo[r] = <<>>
      BY DEF Quiet
    <2>5. \A r \in Request : sid[r] = s => ~At(r, "addclient") /\ ~Pending(r, "notify")
      BY <2>4 DEF At, Pending
    <2> QED
      BY <2>2, <2>3, <2>5 DEF Recording, Telling
  <1> QED
    BY Invariant, <1>1, PTL
=============================================================================
