---------------------------- MODULE SettingsProof ----------------------------
(***************************************************************************)
(* What is proved of the settings and their caches, for every number of    *)
(* request threads and of saves and for every mix of operations: nothing   *)
(* is missing when a step needs it, a read that starts after a save was    *)
(* answered sees that save, and the current store is never older.          *)
(*                                                                         *)
(* The argument follows the order of the stores.  What is read through a   *)
(* store was loaded after the store became current, and a Settings object  *)
(* is filled only through the store that was current when it was looked    *)
(* at, or through a newer one.                                             *)
(***************************************************************************)
EXTENDS SettingsStore, SequenceTheorems, TLAPS

(***************************************************************************)
(* What is left to do in a request, as a sequence of steps.                *)
(***************************************************************************)
Sources == {"load", "take"}
Needs == {"note", "keep", "save"}

\* Step y may come after step x in a request of kind op.
InOrder(op, x, y) ==
    /\ x \notin {"see", "answer"}
    /\ y \notin {"load", "sight"}
    /\ y = "keep" => x \in {"load", "flag", "note"}
    /\ y = "renew" => x \notin {"renew", "show"}
    /\ y = "show" => x # "show"
    /\ y = "save" => x \notin {"save", "renew"}
    /\ y = "put" => x # "put"
    /\ y = "hold" /\ op = "read" => x = "sight"
    /\ x \in {"merged", "section", "copy"} => y \notin Needs

Sorted(op, s) == \A i, j \in DOMAIN s : i < j => InOrder(op, s[i], s[j])

\* Settings are there, or got, before a step that needs them.
Backed(s) ==
    \A j \in DOMAIN s : s[j] \in Needs => \E i \in DOMAIN s : i < j /\ s[i] \in Sources

\* Of the steps R that are left, none is left without those that follow it,
\* and none is another operation's.
Whole(op, R) ==
    /\ op # "read" => {"sight", "put", "see"} \cap R = {}
    /\ op = "read" => {"renew", "show"} \cap R = {}
    /\ op = "read" /\ "sight" \in R => "hold" \in R /\ "put" \in R
    /\ op = "read" /\ R # {} => "see" \in R
    /\ op = "patch" /\ "save" \in R => "renew" \in R
    /\ "renew" \in R => "show" \in R

Holds(t, x) == x \in Range(t.todo)

Shape(t) ==
    /\ Sorted(t.op, t.todo)
    /\ Whole(t.op, Range(t.todo))
    /\ t.got = None => Backed(t.todo)
    /\ t.op = "read" /\ Holds(t, "hold") => t.got = None

(***************************************************************************)
(* What a store and a Settings object still get to hold.                   *)
(***************************************************************************)
\* t has read the rows and will put them into the cache of its store.
InFlight(t) == Holds(t, "keep") /\ ~Holds(t, "load")

\* With the caches k and the threads th, store s holds nothing older than
\* save w and nothing older is on its way.
Floor(k, th, s, w) ==
    /\ k[s] # None => k[s].rows >= w
    /\ \A e \in Threads : th[e].store = s /\ InFlight(th[e]) => th[e].got.rows >= w

\* A reader between looking at the Settings object and filling it.
Filling(t) == t.op = "read" /\ ~Holds(t, "sight") /\ Holds(t, "put")

\* Nothing older than save w is on its way into Settings object v.
Coming(k, th, v, w) ==
    \A e \in Threads : Filling(th[e]) /\ th[e].view = v =>
        /\ ~Holds(th[e], "hold") => Floor(k, th, th[e].store, w)
        /\ th[e].got # None => th[e].got.rows >= w

\* A save that has replaced the store, or published its Settings object.
Renewed(t) == t.op = "patch" /\ ~Holds(t, "renew")
Published(t) == t.op = "patch" /\ ~Holds(t, "show")

\* A thread whose Settings object nobody else has yet.
Hidden(t) == ~Holds(t, "renew") /\ Holds(t, "show")

\* A reader that has looked at the Settings object.
Sighted(t) == t.op = "read" /\ ~Holds(t, "sight")

(***************************************************************************)
(* The inductive invariant.                                                *)
(***************************************************************************)
Typed ==
    /\ rows \in 0..MaxSaves
    /\ key \in 0..MaxKeys
    /\ cache \in [Stores -> Config \cup {None}]
    /\ values \in 0..MaxKeys \cup {None}
    /\ current \in Stores
    /\ raw \in [Stores -> Config \cup {None}]
    /\ shown \in Stores
    /\ thread \in [Threads -> Thread]
    /\ answered \in Saved

Shapes == \A c \in Threads : Shape(thread[c])

\* Nobody speaks of a save that is not there.
Counted ==
    /\ answered.patch <= rows
    /\ \A c \in Threads : thread[c].wrote <= rows /\ thread[c].since.patch <= answered.patch

StoreIsNew ==
    /\ Floor(cache, thread, current, answered.patch)
    /\ \A c \in Threads : Renewed(thread[c]) => Floor(cache, thread, current, thread[c].wrote)

ObjectGetsNew ==
    /\ Coming(cache, thread, shown, answered.patch)
    /\ \A c \in Threads : Published(thread[c]) => Coming(cache, thread, shown, thread[c].wrote)

\* Settings that are not older than save w, if there are any.
NotBefore(g, w) == g # None => g.rows >= w

ReadersSee ==
    \A d \in Threads : Sighted(thread[d]) =>
        /\ Coming(cache, thread, thread[d].view, thread[d].since.patch)
        /\ ~Holds(thread[d], "put") =>
              NotBefore(raw[thread[d].view], thread[d].since.patch)
        /\ ~Holds(thread[d], "see") =>
              NotBefore(thread[d].got, thread[d].since.patch)

HiddenFromOthers ==
    \A c \in Threads : Hidden(thread[c]) =>
        /\ thread[c].view \notin {shown, First}
        /\ \A d \in Threads \ {c} : thread[d].view # thread[c].view

SettingsInv ==
    Typed /\ Shapes /\ Counted /\ StoreIsNew /\ ObjectGetsNew /\ ReadersSee /\ HiddenFromOthers

(***************************************************************************)
(* Lemmas about what is left to do.                                        *)
(***************************************************************************)
\* The first step and the rest.
LEMMA Popped ==
    ASSUME NEW op, NEW s \in Seq(Steps), s # <<>>, Sorted(op, s)
    PROVE  /\ Head(s) \in Steps /\ Tail(s) \in Seq(Steps)
           /\ Range(s) = {Head(s)} \cup Range(Tail(s))
           /\ Sorted(op, Tail(s))
           /\ \A y \in Range(Tail(s)) : InOrder(op, Head(s), y)
           /\ Backed(s) => Head(s) \notin Needs
           /\ Backed(s) /\ Head(s) \notin Sources => Backed(Tail(s))
<1> DEFINE n == Len(s)
<1> DEFINE t == Tail(s)
<1>1. /\ n \in Nat /\ n >= 1 /\ DOMAIN s = 1..n /\ s \in [1..n -> Steps]
      /\ Head(s) = s[1] /\ Head(s) \in Steps
  BY LenProperties
<1>2. t \in Seq(Steps) /\ DOMAIN t = 1..(n - 1) /\ \A i \in 1..(n - 1) : t[i] = s[i + 1]
  <2>1. t \in Seq(Steps) /\ Len(t) = n - 1 /\ \A i \in 1..Len(t) : t[i] = s[i + 1]
    BY HeadTailProperties
  <2>2. QED
    BY <2>1, LenProperties
<1> HIDE DEF n, t
<1>3. Range(s) = {Head(s)} \cup Range(t)
  <2>1. ASSUME NEW i \in 1..n PROVE s[i] \in {Head(s)} \cup Range(t)
    <3>1. CASE i = 1
      BY <1>1, <3>1
    <3>2. CASE i # 1
      <4>1. i - 1 \in 1..(n - 1) /\ (i - 1) + 1 = i
        BY <1>1, <3>2
      <4>2. t[i - 1] = s[i]
        BY <1>2, <4>1
      <4>3. QED
        BY <1>2, <4>1, <4>2 DEF Range
    <3>3. QED
      BY <3>1, <3>2
  <2>2. Range(s) \subseteq {Head(s)} \cup Range(t)
    BY <1>1, <2>1 DEF Range
  <2>3. ASSUME NEW i \in 1..(n - 1) PROVE t[i] \in Range(s)
    <3>1. i + 1 \in DOMAIN s /\ t[i] = s[i + 1]
      BY <1>1, <1>2
    <3>2. QED
      BY <3>1 DEF Range
  <2>4. Range(t) \subseteq Range(s)
    BY <1>2, <2>3 DEF Range
  <2>5. Head(s) \in Range(s)
    BY <1>1 DEF Range
  <2>6. QED
    BY <2>2, <2>4, <2>5
<1>4. Sorted(op, t)
  <2>1. ASSUME NEW i \in 1..(n - 1), NEW j \in 1..(n - 1), i < j PROVE InOrder(op, t[i], t[j])
    <3>1. i + 1 \in 1..n /\ j + 1 \in 1..n /\ i + 1 < j + 1
      BY <1>1, <2>1
    <3>2. InOrder(op, s[i + 1], s[j + 1])
      BY <1>1, <3>1 DEF Sorted
    <3>3. QED
      BY <1>2, <3>2
  <2>2. QED
    BY <1>2, <2>1 DEF Sorted
<1>5. ASSUME NEW y \in Range(t) PROVE InOrder(op, Head(s), y)
  <2>1. PICK i \in 1..(n - 1) : t[i] = y
    BY <1>2 DEF Range
  <2>2. i + 1 \in 1..n /\ 1 \in 1..n /\ 1 < i + 1
    BY <1>1
  <2>3. InOrder(op, s[1], s[i + 1])
    BY <1>1, <2>2 DEF Sorted
  <2>4. QED
    BY <1>1, <1>2, <2>1, <2>3
<1>6. Backed(s) => Head(s) \notin Needs
  BY <1>1 DEF Backed
<1>7. ASSUME Backed(s), Head(s) \notin Sources PROVE Backed(t)
  <2>1. ASSUME NEW j \in 1..(n - 1), t[j] \in Needs
        PROVE  \E i \in 1..(n - 1) : i < j /\ t[i] \in Sources
    <3>1. j + 1 \in 1..n /\ s[j + 1] \in Needs
      BY <1>1, <1>2, <2>1
    <3>2. PICK i \in 1..n : i < j + 1 /\ s[i] \in Sources
      BY <1>1, <1>7, <3>1 DEF Backed
    <3>3. i # 1
      BY <1>1, <1>7, <3>2
    <3>4. i - 1 \in 1..(n - 1) /\ i - 1 < j /\ (i - 1) + 1 = i
      BY <1>1, <3>2, <3>3
    <3>5. t[i - 1] = s[i]
      BY <1>2, <3>4
    <3>6. QED
      BY <3>2, <3>4, <3>5
  <2>2. QED
    BY <1>2, <2>1 DEF Backed
<1>8. QED
  BY <1>1, <1>2, <1>3, <1>4, <1>5, <1>6, <1>7 DEF t

\* One list of steps before another.
LEMMA Followed ==
    ASSUME NEW op, NEW a \in Seq(Steps), NEW s \in Seq(Steps), Sorted(op, a), Sorted(op, s),
           \A x \in Range(a), y \in Range(s) : InOrder(op, x, y)
    PROVE  /\ a \o s \in Seq(Steps) /\ Sorted(op, a \o s) /\ Range(a \o s) = Range(a) \cup Range(s)
           /\ Backed(a) /\ (Backed(s) \/ \E x \in Range(a) : x \in Sources) => Backed(a \o s)
<1> DEFINE n == Len(a)
<1> DEFINE k == Len(s)
<1>1. n \in Nat /\ k \in Nat /\ DOMAIN a = 1..n /\ DOMAIN s = 1..k
  BY LenProperties
<1> HIDE DEF n, k
<1>2. /\ a \o s \in Seq(Steps) /\ DOMAIN (a \o s) = 1..(n + k)
      /\ \A i \in 1..(n + k) : (a \o s)[i] = IF i <= n THEN a[i] ELSE s[i - n]
  <2>1. a \o s \in Seq(Steps) /\ Len(a \o s) = n + k
        /\ \A i \in 1..(n + k) : (a \o s)[i] = IF i <= n THEN a[i] ELSE s[i - n]
    BY ConcatProperties DEF n, k
  <2>2. QED
    BY <2>1, LenProperties
<1>3. ASSUME NEW i \in 1..(n + k)
      PROVE  \/ i <= n /\ i \in DOMAIN a /\ (a \o s)[i] = a[i]
             \/ i > n /\ i - n \in DOMAIN s /\ (a \o s)[i] = s[i - n]
  <2>1. CASE i <= n
    BY <1>1, <1>2, <2>1
  <2>2. CASE i > n
    BY <1>1, <1>2, <2>2
  <2>3. QED
    BY <1>1, <2>1, <2>2
<1>4. \A i \in DOMAIN a : i \in 1..(n + k) /\ (a \o s)[i] = a[i]
  BY <1>1, <1>2
<1>5. ASSUME NEW i \in DOMAIN s PROVE n + i \in 1..(n + k) /\ (a \o s)[n + i] = s[i]
  <2>1. n + i \in 1..(n + k) /\ ~(n + i <= n) /\ (n + i) - n = i
    BY <1>1
  <2>2. QED
    BY <1>2, <2>1
<1>6. Sorted(op, a \o s)
  <2>1. ASSUME NEW i \in 1..(n + k), NEW j \in 1..(n + k), i < j
        PROVE  InOrder(op, (a \o s)[i], (a \o s)[j])
    <3>1. CASE j <= n
      <4>1. i \in DOMAIN a /\ j \in DOMAIN a /\ (a \o s)[i] = a[i] /\ (a \o s)[j] = a[j]
        BY <1>1, <1>3, <2>1, <3>1
      <4>2. QED
        BY <2>1, <4>1 DEF Sorted
    <3>2. CASE i > n
      <4>1. /\ i - n \in DOMAIN s /\ j - n \in DOMAIN s /\ i - n < j - n
            /\ (a \o s)[i] = s[i - n] /\ (a \o s)[j] = s[j - n]
        BY <1>1, <1>3, <2>1, <3>2
      <4>2. QED
        BY <4>1 DEF Sorted
    <3>3. CASE i <= n /\ j > n
      <4>1. i \in DOMAIN a /\ (a \o s)[i] = a[i] /\ j - n \in DOMAIN s /\ (a \o s)[j] = s[j - n]
        BY <1>1, <1>3, <3>3
      <4>2. a[i] \in Range(a) /\ s[j - n] \in Range(s)
        BY <4>1 DEF Range
      <4>3. QED
        BY <4>1, <4>2
    <3>4. QED
      BY <1>1, <2>1, <3>1, <3>2, <3>3
  <2>2. QED
    BY <1>2, <2>1 DEF Sorted
<1>7. Range(a \o s) = Range(a) \cup Range(s)
  <2>1. Range(a \o s) \subseteq Range(a) \cup Range(s)
    BY <1>2, <1>3 DEF Range
  <2>2. Range(a) \subseteq Range(a \o s)
    BY <1>2, <1>4 DEF Range
  <2>3. ASSUME NEW x \in Range(s) PROVE x \in Range(a \o s)
    <3>1. PICK i \in DOMAIN s : x = s[i]
      BY DEF Range
    <3>2. QED
      BY <1>2, <1>5, <3>1 DEF Range
  <2>4. QED
    BY <2>1, <2>2, <2>3
<1>8. ASSUME Backed(a), Backed(s) \/ \E x \in Range(a) : x \in Sources PROVE Backed(a \o s)
  <2>1. ASSUME NEW j \in 1..(n + k), (a \o s)[j] \in Needs
        PROVE  \E i \in 1..(n + k) : i < j /\ (a \o s)[i] \in Sources
    <3>1. CASE j <= n
      <4>1. j \in DOMAIN a /\ a[j] \in Needs
        BY <1>1, <1>3, <2>1, <3>1
      <4>2. PICK i \in DOMAIN a : i < j /\ a[i] \in Sources
        BY <1>8, <4>1 DEF Backed
      <4>3. QED
        BY <1>4, <4>2
    <3>2. CASE j > n
      <4>1. j - n \in DOMAIN s /\ s[j - n] \in Needs
        BY <1>1, <1>3, <2>1, <3>2
      <4>2. CASE Backed(s)
        <5>1. PICK i \in DOMAIN s : i < j - n /\ s[i] \in Sources
          BY <4>1, <4>2 DEF Backed
        <5>2. n + i \in 1..(n + k) /\ (a \o s)[n + i] = s[i] /\ n + i < j
          BY <1>1, <1>5, <5>1
        <5>3. QED
          BY <5>1, <5>2
      <4>3. CASE \E x \in Range(a) : x \in Sources
        <5>1. PICK i \in DOMAIN a : a[i] \in Sources
          BY <4>3 DEF Range
        <5>2. i < j
          BY <1>1, <3>2
        <5>3. QED
          BY <1>4, <5>1, <5>2
      <4>4. QED
        BY <1>8, <4>2, <4>3
    <3>3. QED
      BY <1>1, <3>1, <3>2
  <2>2. QED
    BY <1>2, <2>1 DEF Backed
<1>9. QED
  BY <1>2, <1>6, <1>7, <1>8
(***************************************************************************)
(* The programs.                                                           *)
(***************************************************************************)
\* A list given by its steps is in order when each pair is.
LEMMA RebuildSteps ==
    ASSUME NEW op
    PROVE  /\ Rebuild \in Seq(Steps) /\ Sorted(op, Rebuild) /\ Backed(Rebuild)
           /\ Range(Rebuild) = {"load", "flag", "note", "keep"}
<1>1. Rebuild \in Seq(Steps) /\ DOMAIN Rebuild = 1..4
      /\ Rebuild[1] = "load" /\ Rebuild[2] = "flag" /\ Rebuild[3] = "note" /\ Rebuild[4] = "keep"
  BY DEF Rebuild, Steps
<1> HIDE DEF Rebuild
<1>2. Sorted(op, Rebuild)
  BY <1>1 DEF Sorted, InOrder
<1>3. Backed(Rebuild)
  BY <1>1 DEF Backed, Needs, Sources
<1>4. Range(Rebuild) = {"load", "flag", "note", "keep"}
  BY <1>1 DEF Range
<1>5. QED
  BY <1>1, <1>2, <1>3, <1>4

LEMMA OneStep ==
    ASSUME NEW op, NEW x \in {"take", "copy"}
    PROVE  /\ <<x>> \in Seq(Steps) /\ Sorted(op, <<x>>) /\ Backed(<<x>>)
           /\ Range(<<x>>) = {x}
<1> DEFINE one == <<x>>
<1>1. one \in Seq(Steps) /\ DOMAIN one = {1} /\ one[1] = x
  BY DEF Steps
<1> HIDE DEF one
<1>2. Sorted(op, one) /\ Backed(one) /\ Range(one) = {x}
  BY <1>1 DEF Sorted, Backed, Needs, Range
<1>3. QED
  BY <1>1, <1>2 DEF one

\* What a step that needs the settings is replaced by.
Detours == {<<"take">>, <<"copy">>, Rebuild, Rebuild \o <<"take">>}

LEMMA DetourSteps ==
    ASSUME NEW op, NEW a \in Detours
    PROVE  /\ a \in Seq(Steps) /\ Sorted(op, a) /\ Backed(a)
           /\ Range(a) \subseteq {"load", "flag", "note", "keep", "take", "copy"}
           /\ "keep" \in Range(a) => "load" \in Range(a)
<1> DEFINE one == <<"take">>
<1> DEFINE other == <<"copy">>
<1>1. /\ one \in Seq(Steps) /\ Sorted(op, one) /\ Backed(one) /\ Range(one) = {"take"}
      /\ other \in Seq(Steps) /\ Sorted(op, other) /\ Backed(other) /\ Range(other) = {"copy"}
  BY OneStep
<1> HIDE DEF one, other
<1>2. /\ Rebuild \in Seq(Steps) /\ Sorted(op, Rebuild) /\ Backed(Rebuild)
      /\ Range(Rebuild) = {"load", "flag", "note", "keep"}
  BY RebuildSteps
<1>3. \A x \in Range(Rebuild), y \in Range(one) : InOrder(op, x, y)
  BY <1>1, <1>2 DEF InOrder
<1>4. /\ Rebuild \o one \in Seq(Steps) /\ Sorted(op, Rebuild \o one)
      /\ Range(Rebuild \o one) = Range(Rebuild) \cup Range(one)
      /\ Backed(Rebuild \o one)
  BY <1>1, <1>2, <1>3, Followed
<1>5. a = one \/ a = other \/ a = Rebuild \/ a = Rebuild \o one
  BY DEF Detours, one, other
<1>6. QED
  BY <1>1, <1>2, <1>4, <1>5

\* The steps of a detour come before those that were left.
Behind(op, h, s) == \A y \in Range(s) : InOrder(op, h, y)
Joins(op, a, s, r) ==
    /\ r \in Seq(Steps) /\ Sorted(op, r) /\ (Backed(s) => Backed(r))
    /\ Range(r) = Range(a) \cup Range(s)

LEMMA Detoured ==
    ASSUME NEW op, NEW a \in Detours, NEW s \in Seq(Steps), Sorted(op, s),
           NEW h \in {"merged", "section"}, Behind(op, h, s)
    PROVE  Joins(op, a, s, a \o s)
<1>1. /\ a \in Seq(Steps) /\ Sorted(op, a) /\ Backed(a)
      /\ Range(a) \subseteq {"load", "flag", "note", "keep", "take", "copy"}
  BY DetourSteps
<1>2. ASSUME NEW x \in Range(a), NEW y \in Range(s) PROVE InOrder(op, x, y)
  <2>1. InOrder(op, h, y) /\ x \in {"load", "flag", "note", "keep", "take", "copy"}
    BY <1>1 DEF Behind
  <2>2. QED
    BY <2>1 DEF InOrder
<1>3. QED
  BY <1>1, <1>2, Followed DEF Joins

\* The steps of an update and of a reload.
LEMMA UpdateSteps ==
    ASSUME NEW op
    PROVE  /\ Update \in Seq(Steps) /\ Sorted(op, Update) /\ Backed(Update)
           /\ Range(Update) = {"load", "flag", "note", "keep", "take", "save", "drop", "section"}
<1> DEFINE rest == <<"take", "save", "drop", "section">>
<1>1. rest \in Seq(Steps) /\ DOMAIN rest = 1..4
      /\ rest[1] = "take" /\ rest[2] = "save" /\ rest[3] = "drop" /\ rest[4] = "section"
  BY DEF Steps
<1>2. Update = Rebuild \o rest
  BY DEF Update
<1> HIDE DEF rest
<1>3. Sorted(op, rest) /\ Range(rest) = {"take", "save", "drop", "section"}
  BY <1>1 DEF Sorted, InOrder, Range
<1>4. /\ Rebuild \in Seq(Steps) /\ Sorted(op, Rebuild) /\ Backed(Rebuild)
      /\ Range(Rebuild) = {"load", "flag", "note", "keep"}
  BY RebuildSteps
<1>5. \A x \in Range(Rebuild), y \in Range(rest) : InOrder(op, x, y)
  BY <1>3, <1>4 DEF InOrder
<1>6. \E x \in Range(Rebuild) : x \in Sources
  BY <1>4 DEF Sources
<1>7. /\ Rebuild \o rest \in Seq(Steps) /\ Sorted(op, Rebuild \o rest) /\ Backed(Rebuild \o rest)
      /\ Range(Rebuild \o rest) = Range(Rebuild) \cup Range(rest)
  BY <1>1, <1>3, <1>4, <1>5, <1>6, Followed
<1>8. QED
  BY <1>2, <1>3, <1>4, <1>7

LEMMA RenewalSteps ==
    ASSUME NEW op, op # "read"
    PROVE  /\ Renewal \in Seq(Steps) /\ Sorted(op, Renewal) /\ Backed(Renewal)
           /\ Range(Renewal) = {"renew", "hold", "merged", "show", "drop", "answer"}
<1>1. Renewal \in Seq(Steps) /\ DOMAIN Renewal = 1..6
      /\ Renewal[1] = "renew" /\ Renewal[2] = "hold" /\ Renewal[3] = "merged"
      /\ Renewal[4] = "show" /\ Renewal[5] = "drop" /\ Renewal[6] = "answer"
  BY DEF Renewal, Steps
<1> HIDE DEF Renewal
<1>2. Sorted(op, Renewal)
  BY <1>1 DEF Sorted, InOrder, Needs
<1>3. Backed(Renewal)
  BY <1>1 DEF Backed, Needs, Sources
<1>4. Range(Renewal) = {"renew", "hold", "merged", "show", "drop", "answer"}
  BY <1>1 DEF Range
<1>5. QED
  BY <1>1, <1>2, <1>3, <1>4

LEMMA ReadSteps ==
    /\ Read \in Seq(Steps) /\ Sorted("read", Read) /\ Backed(Read)
    /\ Range(Read) = {"sight", "hold", "merged", "put", "see"}
<1>1. Read \in Seq(Steps) /\ DOMAIN Read = 1..5
      /\ Read[1] = "sight" /\ Read[2] = "hold" /\ Read[3] = "merged" /\ Read[4] = "put" /\ Read[5] = "see"
  BY DEF Read, Steps
<1> HIDE DEF Read
<1>2. Sorted("read", Read)
  BY <1>1 DEF Sorted, InOrder, Needs
<1>3. Backed(Read)
  BY <1>1 DEF Backed, Needs, Sources
<1>4. Range(Read) = {"sight", "hold", "merged", "put", "see"}
  BY <1>1 DEF Range
<1>5. QED
  BY <1>1, <1>2, <1>3, <1>4

\* Every program is in order and whole.
LEMMA Programs ==
    ASSUME NEW op \in Ops
    PROVE  /\ Program(op) \in Seq(Steps) /\ Sorted(op, Program(op)) /\ Backed(Program(op))
           /\ Whole(op, Range(Program(op)))
           /\ op = "read" => "sight" \in Range(Program(op)) /\ "see" \in Range(Program(op))
           /\ op = "patch" => "renew" \in Range(Program(op)) /\ "show" \in Range(Program(op))
           /\ "show" \in Range(Program(op)) => "renew" \in Range(Program(op))
           /\ "keep" \in Range(Program(op)) => "load" \in Range(Program(op))
<1>1. op \in {"read", "form", "patch", "generate", "key"}
  BY SettingsConstants
<1>2. CASE op = "read"
  <2>1. Program(op) = Read
    BY <1>2 DEF Program
  <2>2. QED
    BY <1>2, <2>1, ReadSteps DEF Whole
<1>3. CASE op = "form"
  <2> DEFINE one == <<"merged">>
  <2>1. Program(op) = one
    BY <1>3 DEF Program
  <2>2. one \in Seq(Steps) /\ DOMAIN one = {1} /\ one[1] = "merged"
    BY DEF Steps
  <2> HIDE DEF one
  <2>3. Sorted(op, one) /\ Backed(one) /\ Range(one) = {"merged"}
    BY <2>2 DEF Sorted, Backed, Needs, Range
  <2>4. QED
    BY <1>3, <2>1, <2>2, <2>3 DEF Whole
<1>4. CASE op = "patch"
  <2>1. Program(op) = Update \o Renewal
    BY <1>4 DEF Program
  <2>2. /\ Update \in Seq(Steps) /\ Sorted(op, Update) /\ Backed(Update)
        /\ Range(Update) = {"load", "flag", "note", "keep", "take", "save", "drop", "section"}
    BY UpdateSteps
  <2>3. /\ Renewal \in Seq(Steps) /\ Sorted(op, Renewal) /\ Backed(Renewal)
        /\ Range(Renewal) = {"renew", "hold", "merged", "show", "drop", "answer"}
    BY <1>4, RenewalSteps
  <2>4. \A x \in Range(Update), y \in Range(Renewal) : InOrder(op, x, y)
    BY <1>4, <2>2, <2>3 DEF InOrder, Needs
  <2>5. /\ Update \o Renewal \in Seq(Steps) /\ Sorted(op, Update \o Renewal)
        /\ Backed(Update \o Renewal)
        /\ Range(Update \o Renewal) = Range(Update) \cup Range(Renewal)
    BY <2>2, <2>3, <2>4, Followed
  <2>6. QED
    BY <1>4, <2>1, <2>2, <2>3, <2>5 DEF Whole
<1>5. CASE op = "generate"
  <2> DEFINE one == <<"answer">>
  <2>1. Program(op) = Update \o one
    BY <1>5 DEF Program
  <2>2. one \in Seq(Steps) /\ DOMAIN one = {1} /\ one[1] = "answer"
    BY DEF Steps
  <2> HIDE DEF one
  <2>3. Sorted(op, one) /\ Backed(one) /\ Range(one) = {"answer"}
    BY <2>2 DEF Sorted, Backed, Needs, Range
  <2>4. /\ Update \in Seq(Steps) /\ Sorted(op, Update) /\ Backed(Update)
        /\ Range(Update) = {"load", "flag", "note", "keep", "take", "save", "drop", "section"}
    BY UpdateSteps
  <2>5. \A x \in Range(Update), y \in Range(one) : InOrder(op, x, y)
    BY <2>3, <2>4 DEF InOrder, Needs
  <2>6. /\ Update \o one \in Seq(Steps) /\ Sorted(op, Update \o one)
        /\ Backed(Update \o one)
        /\ Range(Update \o one) = Range(Update) \cup Range(one)
    BY <2>2, <2>3, <2>4, <2>5, Followed
  <2>7. /\ Program(op) \in Seq(Steps) /\ Sorted(op, Program(op)) /\ Backed(Program(op))
        /\ Range(Program(op)) = {"load", "flag", "note", "keep", "take", "save", "drop", "section", "answer"}
    BY <2>1, <2>3, <2>4, <2>6
  <2>8. QED
    BY <1>5, <2>7 DEF Whole
<1>6. CASE op = "key"
  <2> DEFINE first == <<"savekey", "forget", "hold", "drop">>
  <2>1. Program(op) = first \o Renewal
    BY <1>6 DEF Program
  <2>2. first \in Seq(Steps) /\ DOMAIN first = 1..4
        /\ first[1] = "savekey" /\ first[2] = "forget" /\ first[3] = "hold" /\ first[4] = "drop"
    BY DEF Steps
  <2> HIDE DEF first
  <2>3. Sorted(op, first) /\ Backed(first) /\ Range(first) = {"savekey", "forget", "hold", "drop"}
    BY <1>6, <2>2 DEF Sorted, InOrder, Backed, Needs, Range
  <2>4. /\ Renewal \in Seq(Steps) /\ Sorted(op, Renewal) /\ Backed(Renewal)
        /\ Range(Renewal) = {"renew", "hold", "merged", "show", "drop", "answer"}
    BY <1>6, RenewalSteps
  <2>5. \A x \in Range(first), y \in Range(Renewal) : InOrder(op, x, y)
    BY <1>6, <2>3, <2>4 DEF InOrder
  <2>6. /\ first \o Renewal \in Seq(Steps) /\ Sorted(op, first \o Renewal)
        /\ Backed(first \o Renewal)
        /\ Range(first \o Renewal) = Range(first) \cup Range(Renewal)
    BY <2>2, <2>3, <2>4, <2>5, Followed
  <2>7. /\ Program(op) \in Seq(Steps) /\ Sorted(op, Program(op)) /\ Backed(Program(op))
        /\ Range(Program(op)) = {"savekey", "forget", "hold", "drop", "renew", "merged", "show", "answer"}
    BY <2>1, <2>3, <2>4, <2>6
  <2>8. QED
    BY <1>6, <2>7 DEF Whole
<1>7. QED
  BY <1>1, <1>2, <1>3, <1>4, <1>5, <1>6
(***************************************************************************)
(* One thread moves.                                                       *)
(***************************************************************************)
\* The fields of a thread.
LEMMA ThreadOf ==
    ASSUME NEW t \in Thread
    PROVE  /\ t.op \in Ops \cup {None} /\ t.todo \in Seq(Steps) /\ t.store \in Stores /\ t.view \in Stores
           /\ t.got \in Config \cup {None} /\ t.secret \in 0..MaxKeys /\ t.wrote \in 0..MaxSaves
           /\ t.wrotekey \in 0..MaxKeys /\ t.since \in Saved
BY DEF Thread

\* Settings are not the value that stands for none.
LEMMA SomeConfig == ASSUME NEW g \in Config PROVE g # None /\ g.rows \in 0..MaxSaves /\ g.key \in 0..MaxKeys
BY SettingsConstants DEF Config

LEMMA NobodyIs ==
    /\ Nobody \in Thread /\ Shape(Nobody)
    /\ Nobody.op = None /\ Nobody.got = None /\ Nobody.view = First /\ Nobody.wrote = 0
    /\ Nobody.since = [patch |-> 0, any |-> 0, key |-> 0] /\ Nobody.todo = <<>> /\ Nobody.store = First
    /\ \A x : ~Holds(Nobody, x)
    /\ None \notin {"read", "patch"}
<1>1. 0 \in 0..MaxSaves /\ 0 \in 0..MaxKeys /\ First \in Stores /\ None \notin {"read", "patch"}
  BY SettingsConstants
<1>2. [patch |-> 0, any |-> 0, key |-> 0] \in Saved
  BY <1>1 DEF Saved
<1>3. /\ Nobody.op = None /\ Nobody.got = None /\ Nobody.view = First /\ Nobody.wrote = 0
      /\ Nobody.since = [patch |-> 0, any |-> 0, key |-> 0] /\ Nobody.todo = <<>> /\ Nobody.store = First
      /\ Nobody \in Thread
  BY <1>1, <1>2 DEF Nobody, Thread
<1>4. DOMAIN Nobody.todo = {} /\ Range(Nobody.todo) = {}
  BY <1>3 DEF Range
<1>5. Shape(Nobody)
  BY <1>3, <1>4 DEF Shape, Sorted, Whole, Backed, Holds
<1>6. QED
  BY <1>1, <1>3, <1>4, <1>5 DEF Holds

\* A thread u with the first of its steps done.
Rest(u) == [u EXCEPT !.todo = Tail(@)]

\* A thread does its step and goes on.
LEMMA Moved ==
    ASSUME NEW was \in Thread, Shape(was), NEW step, was.todo # <<>>, Head(was.todo) = step,
           NEW u \in Thread, u.todo = was.todo, u.op = was.op,
           u.got # None \/ (u.got = was.got /\ step \notin Sources) \/ step \in {"copy", "see"},
           step = "sight" => u.got = was.got
    PROVE  /\ Rest(u) \in Thread /\ Shape(Rest(u))
           /\ Rest(u).op = was.op /\ Rest(u).store = u.store /\ Rest(u).view = u.view
           /\ Rest(u).got = u.got /\ Rest(u).wrote = u.wrote /\ Rest(u).since = u.since
           /\ \A x : Holds(was, x) <=> x = step \/ Holds(Rest(u), x)
           /\ \A y : Holds(Rest(u), y) => InOrder(was.op, step, y)
           /\ step \in Needs => was.got # None
<1> DEFINE s == was.todo
<1> DEFINE t == Rest(u)
<1>1. s \in Seq(Steps) /\ s # <<>> /\ Sorted(was.op, s) /\ Whole(was.op, Range(s))
      /\ (was.got = None => Backed(s))
  BY ThreadOf DEF Shape
<1>0. t = [u EXCEPT !.todo = Tail(@)]
  BY DEF Rest
<1> HIDE DEF s, t
<1>2. /\ Head(s) \in Steps /\ Tail(s) \in Seq(Steps)
      /\ Range(s) = {Head(s)} \cup Range(Tail(s))
      /\ Sorted(was.op, Tail(s))
      /\ \A y \in Range(Tail(s)) : InOrder(was.op, Head(s), y)
      /\ Backed(s) => Head(s) \notin Needs
      /\ Backed(s) /\ Head(s) \notin Sources => Backed(Tail(s))
  BY <1>1, Popped
<1>3. /\ t \in Thread /\ t.op = was.op /\ t.store = u.store /\ t.view = u.view /\ t.got = u.got
      /\ t.wrote = u.wrote /\ t.since = u.since /\ t.todo = Tail(s)
  BY <1>0, <1>2 DEF Thread, s
<1>4. Head(s) = step /\ \A x : Holds(was, x) <=> x \in Range(s)
  BY DEF Holds, s
<1>5. Whole(was.op, Range(t.todo))
  <2>1. ASSUME NEW y \in Range(t.todo) PROVE InOrder(was.op, step, y)
    BY <1>2, <1>3, <1>4
  <2>2. Range(s) = {step} \cup Range(t.todo)
    BY <1>2, <1>3, <1>4
  <2>3. QED
    BY <1>1, <2>1, <2>2 DEF Whole, InOrder
<1>6. t.got = None => Backed(t.todo)
  <2>1. CASE step \in {"copy", "see"}
    <3>1. \A y \in Range(Tail(s)) : y \notin Needs
      BY <1>2, <1>4, <2>1 DEF InOrder
    <3>2. QED
      BY <1>3, <3>1 DEF Backed, Range
  <2>2. CASE step \notin {"copy", "see"}
    BY <1>1, <1>2, <1>3, <1>4, <2>2
  <2>3. QED
    BY <2>1, <2>2
<1>7. t.op = "read" /\ Holds(t, "hold") => t.got = None
  <2>1. SUFFICES ASSUME t.op = "read", Holds(t, "hold") PROVE t.got = None
    OBVIOUS
  <2>2. InOrder("read", step, "hold") /\ "hold" \in Range(s)
    BY <1>2, <1>3, <1>4, <2>1 DEF Holds
  <2>3. step = "sight"
    BY <2>2 DEF InOrder
  <2>4. was.got = None
    BY <1>3, <1>4, <2>1, <2>2 DEF Shape
  <2>5. QED
    BY <1>3, <2>3, <2>4
<1>8. QED
  BY <1>1, <1>2, <1>3, <1>4, <1>5, <1>6, <1>7 DEF Shape, Holds, t

\* A thread does first what its step turned out to need.
MovesVia(was, a, t) == t = [was EXCEPT !.todo = a \o Tail(@)]

LEMMA MovedVia ==
    ASSUME NEW was \in Thread, Shape(was), NEW step \in {"merged", "section"},
           was.todo # <<>>, Head(was.todo) = step, NEW a \in Detours,
           NEW t, MovesVia(was, a, t)
    PROVE  /\ t \in Thread /\ Shape(t)
           /\ t.op = was.op /\ t.store = was.store /\ t.view = was.view /\ t.got = was.got
           /\ t.wrote = was.wrote /\ t.since = was.since
           /\ \A x : x \notin {"load", "flag", "note", "keep", "take", "copy", step}
                        => (Holds(was, x) <=> Holds(t, x))
           /\ ~InFlight(t)
<1> DEFINE s == was.todo
<1>1. s \in Seq(Steps) /\ s # <<>> /\ Sorted(was.op, s) /\ Whole(was.op, Range(s))
      /\ (was.got = None => Backed(s))
  BY ThreadOf DEF Shape
<1> HIDE DEF s
<1>2. /\ Tail(s) \in Seq(Steps)
      /\ Range(s) = {Head(s)} \cup Range(Tail(s))
      /\ Sorted(was.op, Tail(s))
      /\ \A y \in Range(Tail(s)) : InOrder(was.op, Head(s), y)
      /\ Backed(s) /\ Head(s) \notin Sources => Backed(Tail(s))
  BY <1>1, Popped
<1>3. Head(s) = step /\ step \notin Sources
  BY DEF s, Sources
<1> DEFINE rest == Tail(s)
<1> DEFINE todo == a \o rest
<1>4. /\ todo \in Seq(Steps) /\ Sorted(was.op, todo) /\ (Backed(rest) => Backed(todo))
      /\ Range(todo) = Range(a) \cup Range(rest)
  <2> DEFINE op == was.op
  <2>1. rest \in Seq(Steps) /\ Sorted(op, rest) /\ Behind(op, step, rest)
    BY <1>2, <1>3 DEF Behind
  <2> HIDE DEF rest, op
  <2>2. Joins(op, a, rest, a \o rest)
    BY <2>1, Detoured
  <2>3. QED
    BY <2>2 DEF op, Joins
<1>5. t = [was EXCEPT !.todo = todo]
  BY DEF s, MovesVia
<1>14. was.got = None => Backed(todo)
  BY <1>1, <1>2, <1>3, <1>4
<1> HIDE DEF todo, rest
<1>6. /\ t \in Thread /\ t.op = was.op /\ t.store = was.store /\ t.view = was.view /\ t.got = was.got
      /\ t.wrote = was.wrote /\ t.since = was.since /\ t.todo = todo
  BY <1>4, <1>5 DEF Thread
<1>7. /\ Range(a) \subseteq {"load", "flag", "note", "keep", "take", "copy"}
      /\ "keep" \in Range(a) => "load" \in Range(a)
  BY DetourSteps
<1>8. Range(s) = {step} \cup Range(rest) /\ \A y \in Range(rest) : InOrder(was.op, step, y)
  BY <1>2, <1>3 DEF rest
<1>9. Whole(was.op, Range(todo))
  <2>1. \A x \in {"sight", "hold", "put", "see", "save", "renew", "show"} : x \in Range(s) <=> x \in Range(todo)
    BY <1>4, <1>7, <1>8
  <2>2. Range(s) # {}
    BY <1>8
  <2>3. QED
    BY <1>1, <2>1, <2>2 DEF Whole
<1>10. \A x : x \notin {"load", "flag", "note", "keep", "take", "copy", step} => (Holds(was, x) <=> Holds(t, x))
  BY <1>4, <1>6, <1>7, <1>8 DEF Holds, s
<1>11. ~InFlight(t)
  <2>1. "keep" \notin Range(rest)
    BY <1>8 DEF InOrder
  <2>2. QED
    BY <1>4, <1>6, <1>7, <2>1 DEF InFlight, Holds
<1>12. t.op = "read" /\ Holds(t, "hold") => t.got = None
  BY <1>6, <1>10 DEF Shape
<1>13. QED
  BY <1>4, <1>6, <1>9, <1>10, <1>11, <1>12, <1>14 DEF Shape
(***************************************************************************)
(* One thread moves, and stores and Settings objects stay as new as they   *)
(* were.                                                                   *)
(***************************************************************************)
\* The caches after a step of a thread that was `was`.
CachesAfter(was) ==
    \/ cache' = cache
    \/ \E s \in Stores : cache' = [cache EXCEPT ![s] = None]
    \/ cache' = [cache EXCEPT ![was.store] = was.got] /\ InFlight(was)

\* What t has on its way it had before, or has just loaded.
FlightAfter(was, t) ==
    InFlight(t) => \/ t.got.rows = rows
                   \/ InFlight(was) /\ t.store = was.store /\ t.got.rows = was.got.rows

\* What a reader will put into its object it had before, or loaded, or took
\* from the store it had looked up; or it has nothing yet.
FillingAfter(was, t) ==
    Filling(t) =>
        \/ Holds(t, "hold") /\ t.got = None
        \/ Filling(was) /\ t.view = was.view /\ t.store = current /\ t.got = None
        \/ /\ Filling(was) /\ t.view = was.view /\ t.store = was.store
           /\ ~Holds(t, "hold") => ~Holds(was, "hold")
           /\ \/ t.got = None
              \/ t.got.rows = rows
              \/ was.got # None /\ t.got.rows = was.got.rows
              \/ t.got = cache[was.store] /\ ~Holds(was, "hold")

Turn(c, t) ==
    /\ thread' = [thread EXCEPT ![c] = t]
    /\ CachesAfter(thread[c])
    /\ FlightAfter(thread[c], t)
    /\ FillingAfter(thread[c], t)

\* What is in flight is there.
LEMMA FlightHasGot ==
    ASSUME Typed, Shapes, NEW c \in Threads, InFlight(thread[c])
    PROVE  thread[c].got \in Config /\ thread[c].got.rows \in 0..MaxSaves
<1> DEFINE t == thread[c]
<1>1. t \in Thread /\ Shape(t)
  BY DEF Typed, Shapes
<1> HIDE DEF t
<1>2. SUFFICES ASSUME Shape(t), InFlight(t), t.got = None PROVE FALSE
  <2>1. CASE t.got # None
    BY <1>1, <2>1, ThreadOf, SomeConfig DEF t
  <2>2. CASE t.got = None
    BY <1>1, <1>2, <2>2 DEF t
  <2>3. QED
    BY <2>1, <2>2
<1> DEFINE s == t.todo
<1>3. s \in Seq(Steps) /\ Backed(s) /\ Sorted(t.op, s) /\ "keep" \in Range(s) /\ "load" \notin Range(s)
  BY <1>1, <1>2, ThreadOf DEF Shape, InFlight, Holds
<1> HIDE DEF s
<1>4. PICK j \in DOMAIN s : s[j] = "keep"
  BY <1>3 DEF Range
<1>5. PICK i \in DOMAIN s : i < j /\ s[i] \in Sources
  BY <1>3, <1>4 DEF Backed, Needs
<1>6. InOrder(t.op, s[i], "keep")
  BY <1>3, <1>4, <1>5 DEF Sorted
<1>7. s[i] = "load"
  BY <1>5, <1>6 DEF InOrder, Sources
<1>8. QED
  BY <1>3, <1>5, <1>7 DEF Range

\* Every store keeps its floor.
LEMMA Floors ==
    ASSUME Typed, Shapes, NEW c \in Threads, NEW t \in Thread, Turn(c, t)
    PROVE  \A s \in Stores, w \in 0..rows :
              Floor(cache, thread, s, w) => Floor(cache', thread', s, w)
<1> DEFINE was == thread[c]
<1>1. /\ was \in Thread /\ rows \in 0..MaxSaves /\ cache \in [Stores -> Config \cup {None}]
      /\ thread \in [Threads -> Thread] /\ was.store \in Stores
  BY ThreadOf DEF Typed
<1>2. \A e \in Threads : thread'[e] = IF e = c THEN t ELSE thread[e]
  BY <1>1 DEF Turn
<1>3. SUFFICES ASSUME NEW s \in Stores, NEW w \in 0..rows, Floor(cache, thread, s, w)
               PROVE  Floor(cache', thread', s, w)
  OBVIOUS
<1>4. ASSUME cache'[s] # None PROVE cache'[s].rows >= w
  <2>1. CASE cache' = cache
    BY <1>3, <1>4, <2>1 DEF Floor
  <2>2. CASE \E x \in Stores : cache' = [cache EXCEPT ![x] = None]
    <3>1. PICK x \in Stores : cache' = [cache EXCEPT ![x] = None]
      BY <2>2
    <3>2. cache'[s] = cache[s]
      BY <1>1, <1>4, <3>1
    <3>3. QED
      BY <1>3, <1>4, <3>2 DEF Floor
  <2>3. CASE cache' = [cache EXCEPT ![was.store] = was.got] /\ InFlight(was)
    <3>1. CASE s = was.store
      BY <1>1, <1>3, <2>3, <3>1 DEF Floor
    <3>2. CASE s # was.store
      BY <1>1, <1>3, <1>4, <2>3, <3>2 DEF Floor
    <3>3. QED
      BY <3>1, <3>2
  <2>4. QED
    BY <2>1, <2>2, <2>3 DEF Turn, CachesAfter
<1>5. ASSUME NEW e \in Threads, thread'[e].store = s, InFlight(thread'[e])
      PROVE  thread'[e].got.rows >= w
  <2>1. CASE e # c
    BY <1>2, <1>3, <1>5, <2>1 DEF Floor
  <2>2. CASE e = c
    <3>1. t.store = s /\ InFlight(t) /\ thread'[e] = t
      BY <1>2, <1>5, <2>2
    <3>2. CASE t.got.rows = rows
      BY <1>1, <3>1, <3>2
    <3>3. CASE InFlight(was) /\ t.store = was.store /\ t.got.rows = was.got.rows
      BY <1>3, <3>1, <3>3 DEF Floor
    <3>4. QED
      BY <3>1, <3>2, <3>3 DEF Turn, FlightAfter
  <2>3. QED
    BY <2>1, <2>2
<1>6. QED
  BY <1>4, <1>5 DEF Floor

\* Nothing older comes into a Settings object than came before.
LEMMA Comings ==
    ASSUME Typed, Shapes, NEW c \in Threads, NEW t \in Thread, Turn(c, t)
    PROVE  \A v, w : /\ w \in 0..rows
                     /\ Floor(cache, thread, current, w)
                     /\ Coming(cache, thread, v, w)
                     => Coming(cache', thread', v, w)
<1> DEFINE was == thread[c]
<1>1. /\ was \in Thread /\ rows \in 0..MaxSaves /\ cache \in [Stores -> Config \cup {None}]
      /\ thread \in [Threads -> Thread] /\ was.store \in Stores /\ current \in Stores
  BY ThreadOf DEF Typed
<1>2. \A e \in Threads : thread'[e] = IF e = c THEN t ELSE thread[e]
  BY <1>1 DEF Turn
<1>3. SUFFICES ASSUME NEW v, NEW w \in 0..rows, Floor(cache, thread, current, w), Coming(cache, thread, v, w)
               PROVE  Coming(cache', thread', v, w)
  OBVIOUS
<1>4. \A s \in Stores : Floor(cache, thread, s, w) => Floor(cache', thread', s, w)
  BY Floors
<1>5. ASSUME NEW e \in Threads, Filling(thread'[e]), thread'[e].view = v, e # c
      PROVE  /\ ~Holds(thread'[e], "hold") => Floor(cache', thread', thread'[e].store, w)
             /\ thread'[e].got # None => thread'[e].got.rows >= w
  <2>1. thread'[e] = thread[e] /\ thread[e].store \in Stores
    BY <1>1, <1>2, <1>5, ThreadOf
  <2>2. /\ ~Holds(thread[e], "hold") => Floor(cache, thread, thread[e].store, w)
        /\ thread[e].got # None => thread[e].got.rows >= w
    BY <1>3, <1>5, <2>1 DEF Coming
  <2>3. QED
    BY <1>4, <2>1, <2>2
<1>6. ASSUME Filling(t), t.view = v
      PROVE  /\ ~Holds(t, "hold") => Floor(cache', thread', t.store, w)
             /\ t.got # None => t.got.rows >= w
  <2>1. CASE Holds(t, "hold") /\ t.got = None
    BY <2>1
  <2>2. CASE Filling(was) /\ t.view = was.view /\ t.store = current /\ t.got = None
    BY <1>1, <1>3, <1>4, <2>2
  <2>3. CASE /\ Filling(was) /\ t.view = was.view /\ t.store = was.store
             /\ ~Holds(t, "hold") => ~Holds(was, "hold")
             /\ \/ t.got = None
                \/ t.got.rows = rows
                \/ was.got # None /\ t.got.rows = was.got.rows
                \/ t.got = cache[was.store] /\ ~Holds(was, "hold")
    <3>1. /\ ~Holds(was, "hold") => Floor(cache, thread, was.store, w)
          /\ was.got # None => was.got.rows >= w
      BY <1>3, <1>6, <2>3 DEF Coming
    <3>2. ~Holds(t, "hold") => Floor(cache', thread', t.store, w)
      BY <1>1, <1>4, <2>3, <3>1
    <3>3. t.got # None => t.got.rows >= w
      <4>1. CASE t.got = None
        BY <4>1
      <4>2. CASE t.got.rows = rows
        BY <1>1, <4>2
      <4>3. CASE was.got # None /\ t.got.rows = was.got.rows
        BY <3>1, <4>3
      <4>4. CASE t.got = cache[was.store] /\ ~Holds(was, "hold")
        BY <3>1, <4>4 DEF Floor
      <4>5. QED
        BY <2>3, <4>1, <4>2, <4>3, <4>4
    <3>4. QED
      BY <3>2, <3>3
  <2>4. QED
    BY <1>6, <2>1, <2>2, <2>3 DEF Turn, FillingAfter
<1>7. QED
  BY <1>2, <1>5, <1>6 DEF Coming

\* Less is asked of an earlier save.
LEMMA Earlier ==
    ASSUME NEW k, NEW th, NEW x, NEW w \in Int, NEW u \in Int, u <= w,
           \A s \in Stores : k[s] # None => k[s].rows \in Int,
           \A e \in Threads : th[e] \in Thread /\ (InFlight(th[e]) => th[e].got.rows \in Int)
    PROVE  /\ x \in Stores /\ Floor(k, th, x, w) => Floor(k, th, x, u)
           /\ Coming(k, th, x, w) => Coming(k, th, x, u)
<1>1. ASSUME NEW s \in Stores, Floor(k, th, s, w) PROVE Floor(k, th, s, u)
  BY <1>1 DEF Floor
<1>2. ASSUME Coming(k, th, x, w) PROVE Coming(k, th, x, u)
  <2>1. SUFFICES ASSUME NEW e \in Threads, Filling(th[e]), th[e].view = x
                 PROVE  /\ ~Holds(th[e], "hold") => Floor(k, th, th[e].store, u)
                        /\ th[e].got # None => th[e].got.rows >= u
    BY DEF Coming
  <2>2. /\ ~Holds(th[e], "hold") => Floor(k, th, th[e].store, w)
        /\ th[e].got # None => th[e].got.rows >= w
    BY <1>2, <2>1 DEF Coming
  <2>3. th[e].store \in Stores /\ (th[e].got # None => th[e].got.rows \in Int)
    BY ThreadOf, SomeConfig
  <2>4. QED
    BY <1>1, <2>2, <2>3
<1>3. QED
  BY <1>1, <1>2
\* What is true of a save in this state is true of an earlier one.
LEMMA FloorOfEarlier ==
    ASSUME Typed, Shapes
    PROVE  /\ \A s \in Stores, w \in Int, u \in Int :
                 u <= w /\ Floor(cache, thread, s, w) => Floor(cache, thread, s, u)
           /\ \A v : \A w \in Int, u \in Int :
                 u <= w /\ Coming(cache, thread, v, w) => Coming(cache, thread, v, u)
<1>1. \A s \in Stores : cache[s] # None => cache[s].rows \in Int
  BY SomeConfig DEF Typed
<1>2. \A e \in Threads : thread[e] \in Thread /\ (InFlight(thread[e]) => thread[e].got.rows \in Int)
  BY FlightHasGot DEF Typed
<1>3. ASSUME NEW s \in Stores, NEW w \in Int, NEW u \in Int, u <= w, Floor(cache, thread, s, w)
      PROVE  Floor(cache, thread, s, u)
  BY <1>1, <1>2, <1>3, Earlier
<1>4. ASSUME NEW v, NEW w \in Int, NEW u \in Int, u <= w, Coming(cache, thread, v, w)
      PROVE  Coming(cache, thread, v, u)
  BY <1>1, <1>2, <1>4, Earlier
<1>5. QED
  BY <1>3, <1>4

\* The same in the next state.
LEMMA EarlierNext ==
    (Typed /\ Shapes)' =>
        (\A v : \A w \in Int, u \in Int :
             u <= w /\ Coming(cache, thread, v, w) => Coming(cache, thread, v, u))'
<1>1. Typed /\ Shapes => \A v : \A w \in Int, u \in Int :
                             u <= w /\ Coming(cache, thread, v, w) => Coming(cache, thread, v, u)
  BY FloorOfEarlier
<1>2. QED
  BY <1>1, PTL

(***************************************************************************)
(* What a step of one thread leaves as new as it was.                      *)
(***************************************************************************)
LEMMA Keeps ==
    ASSUME SettingsInv, NEW c \in Threads, NEW t \in Thread, Turn(c, t)
    PROVE  /\ thread' = [thread EXCEPT ![c] = t]
           /\ \A e \in Threads : thread'[e] = IF e = c THEN t ELSE thread[e]
           /\ Floor(cache', thread', current, answered.patch)
           /\ \A e \in Threads : Renewed(thread[e]) => Floor(cache', thread', current, thread[e].wrote)
           /\ Coming(cache', thread', shown, answered.patch)
           /\ \A e \in Threads : Published(thread[e]) => Coming(cache', thread', shown, thread[e].wrote)
           /\ \A e \in Threads : Sighted(thread[e]) =>
                  Coming(cache', thread', thread[e].view, thread[e].since.patch)
<1>1. /\ rows \in 0..MaxSaves /\ current \in Stores /\ shown \in Stores
      /\ thread \in [Threads -> Thread] /\ answered.patch \in 0..rows
      /\ Typed /\ Shapes /\ MaxSaves \in Nat
  BY SettingsConstants DEF SettingsInv, Typed, Saved, Counted
<1>2. thread' = [thread EXCEPT ![c] = t] /\ \A e \in Threads : thread'[e] = IF e = c THEN t ELSE thread[e]
  BY <1>1 DEF Turn
<1>3. \A e \in Threads : /\ thread[e] \in Thread /\ Shape(thread[e])
                         /\ thread[e].wrote \in 0..rows /\ thread[e].since.patch \in 0..answered.patch
  <2> SUFFICES ASSUME NEW e \in Threads
               PROVE  /\ thread[e] \in Thread /\ Shape(thread[e])
                      /\ thread[e].wrote \in 0..rows /\ thread[e].since.patch \in 0..answered.patch
    OBVIOUS
  <2>1. Shape(thread[e]) /\ thread[e].wrote <= rows /\ thread[e].since.patch <= answered.patch
    BY DEF SettingsInv, Shapes, Counted
  <2>2. thread[e] \in Thread
    BY DEF SettingsInv, Typed
  <2>3. thread[e].wrote \in 0..MaxSaves /\ thread[e].since \in Saved
    BY <2>2, ThreadOf
  <2>4. thread[e].since.patch \in 0..MaxSaves
    BY <2>3 DEF Saved
  <2>5. QED
    BY <1>1, <2>1, <2>3, <2>4, SettingsConstants
<1>4. \A s \in Stores, w \in 0..rows : Floor(cache, thread, s, w) => Floor(cache', thread', s, w)
  BY <1>1, Floors
<1>5. \A v, w : w \in 0..rows /\ Floor(cache, thread, current, w) /\ Coming(cache, thread, v, w)
                => Coming(cache', thread', v, w)
  BY <1>1, Comings
<1>6. Floor(cache, thread, current, answered.patch)
  BY DEF SettingsInv, StoreIsNew
<1>7. Floor(cache', thread', current, answered.patch)
  BY <1>1, <1>4, <1>6
<1>8. ASSUME NEW e \in Threads, Renewed(thread[e])
      PROVE  Floor(cache', thread', current, thread[e].wrote)
  <2>1. Floor(cache, thread, current, thread[e].wrote)
    BY <1>8 DEF SettingsInv, StoreIsNew
  <2>2. QED
    BY <1>1, <1>3, <1>4, <2>1
<1>9. Coming(cache', thread', shown, answered.patch)
  BY <1>1, <1>5, <1>6 DEF SettingsInv, ObjectGetsNew
<1>10. ASSUME NEW e \in Threads, Published(thread[e])
       PROVE  Coming(cache', thread', shown, thread[e].wrote)
  <2>1. Coming(cache, thread, shown, thread[e].wrote)
    BY <1>10 DEF SettingsInv, ObjectGetsNew
  <2>2. Renewed(thread[e])
    BY <1>3, <1>10 DEF Published, Renewed, Shape, Whole, Holds
  <2>3. Floor(cache, thread, current, thread[e].wrote)
    BY <2>2 DEF SettingsInv, StoreIsNew
  <2>4. QED
    BY <1>3, <1>5, <2>1, <2>3
<1>11. ASSUME NEW e \in Threads, Sighted(thread[e])
       PROVE  Coming(cache', thread', thread[e].view, thread[e].since.patch)
  <2> DEFINE w == thread[e].since.patch
  <2>1. Coming(cache, thread, thread[e].view, w)
    BY <1>11 DEF SettingsInv, ReadersSee
  <2>2. w \in 0..answered.patch
    BY <1>3
  <2> HIDE DEF w
  <2>3. w \in Int /\ answered.patch \in Int /\ w <= answered.patch /\ w \in 0..rows
    BY <1>1, <2>2
  <2>4. Floor(cache, thread, current, w)
    BY <1>1, <1>6, <2>3, FloorOfEarlier
  <2>5. Coming(cache', thread', thread[e].view, w)
    BY <1>5, <2>1, <2>3, <2>4
  <2>6. QED
    BY <2>5 DEF w
<1>12. QED
  BY <1>2, <1>7, <1>8, <1>9, <1>10, <1>11

(***************************************************************************)
(* A step that publishes nothing and answers nothing.                      *)
(***************************************************************************)
LEMMA Plain ==
    ASSUME SettingsInv, NEW c \in Threads, NEW t \in Thread, Shape(t), Turn(c, t),
           rows' \in rows..MaxSaves, key' \in 0..MaxKeys, values' \in 0..MaxKeys \cup {None},
           cache' \in [Stores -> Config \cup {None}],
           current' = current, raw' = raw, shown' = shown, answered' = answered,
           t.wrote <= rows', t.since.patch <= answered.patch,
           Renewed(t) => Renewed(thread[c]) /\ t.wrote = thread[c].wrote,
           Published(t) => Published(thread[c]) /\ t.wrote = thread[c].wrote,
           Sighted(t) => /\ Sighted(thread[c]) /\ t.view = thread[c].view /\ t.since = thread[c].since
                         /\ ~Holds(t, "put") => ~Holds(thread[c], "put")
                         /\ ~Holds(t, "see") => ~Holds(thread[c], "see") /\ t.got = thread[c].got,
           Hidden(t) => Hidden(thread[c]) /\ t.view = thread[c].view,
           t.view \in {thread[c].view, First}
    PROVE  SettingsInv'
<1>1. /\ rows \in 0..MaxSaves /\ current \in Stores
      /\ raw \in [Stores -> Config \cup {None}] /\ shown \in Stores
      /\ thread \in [Threads -> Thread] /\ answered \in Saved /\ rows' \in 0..MaxSaves
      /\ answered.patch \in 0..rows /\ rows <= rows'
  BY SettingsConstants DEF SettingsInv, Typed, Saved, Counted
<1>2. /\ thread' = [thread EXCEPT ![c] = t] /\ \A e \in Threads : thread'[e] = IF e = c THEN t ELSE thread[e]
      /\ Floor(cache', thread', current, answered.patch)
      /\ \A e \in Threads : Renewed(thread[e]) => Floor(cache', thread', current, thread[e].wrote)
      /\ Coming(cache', thread', shown, answered.patch)
      /\ \A e \in Threads : Published(thread[e]) => Coming(cache', thread', shown, thread[e].wrote)
      /\ \A e \in Threads : Sighted(thread[e]) =>
             Coming(cache', thread', thread[e].view, thread[e].since.patch)
  BY Keeps
<1>3. \A e \in Threads : /\ Shape(thread[e])
                         /\ thread[e].wrote \in 0..rows /\ thread[e].since.patch \in 0..answered.patch
  <2> SUFFICES ASSUME NEW e \in Threads
               PROVE  /\ Shape(thread[e])
                      /\ thread[e].wrote \in 0..rows /\ thread[e].since.patch \in 0..answered.patch
    OBVIOUS
  <2>1. Shape(thread[e]) /\ thread[e].wrote <= rows /\ thread[e].since.patch <= answered.patch
    BY DEF SettingsInv, Shapes, Counted
  <2>2. thread[e] \in Thread
    BY DEF SettingsInv, Typed
  <2>3. thread[e].wrote \in 0..MaxSaves /\ thread[e].since \in Saved
    BY <2>2, ThreadOf
  <2>4. thread[e].since.patch \in 0..MaxSaves
    BY <2>3 DEF Saved
  <2>5. QED
    BY <1>1, <2>1, <2>3, <2>4, SettingsConstants
<1>4. Typed'
  BY <1>1, <1>2 DEF Typed
<1>5. Shapes'
  BY <1>2, <1>3 DEF Shapes
<1>6. Counted'
  BY <1>1, <1>2, <1>3 DEF Counted
<1>7. StoreIsNew'
  <2>1. ASSUME NEW e \in Threads, Renewed(thread'[e])
        PROVE  Floor(cache', thread', current, thread'[e].wrote)
    <3>1. Renewed(thread[e]) /\ thread'[e].wrote = thread[e].wrote
      BY <1>2, <2>1
    <3>2. QED
      BY <1>2, <3>1
  <2>2. QED
    BY <1>2, <2>1 DEF StoreIsNew
<1>8. ObjectGetsNew'
  <2>1. ASSUME NEW e \in Threads, Published(thread'[e])
        PROVE  Coming(cache', thread', shown, thread'[e].wrote)
    <3>1. Published(thread[e]) /\ thread'[e].wrote = thread[e].wrote
      BY <1>2, <2>1
    <3>2. QED
      BY <1>2, <3>1
  <2>2. QED
    BY <1>2, <2>1 DEF ObjectGetsNew
<1>9. ReadersSee'
  <2>1. ASSUME NEW d \in Threads, Sighted(thread'[d])
        PROVE  /\ Coming(cache', thread', thread'[d].view, thread'[d].since.patch)
               /\ ~Holds(thread'[d], "put") =>
                     NotBefore(raw[thread'[d].view], thread'[d].since.patch)
               /\ ~Holds(thread'[d], "see") =>
                     NotBefore(thread'[d].got, thread'[d].since.patch)
    <3>1. /\ Sighted(thread[d]) /\ thread'[d].view = thread[d].view /\ thread'[d].since = thread[d].since
          /\ ~Holds(thread'[d], "put") => ~Holds(thread[d], "put")
          /\ ~Holds(thread'[d], "see") => ~Holds(thread[d], "see") /\ thread'[d].got = thread[d].got
      BY <1>2, <2>1
    <3>2. /\ ~Holds(thread[d], "put") =>
                NotBefore(raw[thread[d].view], thread[d].since.patch)
          /\ ~Holds(thread[d], "see") =>
                NotBefore(thread[d].got, thread[d].since.patch)
      BY <3>1 DEF SettingsInv, ReadersSee
    <3>3. QED
      BY <1>2, <3>1, <3>2
  <2>2. QED
    BY <2>1 DEF ReadersSee
<1>10. HiddenFromOthers'
  <2>1. ASSUME NEW e \in Threads, Hidden(thread'[e])
        PROVE  /\ thread'[e].view \notin {shown, First}
               /\ \A d \in Threads \ {e} : thread'[d].view # thread'[e].view
    <3>1. Hidden(thread[e]) /\ thread'[e].view = thread[e].view
      BY <1>2, <2>1
    <3>2. /\ thread[e].view \notin {shown, First}
          /\ \A d \in Threads \ {e} : thread[d].view # thread[e].view
      BY <3>1 DEF SettingsInv, HiddenFromOthers
    <3>3. \A d \in Threads : thread'[d].view \in {thread[d].view, First}
      BY <1>2
    <3>4. QED
      BY <3>1, <3>2, <3>3
  <2>2. QED
    BY <2>1 DEF HiddenFromOthers
<1>11. QED
  BY <1>4, <1>5, <1>6, <1>7, <1>8, <1>9, <1>10 DEF SettingsInv

\* A thread goes on with what it read or wrote.
LEMMA GoesOn ==
    ASSUME SettingsInv, NEW c \in Threads, NEW step, At(c, step),
           step \notin {"sight", "put", "see", "renew", "show", "answer"},
           NEW u \in Thread, Goes(c, u), CachesAfter(thread[c]),
           u.todo = thread[c].todo, u.op = thread[c].op, u.view = thread[c].view,
           u.since = thread[c].since,
           u.store = IF step = "hold" THEN current ELSE thread[c].store,
           \/ u.got = thread[c].got /\ step \notin Sources
           \/ step = "load" /\ u.got.rows = rows
           \/ step = "take" /\ u.got = cache[thread[c].store] /\ u.got # None
           \/ step = "copy" /\ u.got = cache[thread[c].store]
           \/ step = "note" /\ u.got # None /\ thread[c].got # None /\ u.got.rows = thread[c].got.rows,
           u.wrote = thread[c].wrote \/ step = "save",
           step = "load" => u.got # None,
           rows' \in rows..MaxSaves, key' \in 0..MaxKeys, values' \in 0..MaxKeys \cup {None},
           cache' \in [Stores -> Config \cup {None}], u.wrote <= rows',
           current' = current, raw' = raw, shown' = shown, answered' = answered
    PROVE  SettingsInv'
<1> DEFINE was == thread[c]
<1> DEFINE t == Rest(u)
<1>1. was \in Thread /\ Shape(was) /\ was.since.patch <= answered.patch
  BY ThreadOf DEF SettingsInv, Typed, Shapes, Counted
<1>2. /\ was.todo # <<>> /\ Head(was.todo) = step /\ thread' = [thread EXCEPT ![c] = t]
      /\ u.todo = was.todo /\ u.op = was.op
      /\ u.got # None \/ (u.got = was.got /\ step \notin Sources) \/ step \in {"copy", "see"}
      /\ step = "sight" => u.got = was.got
  BY DEF At, Goes, Rest
<1>3. /\ u.view = was.view /\ u.since = was.since
      /\ u.store = IF step = "hold" THEN current ELSE was.store
      /\ \/ u.got = was.got /\ step \notin Sources
         \/ step = "load" /\ u.got.rows = rows
         \/ step = "take" /\ u.got = cache[was.store] /\ u.got # None
         \/ step = "copy" /\ u.got = cache[was.store]
         \/ step = "note" /\ u.got # None /\ was.got # None /\ u.got.rows = was.got.rows
      /\ u.wrote = was.wrote \/ step = "save"
      /\ CachesAfter(was)
  OBVIOUS
<1>4. t = Rest(u)
  OBVIOUS
<1> HIDE DEF was, t
<1>5. /\ t \in Thread /\ Shape(t)
      /\ t.op = was.op /\ t.store = u.store /\ t.view = u.view /\ t.got = u.got
      /\ t.wrote = u.wrote /\ t.since = u.since
      /\ \A x : Holds(was, x) <=> x = step \/ Holds(t, x)
      /\ \A y : Holds(t, y) => InOrder(was.op, step, y)
      /\ step \in Needs => was.got # None
  BY <1>1, <1>2, <1>4, Moved
<1>6. FlightAfter(was, t)
  <2>1. SUFFICES ASSUME Holds(t, "keep"), ~Holds(t, "load")
                 PROVE  \/ t.got.rows = rows
                        \/ InFlight(was) /\ t.store = was.store /\ t.got.rows = was.got.rows
    BY DEF FlightAfter, InFlight
  <2>2. step \in {"load", "flag", "note"} /\ Holds(was, "keep")
    BY <1>5, <2>1 DEF InOrder
  <2>3. step # "load" => InFlight(was)
    BY <1>5, <2>1, <2>2 DEF InFlight
  <2>4. QED
    BY <1>3, <1>5, <2>2, <2>3 DEF Sources
<1>7. FillingAfter(was, t)
  <2>1. SUFFICES ASSUME Filling(t)
                 PROVE  \/ Filling(was) /\ t.view = was.view /\ t.store = current /\ t.got = None
                        \/ /\ Filling(was) /\ t.view = was.view /\ t.store = was.store
                           /\ ~Holds(t, "hold") => ~Holds(was, "hold")
                           /\ \/ t.got = None
                              \/ t.got.rows = rows
                              \/ was.got # None /\ t.got.rows = was.got.rows
                              \/ t.got = cache[was.store] /\ ~Holds(was, "hold")
    BY DEF FillingAfter
  <2>2. Filling(was) /\ t.view = was.view /\ was.op = "read"
    BY <1>3, <1>5, <2>1 DEF Filling
  <2>3. CASE step = "hold"
    <3>1. was.got = None
      BY <1>1, <1>5, <2>2, <2>3 DEF Shape
    <3>2. QED
      BY <1>3, <1>5, <2>2, <2>3, <3>1
  <2>4. CASE step # "hold"
    <3>1. t.store = was.store /\ (~Holds(t, "hold") => ~Holds(was, "hold"))
      BY <1>3, <1>5, <2>4
    <3>2. CASE u.got = was.got
      BY <1>5, <2>2, <3>1, <3>2
    <3>3. CASE u.got = cache[was.store] /\ step \in {"take", "copy"}
      <4>1. ~Holds(t, "hold")
        BY <1>5, <2>2, <3>3 DEF InOrder
      <4>2. QED
        BY <1>5, <2>2, <3>1, <3>3, <4>1
    <3>4. QED
      BY <1>3, <1>5, <2>2, <3>1, <3>2, <3>3
  <2>5. QED
    BY <2>3, <2>4
<1>8. Turn(c, t)
  BY <1>2, <1>3, <1>6, <1>7 DEF Turn, was
<1>9. Renewed(t) => Renewed(was) /\ t.wrote = was.wrote
  BY <1>1, <1>3, <1>5 DEF Renewed, Shape, Whole, Holds
<1>10. Published(t) => Published(was) /\ t.wrote = was.wrote
  BY <1>1, <1>3, <1>5 DEF Published, Shape, Whole, Holds
<1>11. Sighted(t) => /\ Sighted(was) /\ t.view = was.view /\ t.since = was.since
                     /\ ~Holds(t, "put") => ~Holds(was, "put")
                     /\ ~Holds(t, "see") => ~Holds(was, "see") /\ t.got = was.got
  <2>1. SUFFICES ASSUME Sighted(t)
                 PROVE  /\ Sighted(was) /\ t.view = was.view /\ t.since = was.since
                        /\ ~Holds(t, "put") => ~Holds(was, "put")
                        /\ Holds(t, "see")
    OBVIOUS
  <2>2. was.op = "read" /\ Holds(was, step)
    BY <1>5, <2>1 DEF Sighted
  <2>3. Holds(was, "see")
    BY <1>1, <2>2 DEF Shape, Whole, Holds
  <2>4. QED
    BY <1>3, <1>5, <2>1, <2>3 DEF Sighted
<1>12. Hidden(t) => Hidden(was) /\ t.view = was.view
  BY <1>3, <1>5 DEF Hidden
<1>13. t.wrote <= rows' /\ t.since.patch <= answered.patch /\ t.view \in {was.view, First}
  BY <1>1, <1>3, <1>5
<1>14. QED
  BY <1>5, <1>8, <1>9, <1>10, <1>11, <1>12, <1>13, Plain DEF was
(***************************************************************************)
(* The steps that publish nothing.                                         *)
(***************************************************************************)
LEMMA StateOf ==
    ASSUME SettingsInv, NEW c \in Threads
    PROVE  /\ rows \in 0..MaxSaves /\ rows \in rows..MaxSaves /\ key \in 0..MaxKeys
           /\ values \in 0..MaxKeys \cup {None} /\ cache \in [Stores -> Config \cup {None}]
           /\ current \in Stores /\ thread \in [Threads -> Thread] /\ thread[c] \in Thread
           /\ thread[c].wrote \in 0..rows /\ thread[c].store \in Stores
           /\ thread[c].got \in Config \cup {None}
           /\ cache[thread[c].store] \in Config \cup {None}
           /\ MaxSaves \in Nat /\ MaxKeys \in Nat /\ Shape(thread[c])
           /\ Typed /\ Shapes
<1>1. Typed /\ Shapes /\ thread[c] \in Thread /\ Shape(thread[c]) /\ thread[c].wrote <= rows
  BY DEF SettingsInv, Typed, Shapes, Counted
<1>2. QED
  BY <1>1, ThreadOf, SettingsConstants DEF Typed

\* What a step needs, it has.
LEMMA NeededIsThere ==
    ASSUME SettingsInv, NEW c \in Threads, NEW step \in Needs, At(c, step)
    PROVE  thread[c].got \in Config /\ thread[c].got # None
<1> DEFINE was == thread[c]
<1>1. was \in Thread /\ Shape(was) /\ was.todo # <<>> /\ Head(was.todo) = step
  BY StateOf DEF At
<1> DEFINE s == was.todo
<1> DEFINE op == was.op
<1>2. s \in Seq(Steps) /\ s # <<>> /\ Sorted(op, s) /\ (was.got = None => Backed(s))
  BY <1>1, ThreadOf DEF Shape
<1>3. was.got \in Config \cup {None} /\ Head(s) = step
  BY <1>1, ThreadOf
<1> HIDE DEF was, s, op
<1>4. Backed(s) => Head(s) \notin Needs
  BY <1>2, Popped
<1>5. was.got # None
  BY <1>2, <1>3, <1>4
<1>6. QED
  BY <1>3, <1>5 DEF was

LEMMA LoadStep == ASSUME SettingsInv, NEW c \in Threads, Load(c) PROVE SettingsInv'
<1> DEFINE was == thread[c]
<1> DEFINE g == [rows |-> rows, key |-> 0]
<1> DEFINE u == [was EXCEPT !.got = g]
<1>1. /\ At(c, "load") /\ Goes(c, u)
      /\ UNCHANGED <<rows, key, cache, values, current, raw, shown, answered>>
  BY DEF Load
<1>2. g \in Config /\ g.rows = rows /\ g # None
  BY StateOf, SomeConfig, SettingsConstants DEF Config
<1>3. was \in Thread
  BY StateOf
<1>4. u = [was EXCEPT !.got = g]
  OBVIOUS
<1> HIDE DEF was, g, u
<1>5. /\ u \in Thread /\ u.todo = was.todo /\ u.op = was.op /\ u.view = was.view /\ u.since = was.since
      /\ u.store = was.store /\ u.got = g /\ u.wrote = was.wrote
  BY <1>2, <1>3, <1>4 DEF Thread
<1>6. CachesAfter(was)
  BY <1>1 DEF CachesAfter
<1>7. QED
  BY <1>1, <1>2, <1>5, <1>6, StateOf, GoesOn DEF was
LEMMA FlagStep == ASSUME SettingsInv, NEW c \in Threads, Flag(c) PROVE SettingsInv'
<1> DEFINE was == thread[c]
<1> DEFINE g == IF values # None THEN values ELSE key
<1> DEFINE u == [was EXCEPT !.secret = g]
<1>1. /\ At(c, "flag") /\ Goes(c, u)
      /\ UNCHANGED <<rows, key, cache, values, current, raw, shown, answered>>
  BY DEF Flag
<1>2. g \in 0..MaxKeys
  BY StateOf
<1>3. was \in Thread
  BY StateOf
<1>4. u = [was EXCEPT !.secret = g]
  OBVIOUS
<1> HIDE DEF was, g, u
<1>5. /\ u \in Thread /\ u.todo = was.todo /\ u.op = was.op /\ u.view = was.view /\ u.since = was.since
      /\ u.store = was.store /\ u.got = was.got /\ u.wrote = was.wrote
  BY <1>2, <1>3, <1>4 DEF Thread
<1>6. CachesAfter(was)
  BY <1>1 DEF CachesAfter
<1>7. QED
  BY <1>1, <1>5, <1>6, StateOf, GoesOn DEF was, Sources

LEMMA NoteStep == ASSUME SettingsInv, NEW c \in Threads, Note(c) PROVE SettingsInv'
<1> DEFINE was == thread[c]
<1> DEFINE g == [was.got EXCEPT !.key = was.secret]
<1> DEFINE u == [was EXCEPT !.got = g]
<1>1. /\ At(c, "note") /\ values' = was.secret /\ Goes(c, [was EXCEPT !.got.key = was.secret])
      /\ UNCHANGED <<rows, key, cache, current, raw, shown, answered>>
  BY DEF Note
<1>2. was \in Thread /\ was.got \in Config /\ was.got # None /\ was.secret \in 0..MaxKeys
  BY <1>1, StateOf, NeededIsThere, ThreadOf DEF Needs
<1>3. g \in Config /\ g.rows = was.got.rows /\ g # None
  <2>1. g \in Config /\ g.rows = was.got.rows
    BY <1>2 DEF Config
  <2>2. QED
    BY <2>1, SomeConfig
<1>4. u = [was EXCEPT !.got = g] /\ u = [was EXCEPT !.got.key = was.secret]
  OBVIOUS
<1>5. Goes(c, u)
  BY <1>1, <1>4
<1> HIDE DEF was, g, u
<1>6. /\ u \in Thread /\ u.todo = was.todo /\ u.op = was.op /\ u.view = was.view /\ u.since = was.since
      /\ u.store = was.store /\ u.got = g /\ u.wrote = was.wrote
  BY <1>2, <1>3, <1>4 DEF Thread
<1>7. CachesAfter(was)
  BY <1>1 DEF CachesAfter
<1>8. values' \in 0..MaxKeys \cup {None}
  BY <1>1, <1>2
<1>9. QED
  BY <1>1, <1>2, <1>3, <1>5, <1>6, <1>7, <1>8, StateOf, GoesOn DEF was

LEMMA KeepStep == ASSUME SettingsInv, NEW c \in Threads, Keep(c) PROVE SettingsInv'
<1> DEFINE was == thread[c]
<1>1. /\ At(c, "keep") /\ Goes(c, was) /\ cache' = [cache EXCEPT ![was.store] = was.got]
      /\ UNCHANGED <<rows, key, values, current, raw, shown, answered>>
  BY DEF Keep
<1>2. was \in Thread /\ was.got \in Config /\ Shape(was)
  BY <1>1, StateOf, NeededIsThere DEF Needs
<1>3. InFlight(was)
  <2> DEFINE s == was.todo
  <2> DEFINE op == was.op
  <2>1. s \in Seq(Steps) /\ s # <<>> /\ Sorted(op, s) /\ Head(s) = "keep"
    BY <1>1, <1>2, ThreadOf DEF Shape, At
  <2> HIDE DEF s, op
  <2>2. Range(s) = {Head(s)} \cup Range(Tail(s)) /\ \A y \in Range(Tail(s)) : InOrder(op, Head(s), y)
    BY <2>1, Popped
  <2>3. "keep" \in Range(s) /\ "load" \notin Range(s)
    BY <2>1, <2>2 DEF InOrder
  <2>4. QED
    BY <2>3 DEF InFlight, Holds, s
<1> HIDE DEF was
<1>4. CachesAfter(was)
  BY <1>1, <1>3 DEF CachesAfter
<1>5. cache' \in [Stores -> Config \cup {None}]
  BY <1>1, <1>2, StateOf
<1>6. QED
  BY <1>1, <1>2, <1>4, <1>5, StateOf, GoesOn DEF was, Sources

LEMMA HoldStep == ASSUME SettingsInv, NEW c \in Threads, Hold(c) PROVE SettingsInv'
<1> DEFINE was == thread[c]
<1> DEFINE u == [was EXCEPT !.store = current]
<1>1. /\ At(c, "hold") /\ Goes(c, u)
      /\ UNCHANGED <<rows, key, cache, values, current, raw, shown, answered>>
  BY DEF Hold
<1>2. was \in Thread /\ current \in Stores
  BY StateOf
<1>3. u = [was EXCEPT !.store = current]
  OBVIOUS
<1> HIDE DEF was, u
<1>4. /\ u \in Thread /\ u.todo = was.todo /\ u.op = was.op /\ u.view = was.view /\ u.since = was.since
      /\ u.store = current /\ u.got = was.got /\ u.wrote = was.wrote
  BY <1>2, <1>3 DEF Thread
<1>5. CachesAfter(was)
  BY <1>1 DEF CachesAfter
<1>6. QED
  BY <1>1, <1>4, <1>5, StateOf, GoesOn DEF was, Sources

LEMMA DropStep == ASSUME SettingsInv, NEW c \in Threads, Drop(c) PROVE SettingsInv'
<1> DEFINE was == thread[c]
<1>1. /\ At(c, "drop") /\ Goes(c, was) /\ cache' = [cache EXCEPT ![was.store] = None]
      /\ UNCHANGED <<rows, key, values, current, raw, shown, answered>>
  BY DEF Drop
<1>2. was \in Thread /\ was.store \in Stores
  BY StateOf
<1> HIDE DEF was
<1>3. CachesAfter(was)
  BY <1>1, <1>2 DEF CachesAfter
<1>4. cache' \in [Stores -> Config \cup {None}]
  BY <1>1, <1>2, StateOf
<1>5. QED
  BY <1>1, <1>2, <1>3, <1>4, StateOf, GoesOn DEF was, Sources

LEMMA SaveStep == ASSUME SettingsInv, NEW c \in Threads, Save(c) PROVE SettingsInv'
<1> DEFINE was == thread[c]
<1> DEFINE n == rows + 1
<1> DEFINE u == [was EXCEPT !.wrote = n]
<1>1. /\ At(c, "save") /\ Goes(c, u) /\ rows < MaxSaves /\ rows' = n
      /\ UNCHANGED <<key, cache, values, current, raw, shown, answered>>
  BY DEF Save
<1>2. was \in Thread /\ n \in 0..MaxSaves /\ n \in rows..MaxSaves /\ n <= rows'
  BY <1>1, StateOf
<1>3. u = [was EXCEPT !.wrote = n]
  OBVIOUS
<1> HIDE DEF was, n, u
<1>4. /\ u \in Thread /\ u.todo = was.todo /\ u.op = was.op /\ u.view = was.view /\ u.since = was.since
      /\ u.store = was.store /\ u.got = was.got /\ u.wrote = n
  BY <1>2, <1>3 DEF Thread
<1>5. CachesAfter(was)
  BY <1>1 DEF CachesAfter
<1>6. QED
  BY <1>1, <1>2, <1>4, <1>5, StateOf, GoesOn DEF was, Sources

LEMMA SaveKeyStep == ASSUME SettingsInv, NEW c \in Threads, SaveKey(c) PROVE SettingsInv'
<1> DEFINE was == thread[c]
<1> DEFINE n == key + 1
<1> DEFINE u == [was EXCEPT !.wrotekey = n]
<1>1. /\ At(c, "savekey") /\ Goes(c, u) /\ key < MaxKeys /\ key' = n
      /\ UNCHANGED <<rows, cache, values, current, raw, shown, answered>>
  BY DEF SaveKey
<1>2. was \in Thread /\ n \in 0..MaxKeys
  BY <1>1, StateOf
<1>3. u = [was EXCEPT !.wrotekey = n]
  OBVIOUS
<1> HIDE DEF was, n, u
<1>4. /\ u \in Thread /\ u.todo = was.todo /\ u.op = was.op /\ u.view = was.view /\ u.since = was.since
      /\ u.store = was.store /\ u.got = was.got /\ u.wrote = was.wrote
  BY <1>2, <1>3 DEF Thread
<1>5. CachesAfter(was)
  BY <1>1 DEF CachesAfter
<1>6. QED
  BY <1>1, <1>2, <1>4, <1>5, StateOf, GoesOn DEF was, Sources

LEMMA ForgetStep == ASSUME SettingsInv, NEW c \in Threads, Forget(c) PROVE SettingsInv'
<1> DEFINE was == thread[c]
<1>1. /\ At(c, "forget") /\ Goes(c, was) /\ values' = None
      /\ UNCHANGED <<rows, key, cache, current, raw, shown, answered>>
  BY DEF Forget
<1>2. was \in Thread
  BY StateOf
<1> HIDE DEF was
<1>3. CachesAfter(was)
  BY <1>1 DEF CachesAfter
<1>4. QED
  BY <1>1, <1>2, <1>3, StateOf, GoesOn DEF was, Sources
\* A thread finds out what its step needs.
LEMMA GoesRound ==
    ASSUME SettingsInv, NEW c \in Threads, NEW step \in {"merged", "section"}, At(c, step),
           NEW a \in Detours, GoesVia(c, a),
           UNCHANGED <<rows, key, cache, values, current, raw, shown, answered>>
    PROVE  SettingsInv'
<1> DEFINE was == thread[c]
<1> DEFINE t == [was EXCEPT !.todo = a \o Tail(@)]
<1>1. was \in Thread /\ Shape(was) /\ was.since.patch <= answered.patch
  BY ThreadOf DEF SettingsInv, Typed, Shapes, Counted
<1>2. was.todo # <<>> /\ Head(was.todo) = step
  BY DEF At
<1>3. MovesVia(was, a, t)
  BY DEF MovesVia
<1>4. thread' = [thread EXCEPT ![c] = t]
  BY DEF GoesVia
<1> HIDE DEF was, t
<1>5. /\ t \in Thread /\ Shape(t)
      /\ t.op = was.op /\ t.store = was.store /\ t.view = was.view /\ t.got = was.got
      /\ t.wrote = was.wrote /\ t.since = was.since
      /\ \A x : x \notin {"load", "flag", "note", "keep", "take", "copy", step}
                   => (Holds(was, x) <=> Holds(t, x))
      /\ ~InFlight(t)
  BY <1>1, <1>2, <1>3, MovedVia
<1>6. \A x \in {"sight", "hold", "put", "see", "renew", "show"} : Holds(was, x) <=> Holds(t, x)
  BY <1>5
<1>7. Turn(c, t)
  <2>1. FlightAfter(was, t)
    BY <1>5 DEF FlightAfter
  <2>2. FillingAfter(was, t)
    BY <1>5, <1>6 DEF FillingAfter, Filling
  <2>3. CachesAfter(was)
    BY DEF CachesAfter
  <2>4. QED
    BY <1>4, <2>1, <2>2, <2>3 DEF Turn, was
<1>8. Renewed(t) => Renewed(was) /\ t.wrote = was.wrote
  BY <1>5, <1>6 DEF Renewed
<1>9. Published(t) => Published(was) /\ t.wrote = was.wrote
  BY <1>5, <1>6 DEF Published
<1>10. Sighted(t) => /\ Sighted(was) /\ t.view = was.view /\ t.since = was.since
                     /\ ~Holds(t, "put") => ~Holds(was, "put")
                     /\ ~Holds(t, "see") => ~Holds(was, "see") /\ t.got = was.got
  BY <1>5, <1>6 DEF Sighted
<1>11. Hidden(t) => Hidden(was) /\ t.view = was.view
  BY <1>5, <1>6 DEF Hidden
<1>12. t.wrote <= rows' /\ t.since.patch <= answered.patch /\ t.view \in {was.view, First}
  BY <1>1, <1>5, StateOf DEF was
<1>13. QED
  BY <1>5, <1>7, <1>8, <1>9, <1>10, <1>11, <1>12, StateOf, Plain DEF was

LEMMA MergedStep == ASSUME SettingsInv, NEW c \in Threads, Merged(c) PROVE SettingsInv'
<1> DEFINE a == IF Fresh(c) THEN <<"copy">> ELSE Rebuild
<1>1. /\ At(c, "merged") /\ GoesVia(c, a)
      /\ UNCHANGED <<rows, key, cache, values, current, raw, shown, answered>>
  BY DEF Merged
<1>2. a \in Detours
  BY DEF Detours
<1> HIDE DEF a
<1>3. QED
  BY <1>1, <1>2, GoesRound

LEMMA SectionStep == ASSUME SettingsInv, NEW c \in Threads, Section(c) PROVE SettingsInv'
<1> DEFINE a == IF Fresh(c) THEN <<"take">> ELSE Rebuild \o <<"take">>
<1>1. /\ At(c, "section") /\ GoesVia(c, a)
      /\ UNCHANGED <<rows, key, cache, values, current, raw, shown, answered>>
  BY DEF Section
<1>2. a \in Detours
  BY DEF Detours
<1> HIDE DEF a
<1>3. QED
  BY <1>1, <1>2, GoesRound

\* A thread drops what it was doing, or begins.
LEMMA StartsOver ==
    ASSUME SettingsInv, NEW c \in Threads, NEW t \in Thread, Shape(t),
           thread' = [thread EXCEPT ![c] = t],
           UNCHANGED <<rows, key, cache, values, current, raw, shown, answered>>,
           t.view = First, t.wrote = 0, t.since.patch <= answered.patch,
           ~InFlight(t), ~Filling(t), ~Renewed(t), ~Published(t), ~Sighted(t), ~Hidden(t)
    PROVE  SettingsInv'
<1>1. Turn(c, t)
  BY DEF Turn, CachesAfter, FlightAfter, FillingAfter
<1>2. t.wrote <= rows' /\ t.view \in {thread[c].view, First}
  BY StateOf
<1>3. QED
  BY <1>1, <1>2, StateOf, Plain

LEMMA TakeStep == ASSUME SettingsInv, NEW c \in Threads, Take(c) PROVE SettingsInv'
<1> DEFINE was == thread[c]
<1> DEFINE found == cache[was.store]
<1> DEFINE u == [was EXCEPT !.got = found]
<1>1. /\ At(c, "take")
      /\ IF found # None THEN Goes(c, u) ELSE thread' = [thread EXCEPT ![c] = Nobody]
      /\ UNCHANGED <<rows, key, cache, values, current, raw, shown, answered>>
  BY DEF Take
<1>2. CASE found # None
  <2>1. was \in Thread /\ found \in Config \cup {None} /\ found = cache[was.store]
    BY StateOf
  <2>2. u = [was EXCEPT !.got = found] /\ Goes(c, u) /\ found # None
    BY <1>1, <1>2
  <2> HIDE DEF was, found, u
  <2>3. /\ u \in Thread /\ u.todo = was.todo /\ u.op = was.op /\ u.view = was.view
        /\ u.since = was.since /\ u.store = was.store /\ u.got = found /\ u.wrote = was.wrote
    BY <2>1, <2>2 DEF Thread
  <2>4. CachesAfter(was)
    BY <1>1 DEF CachesAfter
  <2>5. u.got = cache[was.store] /\ u.got # None
    BY <2>1, <2>2, <2>3
  <2>6. At(c, "take") /\ UNCHANGED <<rows, key, cache, values, current, raw, shown, answered>>
    BY <1>1
  <2>7. /\ rows' \in rows..MaxSaves /\ key' \in 0..MaxKeys /\ values' \in 0..MaxKeys \cup {None}
        /\ cache' \in [Stores -> Config \cup {None}] /\ u.wrote <= rows'
    BY <2>3, <2>6, StateOf DEF was
  <2>8. QED
    BY <2>2, <2>3, <2>4, <2>5, <2>6, <2>7, GoesOn DEF was
<1>3. CASE found = None
  <2>1. /\ Nobody \in Thread /\ Shape(Nobody) /\ Nobody.view = First /\ Nobody.wrote = 0
        /\ Nobody.since.patch <= answered.patch
    BY NobodyIs DEF SettingsInv, Typed, Saved
  <2>2. /\ ~InFlight(Nobody) /\ ~Filling(Nobody) /\ ~Renewed(Nobody) /\ ~Published(Nobody)
        /\ ~Sighted(Nobody) /\ ~Hidden(Nobody)
    BY NobodyIs DEF InFlight, Filling, Renewed, Published, Sighted, Hidden
  <2>3. thread' = [thread EXCEPT ![c] = Nobody]
    BY <1>1, <1>3
  <2>4. QED
    BY <1>1, <2>1, <2>2, <2>3, StartsOver
<1>4. QED
  BY <1>2, <1>3

LEMMA CopyStep == ASSUME SettingsInv, NEW c \in Threads, Copy(c) PROVE SettingsInv'
<1> DEFINE was == thread[c]
<1> DEFINE found == cache[was.store]
<1> DEFINE u == [was EXCEPT !.got = found]
<1>1. /\ At(c, "copy") /\ Goes(c, u)
      /\ UNCHANGED <<rows, key, cache, values, current, raw, shown, answered>>
  BY DEF Copy
<1>2. was \in Thread /\ found \in Config \cup {None} /\ found = cache[was.store]
  BY StateOf
<1>3. u = [was EXCEPT !.got = found]
  OBVIOUS
<1> HIDE DEF was, found, u
<1>4. /\ u \in Thread /\ u.todo = was.todo /\ u.op = was.op /\ u.view = was.view
      /\ u.since = was.since /\ u.store = was.store /\ u.got = found /\ u.wrote = was.wrote
  BY <1>2, <1>3 DEF Thread
<1>5. CachesAfter(was)
  BY <1>1 DEF CachesAfter
<1>6. u.got = cache[was.store]
  BY <1>2, <1>4
<1>7. /\ rows' \in rows..MaxSaves /\ key' \in 0..MaxKeys /\ values' \in 0..MaxKeys \cup {None}
      /\ cache' \in [Stores -> Config \cup {None}] /\ u.wrote <= rows'
  BY <1>1, <1>4, StateOf DEF was
<1>8. QED
  BY <1>1, <1>4, <1>5, <1>6, <1>7, GoesOn DEF was

LEMMA BeginStep == ASSUME SettingsInv, NEW c \in Threads, NEW op \in Ops, Begin(c, op) PROVE SettingsInv'
<1> DEFINE todo == Program(op)
<1> DEFINE t == [Nobody EXCEPT !.op = op, !.todo = todo, !.since = answered]
<1>1. /\ thread' = [thread EXCEPT ![c] = t]
      /\ UNCHANGED <<rows, key, cache, values, current, raw, shown, answered>>
  BY DEF Begin
<1>2. /\ todo \in Seq(Steps) /\ Sorted(op, todo) /\ Backed(todo) /\ Whole(op, Range(todo))
      /\ op = "read" => "sight" \in Range(todo)
      /\ "keep" \in Range(todo) => "load" \in Range(todo)
      /\ op = "patch" => "renew" \in Range(todo)
      /\ "show" \in Range(todo) => "renew" \in Range(todo)
  BY Programs
<1>3. answered \in Saved /\ answered.patch <= answered.patch
  BY DEF SettingsInv, Typed, Saved
<1>4. t = [Nobody EXCEPT !.op = op, !.todo = todo, !.since = answered]
  OBVIOUS
<1> HIDE DEF todo, t
<1>5. /\ Nobody \in Thread /\ Nobody.got = None /\ Nobody.view = First /\ Nobody.wrote = 0
  BY NobodyIs
<1>6. /\ t \in Thread /\ t.op = op /\ t.todo = todo /\ t.since = answered
      /\ t.got = None /\ t.view = First /\ t.wrote = 0
  BY <1>2, <1>3, <1>4, <1>5 DEF Thread
<1>7. Shape(t)
  BY <1>2, <1>6 DEF Shape
<1>8. ~InFlight(t) /\ ~Filling(t) /\ ~Renewed(t) /\ ~Published(t) /\ ~Sighted(t) /\ ~Hidden(t)
  BY <1>2, <1>6 DEF InFlight, Filling, Renewed, Published, Sighted, Hidden, Holds, Whole
<1>9. QED
  BY <1>1, <1>3, <1>6, <1>7, <1>8, StartsOver
(***************************************************************************)
(* The steps that look at a Settings object, fill it, or publish another.  *)
(***************************************************************************)
\* A thread that was `was` has done its step and is t; u says what it got.
After(was, step, u, t) ==
    /\ was \in Thread /\ Shape(was) /\ t \in Thread /\ Shape(t)
    /\ t.op = was.op /\ t.store = u.store /\ t.view = u.view /\ t.got = u.got
    /\ t.wrote = u.wrote /\ t.since = u.since
    /\ \A x : Holds(was, x) <=> x = step \/ Holds(t, x)
    /\ \A y : Holds(t, y) => InOrder(was.op, step, y)
    /\ step \in {"sight", "put", "see"} => was.op = "read" /\ Holds(was, "see")
    /\ step \in {"renew", "show"} => was.op # "read"

LEMMA GoneOn ==
    ASSUME SettingsInv, NEW c \in Threads, NEW step, At(c, step),
           NEW u \in Thread, u.todo = thread[c].todo, u.op = thread[c].op,
           (u.got = thread[c].got /\ step \notin Sources) \/ step = "see"
    PROVE  After(thread[c], step, u, Rest(u))
<1> DEFINE was == thread[c]
<1>1. was \in Thread /\ Shape(was)
  BY StateOf
<1>2. was.todo # <<>> /\ Head(was.todo) = step
  BY DEF At
<1>3. /\ u.todo = was.todo /\ u.op = was.op
      /\ u.got # None \/ (u.got = was.got /\ step \notin Sources) \/ step \in {"copy", "see"}
      /\ step = "sight" => u.got = was.got
  OBVIOUS
<1> HIDE DEF was
<1> DEFINE t == Rest(u)
<1>4. /\ t \in Thread /\ Shape(t)
      /\ t.op = was.op /\ t.store = u.store /\ t.view = u.view /\ t.got = u.got
      /\ t.wrote = u.wrote /\ t.since = u.since
      /\ \A x : Holds(was, x) <=> x = step \/ Holds(t, x)
      /\ \A y : Holds(t, y) => InOrder(was.op, step, y)
      /\ step \in Needs => was.got # None
  BY <1>1, <1>2, <1>3, Moved
<1>5. step \in {"sight", "put", "see"} => was.op = "read" /\ Holds(was, "see")
  BY <1>1, <1>4 DEF Shape, Whole, Holds
<1>6. step \in {"renew", "show"} => was.op # "read"
  BY <1>1, <1>4 DEF Shape, Whole, Holds
<1>7. QED
  BY <1>1, <1>4, <1>5, <1>6 DEF After, was

LEMMA SightStep == ASSUME SettingsInv, NEW c \in Threads, Sight(c) PROVE SettingsInv'
<1> DEFINE was == thread[c]
<1> DEFINE u == [was EXCEPT !.view = shown]
<1> DEFINE t == Rest(u)
<1>1. /\ At(c, "sight") /\ thread' = [thread EXCEPT ![c] = t]
      /\ UNCHANGED <<rows, key, cache, values, current, raw, shown, answered>>
  BY DEF Sight, Goes, Rest
<1>2. was \in Thread /\ shown \in Stores
  BY StateOf DEF SettingsInv, Typed
<1>3. u = [was EXCEPT !.view = shown] /\ t = Rest(u)
  OBVIOUS
<1> HIDE DEF was, u, t
<1>4. /\ u \in Thread /\ u.todo = was.todo /\ u.op = was.op /\ u.view = shown /\ u.since = was.since
      /\ u.store = was.store /\ u.got = was.got /\ u.wrote = was.wrote
  BY <1>2, <1>3 DEF Thread
<1>5. /\ Shape(was) /\ t \in Thread /\ Shape(t)
      /\ t.op = was.op /\ t.store = u.store /\ t.view = u.view /\ t.got = u.got
      /\ t.wrote = u.wrote /\ t.since = u.since
      /\ \A x : Holds(was, x) <=> x = "sight" \/ Holds(t, x)
      /\ \A y : Holds(t, y) => InOrder(was.op, "sight", y)
      /\ was.op = "read" /\ Holds(was, "see")
  <2>1. /\ u.todo = thread[c].todo /\ u.op = thread[c].op
        /\ u.got = thread[c].got /\ "sight" \notin Sources
    BY <1>4 DEF was, Sources
  <2>2. After(thread[c], "sight", u, Rest(u))
    BY <1>1, <1>4, <2>1, GoneOn
  <2>3. QED
    BY <2>2 DEF After, was, t
<1>6. /\ Holds(t, "hold") /\ Holds(t, "put") /\ Holds(t, "see") /\ ~Holds(t, "show")
      /\ t.got = None /\ t.op = "read"
  BY <1>4, <1>5 DEF Shape, Whole, Holds
<1>7. Turn(c, t)
  <2>1. FlightAfter(was, t)
    BY <1>4, <1>5 DEF FlightAfter, InFlight
  <2>2. FillingAfter(was, t)
    BY <1>6 DEF FillingAfter
  <2>3. QED
    BY <1>1, <2>1, <2>2 DEF Turn, CachesAfter, was
<1>8. /\ \A e \in Threads : thread'[e] = IF e = c THEN t ELSE thread[e]
      /\ Floor(cache', thread', current, answered.patch)
      /\ \A e \in Threads : Renewed(thread[e]) => Floor(cache', thread', current, thread[e].wrote)
      /\ Coming(cache', thread', shown, answered.patch)
      /\ \A e \in Threads : Published(thread[e]) => Coming(cache', thread', shown, thread[e].wrote)
      /\ \A e \in Threads : Sighted(thread[e]) =>
             Coming(cache', thread', thread[e].view, thread[e].since.patch)
  BY <1>5, <1>7, Keeps
<1>9. ~Renewed(t) /\ ~Published(t) /\ ~Hidden(t)
  BY <1>6 DEF Renewed, Published, Hidden
<1>10. t.wrote <= rows /\ t.since.patch <= answered.patch
  BY <1>4, <1>5 DEF SettingsInv, Counted, was
<1>11. Typed' /\ Shapes' /\ Counted'
  BY <1>1, <1>5, <1>8, <1>10 DEF SettingsInv, Typed, Shapes, Counted
<1>12. StoreIsNew' /\ ObjectGetsNew'
  BY <1>1, <1>8, <1>9 DEF StoreIsNew, ObjectGetsNew
<1>13. ReadersSee'
  <2>1. Coming(cache', thread', shown, t.since.patch)
    <3>1. Typed' /\ Shapes' /\ t.since.patch \in Int /\ answered.patch \in Int
      <4>1. t.since \in Saved
        BY <1>5, ThreadOf
      <4>2. answered \in Saved
        BY DEF SettingsInv, Typed
      <4>3. QED
        BY <1>11, <4>1, <4>2, SettingsConstants DEF Saved
    <3>2. QED
      BY <1>8, <1>10, <3>1, EarlierNext
  <2>2. ASSUME NEW d \in Threads \ {c}, Sighted(thread'[d])
        PROVE  /\ Coming(cache', thread', thread'[d].view, thread'[d].since.patch)
               /\ ~Holds(thread'[d], "put") =>
                     NotBefore(raw[thread'[d].view], thread'[d].since.patch)
               /\ ~Holds(thread'[d], "see") =>
                     NotBefore(thread'[d].got, thread'[d].since.patch)
    BY <1>8, <2>2 DEF SettingsInv, ReadersSee
  <2>3. /\ Coming(cache', thread', t.view, t.since.patch)
        /\ Holds(t, "put") /\ Holds(t, "see") /\ thread'[c] = t
    BY <1>1, <1>4, <1>5, <1>6, <1>8, <2>1
  <2>4. QED
    BY <1>1, <2>2, <2>3 DEF ReadersSee
<1>14. HiddenFromOthers'
  <2>1. ASSUME NEW e \in Threads, Hidden(thread'[e])
        PROVE  /\ thread'[e].view \notin {shown, First}
               /\ \A d \in Threads \ {e} : thread'[d].view # thread'[e].view
    <3>1. e # c /\ thread'[e] = thread[e] /\ Hidden(thread[e])
      BY <1>8, <1>9, <2>1
    <3>2. /\ thread[e].view \notin {shown, First}
          /\ \A d \in Threads \ {e} : thread[d].view # thread[e].view
      BY <3>1 DEF SettingsInv, HiddenFromOthers
    <3>3. \A d \in Threads : thread'[d].view \in {thread[d].view, shown}
      BY <1>4, <1>5, <1>8
    <3>4. QED
      BY <3>1, <3>2, <3>3
  <2>2. QED
    BY <1>1, <2>1 DEF HiddenFromOthers
<1>15. QED
  BY <1>11, <1>12, <1>13, <1>14 DEF SettingsInv
LEMMA PutStep == ASSUME SettingsInv, NEW c \in Threads, Put(c) PROVE SettingsInv'
<1> DEFINE was == thread[c]
<1> DEFINE t == Rest(was)
<1>1. /\ At(c, "put") /\ thread' = [thread EXCEPT ![c] = t]
      /\ raw' = [raw EXCEPT ![was.view] = was.got]
      /\ UNCHANGED <<rows, key, cache, values, current, shown, answered>>
  BY DEF Put, Goes, Rest
<1>2. /\ was \in Thread /\ was.got \in Config \cup {None} /\ was.view \in Stores
      /\ raw \in [Stores -> Config \cup {None}]
  BY <1>1, StateOf, ThreadOf DEF SettingsInv, Typed
<1>3. After(was, "put", was, t)
  <2>1. "put" \notin Sources
    BY DEF Sources
  <2>2. QED
    BY <1>1, <1>2, <2>1, GoneOn
<1> HIDE DEF was, t
<1>4. was.op = "read" /\ Holds(was, "see") /\ Holds(was, "put")
  BY <1>3 DEF After
<1>5. /\ t \in Thread /\ Shape(t)
      /\ t.op = was.op /\ t.store = was.store /\ t.view = was.view /\ t.got = was.got
      /\ t.wrote = was.wrote /\ t.since = was.since
      /\ \A x : Holds(was, x) <=> x = "put" \/ Holds(t, x)
      /\ \A y : Holds(t, y) => InOrder(was.op, "put", y)
  BY <1>3 DEF After
<1>6. /\ ~Holds(t, "put") /\ Holds(t, "see") /\ ~Holds(t, "show") /\ t.op = "read"
      /\ ~Holds(was, "sight")
  BY <1>4, <1>5 DEF Shape, Whole, Holds, InOrder
<1>7. Turn(c, t)
  <2>1. FlightAfter(was, t)
    BY <1>5 DEF FlightAfter, InFlight
  <2>2. FillingAfter(was, t)
    BY <1>6 DEF FillingAfter, Filling
  <2>3. QED
    BY <1>1, <2>1, <2>2 DEF Turn, CachesAfter, was
<1>8. /\ \A e \in Threads : thread'[e] = IF e = c THEN t ELSE thread[e]
      /\ Floor(cache', thread', current, answered.patch)
      /\ \A e \in Threads : Renewed(thread[e]) => Floor(cache', thread', current, thread[e].wrote)
      /\ Coming(cache', thread', shown, answered.patch)
      /\ \A e \in Threads : Published(thread[e]) => Coming(cache', thread', shown, thread[e].wrote)
      /\ \A e \in Threads : Sighted(thread[e]) =>
             Coming(cache', thread', thread[e].view, thread[e].since.patch)
  BY <1>5, <1>7, Keeps
<1>9. ~Renewed(t) /\ ~Published(t) /\ ~Hidden(t)
  BY <1>6 DEF Renewed, Published, Hidden
<1>10. t.wrote <= rows /\ t.since.patch <= answered.patch
  BY <1>5 DEF SettingsInv, Counted, was
<1>11. Typed' /\ Shapes' /\ Counted'
  BY <1>1, <1>2, <1>5, <1>8, <1>10 DEF SettingsInv, Typed, Shapes, Counted
<1>12. StoreIsNew' /\ ObjectGetsNew'
  BY <1>1, <1>8, <1>9 DEF StoreIsNew, ObjectGetsNew
<1>13. Filling(was)
  BY <1>2, <1>4, <1>6 DEF Filling
<1>14. ASSUME NEW d \in Threads, Sighted(thread[d]), thread[d].view = was.view
       PROVE  NotBefore(was.got, thread[d].since.patch)
  <2>1. Coming(cache, thread, thread[d].view, thread[d].since.patch)
    BY <1>14 DEF SettingsInv, ReadersSee
  <2>2. QED
    BY <1>13, <1>14, <2>1 DEF Coming, NotBefore, was
<1>15. ReadersSee'
  <2>1. ASSUME NEW d \in Threads, Sighted(thread'[d])
        PROVE  /\ Coming(cache', thread', thread'[d].view, thread'[d].since.patch)
               /\ ~Holds(thread'[d], "put") =>
                     NotBefore(raw'[thread'[d].view], thread'[d].since.patch)
               /\ ~Holds(thread'[d], "see") =>
                     NotBefore(thread'[d].got, thread'[d].since.patch)
    <3>1. /\ Sighted(thread[d]) /\ thread'[d].view = thread[d].view
          /\ thread'[d].since = thread[d].since /\ thread'[d].got = thread[d].got
          /\ Holds(thread'[d], "see") <=> Holds(thread[d], "see")
          /\ d # c => thread'[d] = thread[d]
      BY <1>4, <1>5, <1>6, <1>8, <2>1 DEF Sighted, was
    <3>2. /\ ~Holds(thread[d], "put") =>
                NotBefore(raw[thread[d].view], thread[d].since.patch)
          /\ ~Holds(thread[d], "see") =>
                NotBefore(thread[d].got, thread[d].since.patch)
      BY <3>1 DEF SettingsInv, ReadersSee
    <3>3. CASE thread[d].view = was.view
      <4>1. raw'[thread[d].view] = was.got
        BY <1>1, <1>2, <3>3
      <4>2. QED
        BY <1>8, <1>13, <1>14, <3>1, <3>2, <3>3, <4>1
    <3>4. CASE thread[d].view # was.view
      <4>1. d # c /\ raw'[thread[d].view] = raw[thread[d].view]
        <5>1. thread[d].view \in Stores
          BY ThreadOf DEF SettingsInv, Typed
        <5>2. QED
          BY <1>1, <1>2, <3>4, <5>1 DEF was
      <4>2. QED
        BY <1>8, <3>1, <3>2, <4>1
    <3>5. QED
      BY <3>3, <3>4
  <2>2. QED
    BY <2>1 DEF ReadersSee
<1>16. HiddenFromOthers'
  <2>1. ASSUME NEW e \in Threads, Hidden(thread'[e])
        PROVE  /\ thread'[e].view \notin {shown, First}
               /\ \A d \in Threads \ {e} : thread'[d].view # thread'[e].view
    <3>1. e # c /\ thread'[e] = thread[e] /\ Hidden(thread[e])
      BY <1>8, <1>9, <2>1
    <3>2. /\ thread[e].view \notin {shown, First}
          /\ \A d \in Threads \ {e} : thread[d].view # thread[e].view
      BY <3>1 DEF SettingsInv, HiddenFromOthers
    <3>3. \A d \in Threads : thread'[d].view = thread[d].view
      BY <1>4, <1>5, <1>8 DEF was
    <3>4. QED
      BY <3>1, <3>2, <3>3
  <2>2. QED
    BY <1>1, <2>1 DEF HiddenFromOthers
<1>17. QED
  BY <1>11, <1>12, <1>15, <1>16 DEF SettingsInv

LEMMA SeeStep == ASSUME SettingsInv, NEW c \in Threads, See(c) PROVE SettingsInv'
<1> DEFINE was == thread[c]
<1> DEFINE g == raw[was.view]
<1> DEFINE u == [was EXCEPT !.got = g]
<1> DEFINE t == Rest(u)
<1>1. /\ At(c, "see") /\ thread' = [thread EXCEPT ![c] = t]
      /\ UNCHANGED <<rows, key, cache, values, current, raw, shown, answered>>
  BY DEF See, Goes, Rest
<1>2. was \in Thread /\ g \in Config \cup {None} /\ was.todo # <<>> /\ Head(was.todo) = "see"
  BY <1>1, StateOf, ThreadOf DEF SettingsInv, Typed, At
<1>3. NotBefore(g, was.since.patch) /\ was.op = "read"
  <2> DEFINE s == was.todo
  <2> DEFINE op == was.op
  <2>1. s \in Seq(Steps) /\ s # <<>> /\ Head(s) = "see" /\ Sorted(op, s) /\ Whole(op, Range(s))
    BY <1>2, StateOf, ThreadOf DEF Shape
  <2> HIDE DEF s, op
  <2>2. Range(s) = {Head(s)} \cup Range(Tail(s)) /\ \A y \in Range(Tail(s)) : InOrder(op, Head(s), y)
    BY <2>1, Popped
  <2>3. op = "read" /\ "sight" \notin Range(s) /\ "put" \notin Range(s)
    BY <2>1, <2>2 DEF Whole, InOrder
  <2>4. Sighted(was) /\ ~Holds(was, "put") /\ was.op = "read"
    BY <2>3 DEF Sighted, Holds, s, op
  <2>5. QED
    BY <2>4 DEF SettingsInv, ReadersSee
<1> HIDE DEF g
<1>4. u = [was EXCEPT !.got = g]
  OBVIOUS
<1> HIDE DEF was, u, t
<1>5. /\ u \in Thread /\ u.todo = was.todo /\ u.op = was.op /\ u.view = was.view
      /\ u.since = was.since /\ u.store = was.store /\ u.got = g /\ u.wrote = was.wrote
  BY <1>2, <1>4 DEF Thread
<1>6. After(was, "see", u, t)
  BY <1>1, <1>3, <1>5, GoneOn DEF was, t
<1>7. /\ t \in Thread /\ Shape(t) /\ t.op = "read" /\ t.store = was.store /\ t.view = was.view
      /\ t.got = g /\ t.wrote = was.wrote /\ t.since = was.since
      /\ \A x : Holds(was, x) <=> x = "see" \/ Holds(t, x)
      /\ \A y : ~Holds(t, y)
  BY <1>3, <1>5, <1>6 DEF After, InOrder
<1>8. Turn(c, t)
  <2>1. FlightAfter(was, t) /\ FillingAfter(was, t)
    BY <1>7 DEF FlightAfter, InFlight, FillingAfter, Filling
  <2>2. QED
    BY <1>1, <2>1 DEF Turn, CachesAfter, was
<1>9. Sighted(was) /\ ~Holds(was, "put") /\ ~Renewed(t) /\ ~Published(t) /\ ~Hidden(t)
  BY <1>3, <1>7 DEF Sighted, Renewed, Published, Hidden
<1>10. /\ \A e \in Threads : thread'[e] = IF e = c THEN t ELSE thread[e]
       /\ Floor(cache', thread', current, answered.patch)
       /\ \A e \in Threads : Renewed(thread[e]) => Floor(cache', thread', current, thread[e].wrote)
       /\ Coming(cache', thread', shown, answered.patch)
       /\ \A e \in Threads : Published(thread[e]) => Coming(cache', thread', shown, thread[e].wrote)
       /\ \A e \in Threads : Sighted(thread[e]) =>
              Coming(cache', thread', thread[e].view, thread[e].since.patch)
  BY <1>7, <1>8, Keeps
<1>11. t.wrote <= rows /\ t.since.patch <= answered.patch
  BY <1>7 DEF SettingsInv, Counted, was
<1>12. Typed' /\ Shapes' /\ Counted'
  BY <1>1, <1>7, <1>10, <1>11 DEF SettingsInv, Typed, Shapes, Counted
<1>13. StoreIsNew' /\ ObjectGetsNew'
  BY <1>1, <1>9, <1>10 DEF StoreIsNew, ObjectGetsNew
<1>14. ReadersSee'
  <2>1. ASSUME NEW d \in Threads \ {c}, Sighted(thread'[d])
        PROVE  /\ Coming(cache', thread', thread'[d].view, thread'[d].since.patch)
               /\ ~Holds(thread'[d], "put") =>
                     NotBefore(raw[thread'[d].view], thread'[d].since.patch)
               /\ ~Holds(thread'[d], "see") =>
                     NotBefore(thread'[d].got, thread'[d].since.patch)
    BY <1>10, <2>1 DEF SettingsInv, ReadersSee
  <2>2. /\ Coming(cache', thread', t.view, t.since.patch)
        /\ NotBefore(raw[t.view], t.since.patch)
        /\ NotBefore(t.got, t.since.patch)
    BY <1>3, <1>7, <1>9, <1>10 DEF was, g
  <2>3. QED
    BY <1>1, <1>10, <2>1, <2>2 DEF ReadersSee
<1>15. HiddenFromOthers'
  <2>1. ASSUME NEW e \in Threads, Hidden(thread'[e])
        PROVE  /\ thread'[e].view \notin {shown, First}
               /\ \A d \in Threads \ {e} : thread'[d].view # thread'[e].view
    <3>1. e # c /\ thread'[e] = thread[e] /\ Hidden(thread[e])
      BY <1>9, <1>10, <2>1
    <3>2. /\ thread[e].view \notin {shown, First}
          /\ \A d \in Threads \ {e} : thread[d].view # thread[e].view
      BY <3>1 DEF SettingsInv, HiddenFromOthers
    <3>3. \A d \in Threads : thread'[d].view = thread[d].view
      BY <1>7, <1>10 DEF was
    <3>4. QED
      BY <3>1, <3>2, <3>3
  <2>2. QED
    BY <1>1, <2>1 DEF HiddenFromOthers
<1>16. QED
  BY <1>12, <1>13, <1>14, <1>15 DEF SettingsInv
LEMMA RenewStep == ASSUME SettingsInv, NEW c \in Threads, Renew(c) PROVE SettingsInv'
<1> DEFINE was == thread[c]
<1>1. PICK s \in Stores :
         /\ At(c, "renew") /\ ~InUse(s) /\ current' = s /\ cache' = [cache EXCEPT ![s] = None]
         /\ Goes(c, [was EXCEPT !.store = s, !.view = s])
         /\ UNCHANGED <<rows, key, values, raw, shown, answered>>
  BY DEF Renew
<1> DEFINE u == [was EXCEPT !.store = s, !.view = s]
<1> DEFINE t == Rest(u)
<1>2. thread' = [thread EXCEPT ![c] = t]
  BY <1>1 DEF Goes, Rest
<1>3. /\ was \in Thread /\ cache \in [Stores -> Config \cup {None}]
      /\ s \notin {First, current, shown}
      /\ \A e \in Threads : s # thread[e].store /\ s # thread[e].view
  BY <1>1, StateOf DEF InUse
<1>4. u = [was EXCEPT !.store = s, !.view = s]
  OBVIOUS
<1> HIDE DEF was, u, t
<1>5. /\ u \in Thread /\ u.todo = was.todo /\ u.op = was.op /\ u.view = s
      /\ u.since = was.since /\ u.store = s /\ u.got = was.got /\ u.wrote = was.wrote
  BY <1>3, <1>4 DEF Thread
<1>6. After(was, "renew", u, t)
  <2>1. "renew" \notin Sources
    BY DEF Sources
  <2>2. QED
    BY <1>1, <1>5, <2>1, GoneOn DEF was, t
<1>7. /\ t \in Thread /\ Shape(t) /\ t.op = was.op /\ t.store = s /\ t.view = s
      /\ t.got = was.got /\ t.wrote = was.wrote /\ t.since = was.since /\ was.op # "read"
      /\ Shape(was)
      /\ \A x : Holds(was, x) <=> x = "renew" \/ Holds(t, x)
      /\ \A y : Holds(t, y) => InOrder(was.op, "renew", y)
  BY <1>5, <1>6 DEF After
<1>8. Holds(t, "show") /\ ~InFlight(t) /\ ~Filling(t) /\ ~Sighted(t) /\ ~Published(t)
  BY <1>7 DEF Shape, Whole, Holds, InOrder, InFlight, Filling, Sighted, Published
<1>9. Turn(c, t)
  BY <1>1, <1>2, <1>8 DEF Turn, CachesAfter, FlightAfter, FillingAfter
<1>10. /\ \A e \in Threads : thread'[e] = IF e = c THEN t ELSE thread[e]
       /\ Floor(cache', thread', current, answered.patch)
       /\ \A e \in Threads : Renewed(thread[e]) => Floor(cache', thread', current, thread[e].wrote)
       /\ Coming(cache', thread', shown, answered.patch)
       /\ \A e \in Threads : Published(thread[e]) => Coming(cache', thread', shown, thread[e].wrote)
       /\ \A e \in Threads : Sighted(thread[e]) =>
              Coming(cache', thread', thread[e].view, thread[e].since.patch)
  BY <1>7, <1>9, Keeps
<1>11. t.wrote <= rows /\ t.since.patch <= answered.patch
  BY <1>7 DEF SettingsInv, Counted, was
<1>12. Typed' /\ Shapes' /\ Counted'
  <2>1. cache' \in [Stores -> Config \cup {None}] /\ thread' \in [Threads -> Thread]
    BY <1>1, <1>2, <1>3, <1>7, StateOf
  <2>2. QED
    BY <1>1, <1>7, <1>10, <1>11, <2>1 DEF SettingsInv, Typed, Shapes, Counted
<1>13. \A w : Floor(cache', thread', s, w)
  <2>1. cache'[s] = None
    BY <1>1, <1>3
  <2>2. ASSUME NEW e \in Threads, thread'[e].store = s PROVE ~InFlight(thread'[e])
    BY <1>3, <1>8, <1>10, <2>2
  <2>3. QED
    BY <2>1, <2>2 DEF Floor
<1>14. StoreIsNew'
  BY <1>1, <1>13 DEF StoreIsNew
<1>15. ObjectGetsNew'
  BY <1>1, <1>8, <1>10 DEF ObjectGetsNew
<1>16. ReadersSee'
  <2>1. ASSUME NEW d \in Threads, Sighted(thread'[d])
        PROVE  /\ Coming(cache', thread', thread'[d].view, thread'[d].since.patch)
               /\ ~Holds(thread'[d], "put") =>
                     NotBefore(raw[thread'[d].view], thread'[d].since.patch)
               /\ ~Holds(thread'[d], "see") =>
                     NotBefore(thread'[d].got, thread'[d].since.patch)
    BY <1>8, <1>10, <2>1 DEF SettingsInv, ReadersSee
  <2>2. QED
    BY <1>1, <2>1 DEF ReadersSee
<1>17. HiddenFromOthers'
  <2>1. ASSUME NEW e \in Threads, Hidden(thread'[e])
        PROVE  /\ thread'[e].view \notin {shown, First}
               /\ \A d \in Threads \ {e} : thread'[d].view # thread'[e].view
    <3>1. CASE e = c
      BY <1>3, <1>7, <1>10, <3>1
    <3>2. CASE e # c
      <4>1. /\ thread[e].view \notin {shown, First} /\ thread'[e] = thread[e]
            /\ \A d \in Threads \ {e} : thread[d].view # thread[e].view
        BY <1>10, <2>1, <3>2 DEF SettingsInv, HiddenFromOthers
      <4>2. QED
        BY <1>3, <1>7, <1>10, <4>1
    <3>3. QED
      BY <3>1, <3>2
  <2>2. QED
    BY <1>1, <2>1 DEF HiddenFromOthers
<1>18. QED
  BY <1>12, <1>14, <1>15, <1>16, <1>17 DEF SettingsInv

LEMMA ShowStep == ASSUME SettingsInv, NEW c \in Threads, Show(c) PROVE SettingsInv'
<1> DEFINE was == thread[c]
<1> DEFINE u == [was EXCEPT !.store = First]
<1> DEFINE t == Rest(u)
<1>1. /\ At(c, "show") /\ raw' = [raw EXCEPT ![was.view] = was.got] /\ shown' = was.view
      /\ thread' = [thread EXCEPT ![c] = t]
      /\ UNCHANGED <<rows, key, cache, values, current, answered>>
  BY DEF Show, Goes, Rest
<1>2. /\ was \in Thread /\ was.got \in Config \cup {None} /\ was.view \in Stores /\ First \in Stores
      /\ raw \in [Stores -> Config \cup {None}]
  BY <1>1, StateOf, ThreadOf, SettingsConstants DEF SettingsInv, Typed
<1>3. u = [was EXCEPT !.store = First]
  OBVIOUS
<1> HIDE DEF was, u, t
<1>4. /\ u \in Thread /\ u.todo = was.todo /\ u.op = was.op /\ u.view = was.view
      /\ u.since = was.since /\ u.store = First /\ u.got = was.got /\ u.wrote = was.wrote
  BY <1>2, <1>3 DEF Thread
<1>5. After(was, "show", u, t)
  <2>1. "show" \notin Sources
    BY DEF Sources
  <2>2. QED
    BY <1>1, <1>4, <2>1, GoneOn DEF was, t
<1>6. /\ t \in Thread /\ Shape(t) /\ t.op = was.op /\ t.store = First /\ t.view = was.view
      /\ t.got = was.got /\ t.wrote = was.wrote /\ t.since = was.since /\ was.op # "read"
      /\ \A x : Holds(was, x) <=> x = "show" \/ Holds(t, x)
      /\ \A y : Holds(t, y) => InOrder(was.op, "show", y)
  BY <1>4, <1>5 DEF After
<1>7. /\ ~InFlight(t) /\ ~Filling(t) /\ ~Sighted(t) /\ ~Hidden(t) /\ Hidden(was)
      /\ Renewed(t) => Renewed(was)
  BY <1>6 DEF InOrder, InFlight, Filling, Sighted, Hidden, Renewed
<1>8. Turn(c, t)
  BY <1>1, <1>7 DEF Turn, CachesAfter, FlightAfter, FillingAfter
<1>9. /\ \A e \in Threads : thread'[e] = IF e = c THEN t ELSE thread[e]
      /\ Floor(cache', thread', current, answered.patch)
      /\ \A e \in Threads : Renewed(thread[e]) => Floor(cache', thread', current, thread[e].wrote)
      /\ Coming(cache', thread', shown, answered.patch)
      /\ \A e \in Threads : Published(thread[e]) => Coming(cache', thread', shown, thread[e].wrote)
      /\ \A e \in Threads : Sighted(thread[e]) =>
             Coming(cache', thread', thread[e].view, thread[e].since.patch)
  BY <1>6, <1>8, Keeps
<1>10. t.wrote <= rows /\ t.since.patch <= answered.patch
  BY <1>6 DEF SettingsInv, Counted, was
<1>11. Typed' /\ Shapes' /\ Counted'
  <2>1. raw' \in [Stores -> Config \cup {None}] /\ thread' \in [Threads -> Thread]
    BY <1>1, <1>2, <1>6, StateOf
  <2>2. QED
    BY <1>1, <1>2, <1>6, <1>9, <1>10, <2>1 DEF SettingsInv, Typed, Shapes, Counted
<1>12. \A d \in Threads \ {c} : thread[d].view # was.view
  BY <1>7 DEF SettingsInv, HiddenFromOthers, was
<1>13. StoreIsNew'
  <2>1. ASSUME NEW e \in Threads, Renewed(thread'[e])
        PROVE  Floor(cache', thread', current, thread'[e].wrote)
    <3>1. Renewed(thread[e]) /\ thread'[e].wrote = thread[e].wrote
      BY <1>6, <1>7, <1>9, <2>1 DEF was
    <3>2. QED
      BY <1>9, <3>1
  <2>2. QED
    BY <1>1, <1>9, <2>1 DEF StoreIsNew
<1>14. ObjectGetsNew'
  <2>1. ASSUME NEW e \in Threads, Filling(thread'[e]) PROVE thread'[e].view # was.view
    BY <1>7, <1>9, <1>12, <2>1
  <2>2. \A w : Coming(cache', thread', was.view, w)
    BY <2>1 DEF Coming
  <2>3. QED
    BY <1>1, <2>2 DEF ObjectGetsNew
<1>15. ReadersSee'
  <2>1. ASSUME NEW d \in Threads, Sighted(thread'[d])
        PROVE  /\ Coming(cache', thread', thread'[d].view, thread'[d].since.patch)
               /\ ~Holds(thread'[d], "put") =>
                     NotBefore(raw'[thread'[d].view], thread'[d].since.patch)
               /\ ~Holds(thread'[d], "see") =>
                     NotBefore(thread'[d].got, thread'[d].since.patch)
    <3>1. d # c /\ thread'[d] = thread[d] /\ Sighted(thread[d])
      BY <1>7, <1>9, <2>1
    <3>2. raw'[thread[d].view] = raw[thread[d].view]
      <4>1. thread[d].view # was.view /\ thread[d].view \in Stores
        BY <1>12, <3>1, ThreadOf DEF SettingsInv, Typed
      <4>2. QED
        BY <1>1, <1>2, <4>1
    <3>3. QED
      BY <1>9, <3>1, <3>2 DEF SettingsInv, ReadersSee
  <2>2. QED
    BY <2>1 DEF ReadersSee
<1>16. HiddenFromOthers'
  <2>1. ASSUME NEW e \in Threads, Hidden(thread'[e])
        PROVE  /\ thread'[e].view \notin {was.view, First}
               /\ \A d \in Threads \ {e} : thread'[d].view # thread'[e].view
    <3>1. e # c /\ thread'[e] = thread[e] /\ Hidden(thread[e])
      BY <1>7, <1>9, <2>1
    <3>2. /\ thread[e].view # First
          /\ \A d \in Threads \ {e} : thread[d].view # thread[e].view
      BY <3>1 DEF SettingsInv, HiddenFromOthers
    <3>3. \A d \in Threads : thread'[d].view = thread[d].view
      BY <1>6, <1>9 DEF was
    <3>4. QED
      BY <3>1, <3>2, <3>3 DEF was
  <2>2. QED
    BY <1>1, <2>1 DEF HiddenFromOthers
<1>17. QED
  BY <1>11, <1>13, <1>14, <1>15, <1>16 DEF SettingsInv

LEMMA AnswerStep == ASSUME SettingsInv, NEW c \in Threads, Answer(c) PROVE SettingsInv'
<1> DEFINE was == thread[c]
<1> DEFINE p == IF was.op = "patch" THEN Larger(answered.patch, was.wrote) ELSE answered.patch
<1>1. /\ At(c, "answer") /\ thread' = [thread EXCEPT ![c] = Nobody]
      /\ answered' = [patch |-> p, any |-> Larger(answered.any, was.wrote),
                      key |-> Larger(answered.key, was.wrotekey)]
      /\ UNCHANGED <<rows, key, cache, values, current, raw, shown>>
  BY DEF Answer
<1>2. /\ was \in Thread /\ was.wrote \in 0..rows /\ was.wrotekey \in 0..MaxKeys
      /\ answered.patch \in 0..rows /\ answered.any \in 0..MaxSaves /\ answered.key \in 0..MaxKeys
      /\ rows \in 0..MaxSaves /\ MaxSaves \in Nat /\ MaxKeys \in Nat
      /\ was.wrote \in 0..MaxSaves
  BY StateOf, ThreadOf DEF SettingsInv, Typed, Saved, Counted
<1>3. ~Holds(was, "renew") /\ ~Holds(was, "show")
  <2> DEFINE s == was.todo
  <2> DEFINE op == was.op
  <2>1. s \in Seq(Steps) /\ s # <<>> /\ Head(s) = "answer" /\ Sorted(op, s)
    BY <1>1, <1>2, StateOf, ThreadOf DEF Shape, At
  <2> HIDE DEF s, op
  <2>2. Range(s) = {Head(s)} \cup Range(Tail(s)) /\ \A y \in Range(Tail(s)) : InOrder(op, Head(s), y)
    BY <2>1, Popped
  <2>3. "renew" \notin Range(s) /\ "show" \notin Range(s)
    BY <2>1, <2>2 DEF InOrder
  <2>4. QED
    BY <2>3 DEF Holds, s
<1>4. /\ p \in 0..rows /\ answered.patch <= p
      /\ p = answered.patch \/ (was.op = "patch" /\ p = was.wrote)
  BY <1>2 DEF Larger
<1> HIDE DEF was, p
<1>5. answered' \in Saved /\ answered'.patch = p
  BY <1>1, <1>2, <1>4 DEF Saved, Larger
<1>6. /\ Nobody \in Thread /\ Shape(Nobody) /\ Nobody.wrote = 0 /\ Nobody.since.patch = 0
      /\ Nobody.view = First
      /\ ~InFlight(Nobody) /\ ~Filling(Nobody) /\ ~Renewed(Nobody) /\ ~Published(Nobody)
      /\ ~Sighted(Nobody) /\ ~Hidden(Nobody)
  BY NobodyIs DEF InFlight, Filling, Renewed, Published, Sighted, Hidden
<1> DEFINE t == Nobody
<1>7. Turn(c, t)
  BY <1>1, <1>6 DEF Turn, CachesAfter, FlightAfter, FillingAfter
<1> HIDE DEF t
<1>8. /\ \A e \in Threads : thread'[e] = IF e = c THEN t ELSE thread[e]
      /\ Floor(cache', thread', current, answered.patch)
      /\ \A e \in Threads : Renewed(thread[e]) => Floor(cache', thread', current, thread[e].wrote)
      /\ Coming(cache', thread', shown, answered.patch)
      /\ \A e \in Threads : Published(thread[e]) => Coming(cache', thread', shown, thread[e].wrote)
      /\ \A e \in Threads : Sighted(thread[e]) =>
             Coming(cache', thread', thread[e].view, thread[e].since.patch)
  BY <1>6, <1>7, Keeps DEF t
<1>9. Typed' /\ Shapes'
  <2>1. thread' \in [Threads -> Thread]
    BY <1>1, <1>6, StateOf
  <2>2. QED
    BY <1>1, <1>5, <1>6, <1>8, <2>1 DEF SettingsInv, Typed, Shapes, t
<1>10. Counted'
  <2>1. ASSUME NEW e \in Threads
        PROVE  thread'[e].wrote <= rows /\ thread'[e].since.patch <= p
    <3>1. CASE e = c
      BY <1>2, <1>4, <1>6, <1>8, <3>1 DEF t
    <3>2. CASE e # c
      <4>1. thread'[e] = thread[e] /\ thread[e].since.patch \in 0..MaxSaves
        BY <1>8, <3>2, ThreadOf DEF SettingsInv, Typed, Saved
      <4>2. thread[e].wrote <= rows /\ thread[e].since.patch <= answered.patch
        BY DEF SettingsInv, Counted
      <4>3. QED
        BY <1>2, <1>4, <4>1, <4>2
    <3>3. QED
      BY <3>1, <3>2
  <2>2. QED
    BY <1>1, <1>2, <1>4, <1>5, <2>1 DEF Counted
<1>11. StoreIsNew'
  <2>1. Floor(cache', thread', current, p)
    BY <1>3, <1>4, <1>8 DEF Renewed, was
  <2>2. QED
    BY <1>1, <1>5, <1>6, <1>8, <2>1 DEF StoreIsNew, t
<1>12. ObjectGetsNew'
  <2>1. Coming(cache', thread', shown, p)
    BY <1>3, <1>4, <1>8 DEF Published, was
  <2>2. QED
    BY <1>1, <1>5, <1>6, <1>8, <2>1 DEF ObjectGetsNew, t
<1>13. ReadersSee'
  <2>1. ASSUME NEW d \in Threads, Sighted(thread'[d])
        PROVE  /\ Coming(cache', thread', thread'[d].view, thread'[d].since.patch)
               /\ ~Holds(thread'[d], "put") =>
                     NotBefore(raw[thread'[d].view], thread'[d].since.patch)
               /\ ~Holds(thread'[d], "see") =>
                     NotBefore(thread'[d].got, thread'[d].since.patch)
    BY <1>6, <1>8, <2>1 DEF SettingsInv, ReadersSee, t
  <2>2. QED
    BY <1>1, <2>1 DEF ReadersSee
<1>14. HiddenFromOthers'
  <2>1. ASSUME NEW e \in Threads, Hidden(thread'[e])
        PROVE  /\ thread'[e].view \notin {shown, First}
               /\ \A d \in Threads \ {e} : thread'[d].view # thread'[e].view
    <3>1. e # c /\ thread'[e] = thread[e] /\ Hidden(thread[e])
      BY <1>6, <1>8, <2>1 DEF t
    <3>2. /\ thread[e].view \notin {shown, First}
          /\ \A d \in Threads \ {e} : thread[d].view # thread[e].view
      BY <3>1 DEF SettingsInv, HiddenFromOthers
    <3>3. \A d \in Threads : thread'[d].view \in {thread[d].view, First}
      BY <1>6, <1>8 DEF t
    <3>4. QED
      BY <3>1, <3>2, <3>3
  <2>2. QED
    BY <1>1, <2>1 DEF HiddenFromOthers
<1>15. QED
  BY <1>9, <1>10, <1>11, <1>12, <1>13, <1>14 DEF SettingsInv

\* With nobody at work and nothing cached.
LEMMA Afresh ==
    ASSUME rows \in 0..MaxSaves, key \in 0..MaxKeys, answered \in Saved, answered.patch <= rows,
           thread = [c \in Threads |-> Nobody], cache = [s \in Stores |-> None], values = None,
           current = First, shown = First, raw = [s \in Stores |-> None]
    PROVE  SettingsInv
<1>1. /\ Nobody \in Thread /\ Shape(Nobody) /\ Nobody.wrote = 0 /\ Nobody.since.patch = 0
      /\ ~InFlight(Nobody) /\ ~Filling(Nobody) /\ ~Renewed(Nobody) /\ ~Published(Nobody)
      /\ ~Sighted(Nobody) /\ ~Hidden(Nobody)
  BY NobodyIs DEF InFlight, Filling, Renewed, Published, Sighted, Hidden
<1>2. \A c \in Threads : thread[c] = Nobody
  OBVIOUS
<1>3. Typed
  BY <1>1, SettingsConstants DEF Typed
<1>4. Shapes
  BY <1>1, <1>2 DEF Shapes
<1>5. 0 <= answered.patch /\ 0 <= rows
  BY SettingsConstants DEF Saved
<1>6. Counted
  BY <1>1, <1>2, <1>5 DEF Counted
<1>7. \A w : Floor(cache, thread, First, w)
  BY <1>1, <1>2, SettingsConstants DEF Floor
<1>8. \A v, w : Coming(cache, thread, v, w)
  BY <1>1, <1>2 DEF Coming
<1>9. StoreIsNew /\ ObjectGetsNew /\ ReadersSee /\ HiddenFromOthers
  BY <1>1, <1>2, <1>7, <1>8 DEF StoreIsNew, ObjectGetsNew, ReadersSee, HiddenFromOthers
<1>10. QED
  BY <1>3, <1>4, <1>6, <1>9 DEF SettingsInv

LEMMA AfreshNext ==
    (/\ rows \in 0..MaxSaves /\ key \in 0..MaxKeys /\ answered \in Saved /\ answered.patch <= rows
     /\ thread = [c \in Threads |-> Nobody] /\ cache = [s \in Stores |-> None] /\ values = None
     /\ current = First /\ shown = First /\ raw = [s \in Stores |-> None])' => SettingsInv'
<1>1. /\ rows \in 0..MaxSaves /\ key \in 0..MaxKeys /\ answered \in Saved /\ answered.patch <= rows
      /\ thread = [c \in Threads |-> Nobody] /\ cache = [s \in Stores |-> None] /\ values = None
      /\ current = First /\ shown = First /\ raw = [s \in Stores |-> None]
      => SettingsInv
  BY Afresh
<1>2. QED
  BY <1>1, PTL

LEMMA RestartStep == ASSUME SettingsInv, Restart PROVE SettingsInv'
<1>1. /\ rows' \in 0..MaxSaves /\ key' \in 0..MaxKeys /\ answered' \in Saved
      /\ answered'.patch <= rows'
  BY DEF Restart, SettingsInv, Typed, Counted
<1>2. /\ thread' = [c \in Threads |-> Nobody] /\ values' = None
      /\ current' = First /\ shown' = First /\ raw' = [s \in Stores |-> None]
      /\ cache' = [s \in Stores |-> None]
  BY DEF Restart, Attached
<1>3. QED
  BY <1>1, <1>2, AfreshNext

(***************************************************************************)
(* The theorems.                                                           *)
(***************************************************************************)
LEMMA SettingsStart == Init => SettingsInv
<1>1. SUFFICES ASSUME Init PROVE SettingsInv
  OBVIOUS
<1>2. MaxSaves \in Nat /\ MaxKeys \in Nat
  BY SettingsConstants
<1>3. /\ rows = 0 /\ key = 0 /\ answered = [patch |-> 0, any |-> 0, key |-> 0]
      /\ thread = [c \in Threads |-> Nobody] /\ cache = [s \in Stores |-> None] /\ values = None
      /\ current = First /\ shown = First /\ raw = [s \in Stores |-> None]
  BY <1>1 DEF Init
<1>4. /\ rows \in 0..MaxSaves /\ key \in 0..MaxKeys /\ answered \in Saved /\ answered.patch <= rows
  BY <1>2, <1>3 DEF Saved
<1>5. QED
  BY <1>3, <1>4, Afresh

LEMMA SettingsSteps == SettingsInv /\ [Next]_vars => SettingsInv'
<1>1. SUFFICES ASSUME SettingsInv, [Next]_vars PROVE SettingsInv'
  OBVIOUS
<1>2. ASSUME NEW c \in Threads, NEW op \in Ops, Begin(c, op) PROVE SettingsInv'
  BY <1>1, <1>2, BeginStep
<1>3. ASSUME NEW c \in Threads, Step(c) PROVE SettingsInv'
  BY <1>1, <1>3, MergedStep, SectionStep, TakeStep, CopyStep, LoadStep, FlagStep, NoteStep, KeepStep, SightStep,
     HoldStep, PutStep, SeeStep, RenewStep, ShowStep, DropStep, SaveStep, SaveKeyStep, ForgetStep,
     AnswerStep DEF Step
<1>4. CASE Restart
  BY <1>1, <1>4, RestartStep
<1>5. CASE UNCHANGED vars
  BY <1>1, <1>5 DEF vars, SettingsInv, Typed, Shapes, Counted, StoreIsNew, ObjectGetsNew, ReadersSee,
                    HiddenFromOthers, Floor, Coming
<1>6. QED
  BY <1>1, <1>2, <1>3, <1>4, <1>5 DEF Next

LEMMA SettingsKept == Spec => []SettingsInv
BY SettingsStart, SettingsSteps, PTL DEF Spec

\* Every variable has its type, and no step of a request finds nothing where it
\* is to cache settings or to save a section over them: what it needs it has
\* loaded itself, or read through section, which fails when another thread
\* dropped the cache in between.  A Settings object may be given nothing,
\* which is what merged hands out in that case (store.py: merged, section).
THEOREM SettingsTypes == Spec => []TypeOK
<1>1. SettingsInv => TypeOK
  <2>1. SUFFICES ASSUME SettingsInv PROVE TypeOK
    OBVIOUS
  <2>2. ASSUME NEW c \in Threads, NEW step \in {"note", "keep", "save"}, At(c, step)
        PROVE  thread[c].got # None
    BY <2>1, <2>2, NeededIsThere DEF Needs
  <2>3. QED
    BY <2>1, <2>2 DEF TypeOK, SettingsInv, Typed
<1>2. QED
  BY <1>1, SettingsKept, PTL

\* A page or a scan that starts after a save of the settings page was answered,
\* and finds settings, finds that save in them (config.load_settings, get_store with
\* force_new): a slow reader fills only the store and the Settings object it
\* looked at before, and nobody reads through those any more.
THEOREM SavesAreSeen == Spec => []ReadSees
<1>1. SettingsInv => ReadSees
  <2>1. SUFFICES ASSUME SettingsInv, NEW c \in Threads, Done(c, "read")
                 PROVE  thread[c].got.rows >= thread[c].since.patch
    BY DEF ReadSees
  <2>2. thread[c].op = "read" /\ thread[c].todo = <<>>
    BY <2>1 DEF Done
  <2>3. \A x : ~Holds(thread[c], x)
    BY <2>2 DEF Holds, Range
  <2>4. QED
    BY <2>1, <2>2, <2>3 DEF SettingsInv, ReadersSee, NotBefore, Sighted, Done
<1>2. QED
  BY <1>1, SettingsKept, PTL

\* The current store holds nothing older than the newest answered save of the
\* settings page, though any thread may fill its cache from rows it read long
\* before (SettingsStore.merged fills the cache without a lock).
THEOREM StoreStaysNew == Spec => []CurrentIsNew
<1>1. SettingsInv => CurrentIsNew
  BY DEF SettingsInv, StoreIsNew, Floor, CurrentIsNew
<1>2. QED
  BY <1>1, SettingsKept, PTL
=============================================================================
