-------------------------- MODULE JsvcLaunchProofs --------------------------
(***************************************************************************)
(* For every command line and every machine: what is accepted is read as   *)
(* it is written, the library the child loads is the one that was asked    *)
(* for, and its output arrives where it was sent to.  The first part is    *)
(* about sequences that are read or filled in a loop, then come home.c and *)
(* java_library, the reading of the arguments one by one (LInv), the class *)
(* path and the reading of the whole command line (WInv), and the output   *)
(* (OInv).                                                                 *)
(***************************************************************************)
EXTENDS JsvcLaunch, SequenceTheorems, WellFoundedInduction, TLAPS

Below == {p \in Nat \X Nat : p[1] < p[2]}

(* No set of numbers goes down for ever.                                   *)
LEMMA BelowWF == IsWellFoundedOn(Below, Nat)
BY NatLessThanWellFounded DEF OpToRel, Below

(* A set of numbers that is not empty has a smallest member.               *)
LEMMA Smallest ==
  ASSUME NEW S, S \subseteq Nat, S # {}
  PROVE  \E m \in S : \A n \in S : m <= n
<1>1. PICK m \in S : \A n \in S : ~(<<n, m>> \in Below)
  BY BelowWF, WFMin
<1>2. \A n \in Nat : n < m => <<n, m>> \in Below
  BY DEF Below
<1>3. \A n \in S : ~(n < m) /\ n \in Nat /\ m \in Nat
  BY <1>1, <1>2
<1>4. \A n \in S : m <= n
  BY <1>3
<1>5. QED
  BY <1>4

(* Min is that member.                                                     *)
LEMMA MinIs ==
  ASSUME NEW S, S \subseteq Nat, S # {}
  PROVE  Min(S) \in S /\ \A n \in S : Min(S) <= n
BY Smallest DEF Min

(* A set with 0 and with the successor of each of its numbers has all.     *)
LEMMA SetInduction ==
  ASSUME NEW S, 0 \in S, \A n \in Nat : n \in S => n + 1 \in S
  PROVE  Nat \subseteq S
<1>1. SUFFICES ASSUME Nat \ S # {} PROVE FALSE
  OBVIOUS
<1>2. PICK m \in Nat \ S : \A n \in Nat \ S : m <= n
  BY <1>1, Smallest
<1>3. QED
  BY <1>2, m - 1 \in Nat, m - 1 + 1 = m

(* Recursion: the values of a loop that starts with a and goes on with     *)
(* step.                                                                   *)
LEMMA Recursion ==
  ASSUME NEW X, NEW a \in X, NEW N \in Nat, NEW step \in [1 .. N -> [X -> X]]
  PROVE  \E f \in [0 .. N -> X] :
           f[0] = a /\ \A i \in 1 .. N : f[i] = step[i][f[i - 1]]
<1> DEFINE Upto(n, f) == f[0] = a /\ \A i \in 1 .. n : f[i] = step[i][f[i - 1]]
           S == {n \in Nat : n <= N => \E f \in [0 .. n -> X] : Upto(n, f)}
<1>1. 0 \in S
  <2>1. [i \in 0 .. 0 |-> a] \in [0 .. 0 -> X] /\ Upto(0, [i \in 0 .. 0 |-> a])
    OBVIOUS
  <2>2. QED  BY <2>1
<1>2. ASSUME NEW n \in Nat, n \in S PROVE n + 1 \in S
  <2>1. SUFFICES ASSUME n + 1 <= N PROVE \E f \in [0 .. n + 1 -> X] : Upto(n + 1, f)
    OBVIOUS
  <2>2. PICK f \in [0 .. n -> X] : Upto(n, f)
    BY <1>2, <2>1
  <2> DEFINE g == [i \in 0 .. n + 1 |-> IF i = n + 1 THEN step[n + 1][f[n]] ELSE f[i]]
  <2>3. g \in [0 .. n + 1 -> X]
    <3>1. step[n + 1] \in [X -> X] /\ f[n] \in X
      BY <2>1, <2>2
    <3>2. step[n + 1][f[n]] \in X
      BY <3>1
    <3>3. QED BY <2>2, <3>2
  <2>4. Upto(n + 1, g)
    <3>1. g[0] = a /\ g[n + 1] = step[n + 1][g[n]]
      BY <2>2
    <3>2. ASSUME NEW i \in 1 .. n PROVE g[i] = step[i][g[i - 1]]
      BY <2>2, i - 1 \in 0 .. n, i \in 0 .. n
    <3>3. \A i \in 1 .. n + 1 : i = n + 1 \/ i \in 1 .. n
      OBVIOUS
    <3> HIDE DEF g
    <3>4. ASSUME NEW i \in 1 .. n + 1 PROVE g[i] = step[i][g[i - 1]]
      BY <3>1, <3>2, <3>3, n + 1 - 1 = n
    <3>5. QED  BY <3>1, <3>4
  <2>5. QED  BY <2>3, <2>4
<1>3. N \in S
  BY <1>1, <1>2, SetInduction
<1>4. QED
  BY <1>3

(* Joined puts one piece after the other.                                  *)
Pieces(p, N, T) == p \in [1 .. N -> Seq(T)]
Joining(f, p, N, T) == /\ f \in [0 .. N -> Seq(T)] /\ f[0] = <<>> /\ Joined(p) = f[N]
                       /\ \A i \in 1 .. N : f[i] = f[i - 1] \o p[i]

(* A loop over the pieces joins them.                                      *)
LEMMA JoinedLoop ==
  ASSUME NEW T, NEW N \in Nat, NEW p, Pieces(p, N, T)
  PROVE  \E f : Joining(f, p, N, T)
<1> DEFINE X == Seq(T)
           a == <<>>
           Then(q, i) == q \o p[i]
           step == [i \in 1 .. N |-> [q \in X |-> Then(q, i)]]
<1>1. N \in Nat /\ a \in X /\ Len(p) = N /\ \A i \in 1 .. N : p[i] \in X
  BY DEF Pieces
<1>2. step \in [1 .. N -> [X -> X]] /\ N \in Nat /\ a \in X
  <2>1. ASSUME NEW i \in 1 .. N, NEW q \in X PROVE Then(q, i) \in X
    BY <1>1
  <2>2. QED
    BY <1>1, <2>1
<1> HIDE DEF step, X, a, Then
<1>3. PICK f \in [0 .. N -> X] : f[0] = a /\ \A i \in 1 .. N : f[i] = step[i][f[i - 1]]
  BY <1>2, Recursion
<1>4. ASSUME NEW i \in 1 .. N PROVE f[i] = Then(f[i - 1], i)
  <2>1. i - 1 \in 0 .. N
    BY <1>1
  <2>2. f[i - 1] \in X
    BY <2>1
  <2>3. QED
    BY <1>3, <2>2 DEF step
<1> DEFINE body(h) == [i \in 0 .. N |-> IF i = 0 THEN a ELSE Then(h[i - 1], i)]
           g == CHOOSE h : h = body(h)
<1>5. f = body(f)
  <2>1. \A i \in 0 .. N : i = 0 \/ i \in 1 .. N
    BY <1>1
  <2>2. \A i \in 0 .. N : f[i] = IF i = 0 THEN a ELSE Then(f[i - 1], i)
    BY <1>3, <1>4, <2>1
  <2>3. QED
    BY <1>3, <2>2
<1>6. g = body(g)
  BY <1>5
<1>7. Joined(p) = g[N]
  BY <1>1 DEF Joined, a, Then
<1> HIDE DEF g
<1>8. g[0] = a
  BY <1>1, <1>6
<1>9. ASSUME NEW i \in 1 .. N PROVE g[i] = Then(g[i - 1], i)
  <2>1. i \in 0 .. N /\ i # 0
    BY <1>1
  <2>2. body(g)[i] = Then(g[i - 1], i)
    BY <2>1
  <2>3. QED
    BY <1>6, <2>2, Zenon
<1> HIDE DEF body
<1> DEFINE P == {n \in Nat : n <= N => g[n] = f[n]}
<1>10. 0 \in P
  BY <1>1, <1>3, <1>8
<1>11. ASSUME NEW m \in Nat, m \in P PROVE m + 1 \in P
  <2>1. SUFFICES ASSUME m + 1 <= N PROVE g[m + 1] = f[m + 1]
    OBVIOUS
  <2>2. m + 1 \in 1 .. N /\ g[m] = f[m] /\ m + 1 - 1 = m
    BY <1>1, <1>11, <2>1
  <2>3. g[m + 1] = Then(g[m], m + 1)
    BY <1>9, <2>2
  <2>4. QED
    BY <1>4, <2>2, <2>3
<1>12. N \in P
  BY <1>1, <1>10, <1>11, SetInduction
<1>13. QED
  <2>1. f \in [0 .. N -> Seq(T)] /\ f[0] = <<>> /\ Joined(p) = f[N]
    BY <1>3, <1>7, <1>12 DEF X, a
  <2>2. \A i \in 1 .. N : f[i] = f[i - 1] \o p[i]
    BY <1>4, Zenon DEF Then
  <2>3. QED
    BY <2>1, <2>2, Zenon DEF Joining

(* Without is a loop that appends the members that stay.                   *)
Keeping(f, s, S, T) ==
  /\ f \in [0 .. Len(s) -> Seq(T)] /\ f[0] = <<>> /\ Without(s, S) = f[Len(s)]
  /\ \A i \in 1 .. Len(s) : f[i] = IF s[i] \in S THEN f[i - 1] ELSE Append(f[i - 1], s[i])

(* Such a loop computes Without.                                           *)
LEMMA WithoutLoop ==
  ASSUME NEW T, NEW s \in Seq(T), NEW S
  PROVE  \E f : Keeping(f, s, S, T)
<1> DEFINE N == Len(s)
           Piece(i) == IF s[i] \in S THEN <<>> ELSE <<s[i]>>
           p == [i \in 1 .. N |-> Piece(i)]
<1>1. N \in Nat /\ DOMAIN s = 1 .. N /\ \A i \in 1 .. N : s[i] \in T
  OBVIOUS
<1>2. Without(s, S) = Joined(p)
  BY <1>1 DEF Without
<1>3. \A i \in 1 .. N : Piece(i) \in Seq(T)
  BY <1>1
<1>4. Pieces(p, N, T)
  BY <1>1, <1>3 DEF Pieces
<1> HIDE DEF p, N
<1>5. PICK f : Joining(f, p, N, T)
  BY <1>1, <1>4, JoinedLoop
<1>6. ASSUME NEW i \in 1 .. N
      PROVE  f[i] = IF s[i] \in S THEN f[i - 1] ELSE Append(f[i - 1], s[i])
  <2>1. i - 1 \in 0 .. N
    BY <1>1
  <2>2. f[i - 1] \in Seq(T) /\ s[i] \in T
    BY <1>1, <1>5, <2>1 DEF Joining
  <2>3. f[i] = f[i - 1] \o Piece(i)
    BY <1>5 DEF Joining, p
  <2>4. f[i - 1] \o <<>> = f[i - 1] /\ f[i - 1] \o <<s[i]>> = Append(f[i - 1], s[i])
    BY <2>2
  <2>5. QED
    BY <2>3, <2>4
<1>7. QED
  BY <1>2, <1>5, <1>6, Zenon DEF Joining, Keeping, N

(* Without has the members of the sequence that are not dropped.           *)
LEMMA WithoutIs ==
  ASSUME NEW T, NEW s \in Seq(T), NEW S
  PROVE  /\ Without(s, S) \in Seq(T)
         /\ \A k \in 1 .. Len(Without(s, S)) :
              \E i \in 1 .. Len(s) : s[i] = Without(s, S)[k] /\ s[i] \notin S
         /\ \A i \in 1 .. Len(s) : s[i] \notin S =>
              \E k \in 1 .. Len(Without(s, S)) : Without(s, S)[k] = s[i]
<1> DEFINE N == Len(s)
           Only(q, n) == \A k \in 1 .. Len(q) : \E i \in 1 .. n : s[i] = q[k] /\ s[i] \notin S
           All(q, n) == \A i \in 1 .. n : s[i] \notin S => \E k \in 1 .. Len(q) : q[k] = s[i]
<1>0. PICK f : Keeping(f, s, S, T)
  BY WithoutLoop
<1>1. /\ f \in [0 .. N -> Seq(T)] /\ f[0] = <<>> /\ Without(s, S) = f[N]
      /\ \A i \in 1 .. N : f[i] = IF s[i] \in S THEN f[i - 1] ELSE Append(f[i - 1], s[i])
  BY <1>0 DEF Keeping
<1>2. N \in Nat /\ \A i \in 1 .. N : s[i] \in T
  OBVIOUS
<1> DEFINE P == {n \in Nat : n <= N => Only(f[n], n) /\ All(f[n], n)}
<1>3. 0 \in P
  BY <1>1
<1>4. ASSUME NEW n \in Nat, n \in P PROVE n + 1 \in P
  <2>1. SUFFICES ASSUME n + 1 <= N PROVE Only(f[n + 1], n + 1) /\ All(f[n + 1], n + 1)
    OBVIOUS
  <2>9. n + 1 \in 1 .. N /\ n \in 0 .. N
    BY <1>2, <2>1
  <2>2. /\ f[n] \in Seq(T) /\ s[n + 1] \in T
        /\ f[n + 1] = IF s[n + 1] \in S THEN f[n] ELSE Append(f[n], s[n + 1])
    BY <1>1, <1>2, <2>9, n + 1 - 1 = n
  <2>3. Only(f[n], n) /\ All(f[n], n)
    BY <1>2, <1>4, <2>1
  <2>4. CASE s[n + 1] \in S
    <3>1. f[n + 1] = f[n]
      BY <2>2, <2>4
    <3>2. \A i \in 1 .. n + 1 : s[i] \notin S => i \in 1 .. n
      BY <2>4
    <3>3. 1 .. n \subseteq 1 .. n + 1
      OBVIOUS
    <3>4. QED
      BY <2>3, <3>1, <3>2, <3>3
  <2>5. CASE s[n + 1] \notin S
    <3> DEFINE q == Append(f[n], s[n + 1])
    <3>1. /\ Len(q) = Len(f[n]) + 1 /\ q[Len(f[n]) + 1] = s[n + 1]
          /\ \A k \in 1 .. Len(f[n]) : q[k] = f[n][k]
          /\ Len(f[n]) \in Nat
      BY <2>2
    <3> HIDE DEF q
    <3>2. Only(q, n + 1)
      <4>1. ASSUME NEW k \in 1 .. Len(q)
            PROVE  \E i \in 1 .. n + 1 : s[i] = q[k] /\ s[i] \notin S
        <5>1. CASE k \in 1 .. Len(f[n])
          BY <2>3, <3>1, <5>1
        <5>2. CASE k = Len(f[n]) + 1
          BY <2>5, <3>1, <5>2
        <5>3. QED
          BY <3>1, <5>1, <5>2
      <4>2. QED
        BY <4>1
    <3>3. All(q, n + 1)
      <4>1. ASSUME NEW i \in 1 .. n + 1, s[i] \notin S PROVE \E k \in 1 .. Len(q) : q[k] = s[i]
        <5>1. CASE i \in 1 .. n
          BY <2>3, <3>1, <4>1, <5>1
        <5>2. CASE i = n + 1
          BY <3>1, <5>2, Len(f[n]) + 1 \in 1 .. Len(q)
        <5>3. QED
          BY <5>1, <5>2
      <4>2. QED
        BY <4>1
    <3>4. f[n + 1] = q
      BY <2>2, <2>5 DEF q
    <3>5. QED
      BY <3>2, <3>3, <3>4
  <2>6. QED
    BY <2>4, <2>5
<1>5. N \in P
  BY <1>2, <1>3, <1>4, SetInduction
<1>6. QED
  BY <1>1, <1>2, <1>5, N \in 0 .. N, SMTT(30)

(* FirstFile is the first path of its list that is on the machine.         *)
LEMMA FirstFileIs ==
  ASSUME NEW m, NEW paths, DOMAIN paths \subseteq Nat
  PROVE  \/ /\ FirstFile(m, paths) = NoFile
            /\ \A i \in DOMAIN paths : paths[i] \notin m.files
         \/ \E i \in DOMAIN paths :
              /\ FirstFile(m, paths) = paths[i] /\ paths[i] \in m.files
              /\ \A j \in DOMAIN paths : j < i => paths[j] \notin m.files
<1> DEFINE found == { i \in DOMAIN paths : paths[i] \in m.files }
<1>1. CASE found = {}
  BY <1>1 DEF FirstFile
<1>2. CASE found # {}
  <2>1. Min(found) \in found /\ \A j \in found : Min(found) <= j
    BY <1>2, MinIs
  <2>2. FirstFile(m, paths) = paths[Min(found)]
    BY <1>2 DEF FirstFile
  <2>3. \A j \in DOMAIN paths : j < Min(found) => j \notin found
    BY <2>1
  <2>4. QED
    BY <2>1, <2>2, <2>3
<1>3. QED
  BY <1>1, <1>2

(* The paths a library may have in the lists of location.c: whole, or in   *)
(* the Java home.                                                          *)
Dirs == {"/jre/lib/CPU/", "/lib/CPU/", "/jre/bin/CPU/", "/bin/CPU/",
         "/jre/lib/", "/lib/", "/jre/bin/", "/bin/"}
Subs == {"classic", "server", "client", "", "classic/green_threads", "fast64", "fast32"}
Place == {<<"/usr/lib/libgcj.so.7">>, <<"/usr/lib/libgcj.so.6">>}
         \cup { <<"$JAVA_HOME", dir, sub, "/libjvm.so">> : dir \in Dirs, sub \in Subs }

(* Every default library is at one of these places.                        *)
LEMMA DefaultPlaces == DefaultLibraries \in Seq(Place)
<1>1. ASSUME NEW dir \in Dirs, NEW places \in Seq(Subs)
      PROVE  Under(dir, places) \in Seq(Place)
  <2>1. \A i \in 1 .. Len(places) : <<"$JAVA_HOME", dir, places[i], "/libjvm.so">> \in Place
    BY DEF Place
  <2>2. QED
    BY <2>1 DEF Under
<1>2. \A s, t \in Seq(Place) : s \o t \in Seq(Place)
  OBVIOUS
<1>3. << <<"/usr/lib/libgcj.so.7">>, <<"/usr/lib/libgcj.so.6">> >> \in Seq(Place)
  <2>1. <<"/usr/lib/libgcj.so.7">> \in Place /\ <<"/usr/lib/libgcj.so.6">> \in Place
    BY DEF Place
  <2>2. QED
    BY <2>1
<1>4. /\ <<"classic", "server", "client", "">> \in Seq(Subs)
      /\ <<"classic", "">> \in Seq(Subs) /\ <<"classic/green_threads">> \in Seq(Subs)
      /\ Dirs = {"/jre/lib/CPU/", "/lib/CPU/", "/jre/bin/CPU/", "/bin/CPU/",
                 "/jre/lib/", "/lib/", "/jre/bin/", "/bin/"}
      /\ <<"classic", "client", "">> \in Seq(Subs) /\ <<"fast64", "fast32">> \in Seq(Subs)
  BY DEF Subs, Dirs
<1> HIDE DEF Place
<1>5. QED
  BY <1>1, <1>2, <1>3, <1>4, Zenon DEF DefaultLibraries

(* What the names of its home and of a virtual machine make of a path.     *)
LEMMA ResolvedDefault ==
  ASSUME NEW dir, dir # "$VM_NAME", NEW i \in DOMAIN Resolved(DefaultLibraries, dir, Null)
  PROVE  LET file == Resolved(DefaultLibraries, dir, Null)[i]
         IN  file # NoFile /\ (Len(file) > 1 => file[1] = dir)
<1> DEFINE p == DefaultLibraries[i]
<1>1. p \in Place
  BY DefaultPlaces DEF Resolved
<1>2. Resolved(DefaultLibraries, dir, Null)[i] = [k \in DOMAIN p |->
         IF (IF p[k] = "$JAVA_HOME" THEN dir ELSE p[k]) = "$VM_NAME" THEN Null
         ELSE IF p[k] = "$JAVA_HOME" THEN dir ELSE p[k]]
  BY DEF Resolved, Replace
<1>3. CASE p \in {<<"/usr/lib/libgcj.so.7">>, <<"/usr/lib/libgcj.so.6">>}
  <2> DEFINE e(k) == IF (IF p[k] = "$JAVA_HOME" THEN dir ELSE p[k]) = "$VM_NAME" THEN Null
                     ELSE IF p[k] = "$JAVA_HOME" THEN dir ELSE p[k]
  <2>1. DOMAIN p = 1 .. 1
    BY <1>3
  <2>2. Resolved(DefaultLibraries, dir, Null)[i] = [k \in 1 .. 1 |-> e(k)]
    BY <1>2, <2>1
  <2> HIDE DEF e
  <2>3. Len([k \in 1 .. 1 |-> e(k)]) = 1 /\ [k \in 1 .. 1 |-> e(k)] # <<>>
    OBVIOUS
  <2>4. QED
    BY <2>2, <2>3 DEF NoFile
<1>4. CASE \E d \in Dirs, sub \in Subs : p = <<"$JAVA_HOME", d, sub, "/libjvm.so">>
  BY <1>2, <1>4 DEF NoFile
<1>5. QED
  BY <1>1, <1>3, <1>4 DEF Place

(* A library of a configuration file is in the home, under its name.       *)
LEMMA ResolvedConfigured ==
  ASSUME NEW dir, dir # "$VM_NAME", NEW vm, NEW i \in DOMAIN Resolved(ConfiguredLibraries, dir, vm)
  PROVE  LET file == Resolved(ConfiguredLibraries, dir, vm)[i]
         IN  file # NoFile /\ file[1] = dir /\ file[3] = vm
BY DEF Resolved, Replace, ConfiguredLibraries, NoFile

(* The names of a configuration file that parse() gets to.                 *)
LEMMA ReadIs ==
  ASSUME NEW names, IsSeq(names)
  PROVE  LET read == NamesRead(names) IN
         /\ read \in Seq(ToSet(names))
         /\ \A k \in DOMAIN names : (\A j \in 1 .. k : names[j] # TooLong) <=> k \in 1 .. Len(read)
         /\ \A k \in 1 .. Len(read) : k \in DOMAIN names /\ read[k] = names[k]
<1> DEFINE T == ToSet(names)
           long == { i \in DOMAIN names : names[i] = TooLong }
           read == NamesRead(names)
<1>0. read = IF long = {} THEN names ELSE SubSeq(names, 1, Min(long) - 1)
  BY DEF NamesRead
<1> HIDE DEF read
<1>1. names \in Seq(T) /\ DOMAIN names = 1 .. Len(names) /\ Len(names) \in Nat
  BY DEF IsSeq
<1> HIDE DEF T
<1>2. CASE long = {}
  BY <1>0, <1>1, <1>2 DEF T, read
<1>3. CASE long # {}
  <2>1. long \subseteq Nat
    BY <1>1
  <2>2. Min(long) \in long /\ \A j \in long : Min(long) <= j
    BY <1>3, <2>1, MinIs
  <2> DEFINE m == Min(long)
  <2> HIDE DEF m
  <2>3. /\ m \in 1 .. Len(names) /\ names[m] = TooLong
        /\ \A j \in 1 .. Len(names) : j < m => names[j] # TooLong
    <3>1. m \in long /\ \A j \in long : m <= j
      BY <2>2 DEF m
    <3>2. QED
      BY <1>1, <3>1
  <2>4. read = SubSeq(names, 1, m - 1)
    BY <1>0, <1>3 DEF m
  <2>5. /\ read \in Seq(T) /\ Len(read) = m - 1
        /\ \A k \in 1 .. m - 1 : read[k] = names[k]
    <3>1. \A i \in 1 .. m - 1 : names[i] \in T
      BY <1>1, <2>3
    <3>2. m \in Nat /\ m - 1 \in Int /\ \A i \in 1 .. m - 1 : 1 + i - 1 = i
      BY <1>1, <2>3
    <3>3. /\ SubSeq(names, 1, m - 1) \in Seq(T)
          /\ Len(SubSeq(names, 1, m - 1)) = IF 1 <= m - 1 THEN m - 1 - 1 + 1 ELSE 0
          /\ \A i \in 1 .. m - 1 - 1 + 1 : SubSeq(names, 1, m - 1)[i] = names[1 + i - 1]
      BY <3>1, <3>2, SubSeqProperties
    <3>4. /\ read \in Seq(T)
          /\ Len(read) = IF 1 <= m - 1 THEN m - 1 - 1 + 1 ELSE 0
          /\ \A i \in 1 .. m - 1 - 1 + 1 : read[i] = names[1 + i - 1]
      BY <2>4, <3>3
    <3>5. Len(read) = m - 1
      BY <3>2, <3>4, <2>3, <1>1
    <3>6. m - 1 - 1 + 1 = m - 1
      BY <3>2
    <3>7. QED
      BY <3>2, <3>4, <3>5, <3>6
  <2>6. \A k \in 1 .. Len(names) : (\A j \in 1 .. k : names[j] # TooLong) <=> k < m
    BY <1>1, <2>3
  <2>7. \A k \in 1 .. Len(names) : k < m <=> k \in 1 .. m - 1
    BY <1>1, <2>3
  <2>8. \A k \in 1 .. m - 1 : k \in 1 .. Len(names)
    BY <1>1, <2>3
  <2>9. QED
    BY <1>1, <2>5, <2>6, <2>7, <2>8 DEF T, read
<1>4. QED
  BY <1>2, <1>3 DEF read

(* What build() finds out about a directory: the virtual machines it has a *)
(* library for, which are those of its configuration file if it has one.   *)
Serves(m, dir, vm) ==
  /\ vm.libr \in m.files /\ vm.libr # NoFile
  /\ Len(vm.libr) > 1 => vm.libr[1] = dir
  /\ vm.name # Null => Offers(m, dir, vm.name) /\ vm.libr[3] = vm.name

Offered(m, dir, list) ==
  /\ list \in Seq(ToSet(list)) /\ \A k \in 1 .. Len(list) : Serves(m, dir, list[k])
  /\ \A vm : Offers(m, dir, vm) => vm # Null /\ \E k \in 1 .. Len(list) : list[k].name = vm

(* A directory that build() accepts is known for what it offers.           *)
LEMMA BuildIs ==
  ASSUME NEW m, IsMachine(m), NEW dir, Build(m, dir).path # Null
  PROVE  /\ Build(m, dir).path = dir /\ dir \in m.dirs
         /\ Offered(m, dir, Build(m, dir).jvms)
<1> DEFINE configs == Resolved(ConfigFiles, dir, Null)
           defaults == Resolved(DefaultLibraries, dir, Null)
           cfg == FirstFile(m, configs)
           default == FirstFile(m, defaults)
           jvms == Build(m, dir).jvms
<1>1. dir \in m.dirs /\ Build(m, dir).path = dir /\ dir \notin {"$VM_NAME", Null}
  BY DEF Build, NoHome, IsMachine
<1>2. jvms = IF cfg # NoFile THEN Parse(m, dir, cfg)
             ELSE IF default = NoFile THEN <<>> ELSE <<[name |-> Null, libr |-> default]>>
  BY DEF Build, NoHome
<1>3. DOMAIN configs = 1 .. 4 /\ \A i \in 1 .. 4 : configs[i] # NoFile
  BY DEF Resolved, Replace, ConfigFiles, In, NoFile
<1> SUFFICES Offered(m, dir, jvms)
  BY <1>1
<1> HIDE DEF configs, defaults, jvms
<1>4. CASE cfg = NoFile
  <2>1. \A vm : ~Offers(m, dir, vm)
    BY <1>3, <1>4, FirstFileIs DEF Offers, configs
  <2>2. CASE default = NoFile
    BY <1>2, <1>4, <2>1, <2>2 DEF Offered
  <2>3. CASE default # NoFile
    <3>1. DOMAIN defaults \subseteq Nat
      BY DefaultPlaces DEF Resolved, defaults
    <3>2. PICK i \in DOMAIN defaults : default = defaults[i] /\ default \in m.files
      BY <2>3, <3>1, FirstFileIs
    <3>3. Serves(m, dir, [name |-> Null, libr |-> default])
      BY <1>1, <3>2, ResolvedDefault DEF defaults, Serves
    <3>4. jvms = <<[name |-> Null, libr |-> default]>>
      BY <1>2, <1>4, <2>3
    <3>5. Len(jvms) = 1 /\ jvms[1] = [name |-> Null, libr |-> default]
          /\ jvms \in Seq(ToSet(jvms))
      BY <3>4 DEF ToSet
    <3>6. QED
      BY <2>1, <3>3, <3>5 DEF Offered
  <2>4. QED
    BY <2>2, <2>3
<1>5. CASE cfg # NoFile
  <2>1. PICK c \in 1 .. 4 : /\ cfg = configs[c] /\ cfg \in m.files
                           /\ \A j \in 1 .. 4 : j < c => configs[j] \notin m.files
    BY <1>3, <1>5, FirstFileIs
  <2> DEFINE names == m.vms[cfg]
             read == NamesRead(names)
             Library(n) == FirstFile(m, Resolved(ConfiguredLibraries, dir, n))
             all == [i \in 1 .. Len(read) |-> [name |-> read[i], libr |-> Library(read[i])]]
             none == [name : ToSet(read), libr : {NoFile}]
  <2>2. cfg \in DOMAIN m.vms /\ IsSeq(names) /\ Null \notin ToSet(names)
    BY <1>1, <1>3, <2>1 DEF IsMachine, ToSet, configs
  <2>3. /\ read \in Seq(ToSet(names))
        /\ \A k \in DOMAIN names : (\A j \in 1 .. k : names[j] # TooLong) <=> k \in 1 .. Len(read)
        /\ \A k \in 1 .. Len(read) : k \in DOMAIN names /\ read[k] = names[k]
    BY <2>2, ReadIs
  <2>4. jvms = Without(all, none)
    BY <1>2, <1>5 DEF Parse
  <2> HIDE DEF read, names, cfg
  <2>5. all \in Seq(ToSet(all)) /\ Len(all) = Len(read)
        /\ \A i \in 1 .. Len(read) : all[i].name = read[i] /\ all[i].libr = Library(read[i])
    BY <2>3 DEF ToSet
  <2>6. \A i \in 1 .. Len(read) : all[i] \in none <=> Library(read[i]) = NoFile
    BY <2>3, <2>5 DEF ToSet
  <2> DEFINE found(vm) == ToSet(Resolved(ConfiguredLibraries, dir, vm)) \cap m.files # {}
  <2>7. ASSUME NEW vm
        PROVE  /\ Library(vm) # NoFile <=> found(vm)
               /\ Library(vm) # NoFile => /\ Library(vm) \in m.files /\ Library(vm)[1] = dir
                                          /\ Library(vm)[3] = vm
    <3> DEFINE paths == Resolved(ConfiguredLibraries, dir, vm)
    <3>1. DOMAIN paths \subseteq Nat
      BY DEF Resolved, ConfiguredLibraries
    <3>2. \A i \in DOMAIN paths : paths[i] # NoFile /\ paths[i][1] = dir /\ paths[i][3] = vm
      BY <1>1, ResolvedConfigured
    <3> HIDE DEF paths
    <3>3. Library(vm) # NoFile <=> \E i \in DOMAIN paths : paths[i] \in m.files
      BY <3>1, <3>2, FirstFileIs DEF paths
    <3>4. Library(vm) # NoFile => \E i \in DOMAIN paths : Library(vm) = paths[i] /\ paths[i] \in m.files
      BY <3>1, FirstFileIs DEF paths
    <3>5. found(vm) <=> \E i \in DOMAIN paths : paths[i] \in m.files
      BY DEF ToSet, paths
    <3>6. QED
      BY <3>2, <3>3, <3>4, <3>5
  <2>8. ASSUME NEW vm
        PROVE  Offers(m, dir, vm) <=> \E i \in 1 .. Len(read) : read[i] = vm /\ Library(vm) # NoFile
    <3> DEFINE Lists(n) == \E k \in DOMAIN n : n[k] = vm /\ \A j \in 1 .. k : n[j] # TooLong
    <3>1. Offers(m, dir, vm) <=> /\ \E i \in DOMAIN configs :
                                     /\ configs[i] \in m.files /\ Lists(m.vms[configs[i]])
                                     /\ \A j \in 1 .. i - 1 : configs[j] \notin m.files
                                 /\ found(vm)
      BY DEF Offers, configs
    <3>2. Lists(names) <=> \E i \in 1 .. Len(read) : read[i] = vm
      BY <2>3
    <3>3. \A i \in 1 .. 4 : /\ configs[i] \in m.files
                            /\ \A j \in 1 .. i - 1 : configs[j] \notin m.files
                         => i = c
      BY <2>1
    <3>4. \A j \in 1 .. c - 1 : j \in 1 .. 4 /\ j < c
      BY <2>1
    <3> HIDE DEF Lists, found
    <3>5. Offers(m, dir, vm) <=> Lists(names) /\ found(vm)
      BY <1>3, <2>1, <3>1, <3>3, <3>4 DEF names
    <3>6. QED
      BY <2>7, <3>2, <3>5 DEF found
  <2>9. \A i \in 1 .. Len(read) : read[i] # Null
    BY <2>2, <2>3 DEF ToSet
  <2> HIDE DEF all, none, Library, found
  <2>10. /\ jvms \in Seq(ToSet(all))
         /\ \A k \in 1 .. Len(jvms) : \E i \in 1 .. Len(all) : all[i] = jvms[k] /\ all[i] \notin none
         /\ \A i \in 1 .. Len(all) : all[i] \notin none => \E k \in 1 .. Len(jvms) : jvms[k] = all[i]
    BY <2>4, <2>5, WithoutIs
  <2>11. jvms \in Seq(ToSet(jvms))
    BY <2>10 DEF ToSet
  <2>12. ASSUME NEW k \in 1 .. Len(jvms) PROVE Serves(m, dir, jvms[k])
    <3>1. PICK i \in 1 .. Len(read) : all[i] = jvms[k] /\ all[i] \notin none
      BY <2>5, <2>10
    <3>2. jvms[k].name = read[i] /\ jvms[k].libr = Library(read[i]) /\ Library(read[i]) # NoFile
      BY <2>5, <2>6, <3>1
    <3>3. QED
      BY <2>7, <2>8, <3>2 DEF Serves
  <2>13. ASSUME NEW vm, Offers(m, dir, vm)
         PROVE  vm # Null /\ \E k \in 1 .. Len(jvms) : jvms[k].name = vm
    <3>1. PICK i \in 1 .. Len(read) : read[i] = vm /\ Library(vm) # NoFile
      BY <2>8, <2>13
    <3>2. PICK k \in 1 .. Len(jvms) : jvms[k] = all[i]
      BY <2>5, <2>6, <2>10, <3>1
    <3>3. QED
      BY <2>5, <2>9, <3>1, <3>2
  <2>14. QED
    BY <2>11, <2>12, <2>13 DEF Offered
<1>6. QED
  BY <1>4, <1>5

(* The library java_library() picks from a list of virtual machines.       *)
LEMMA JavaLibraryIs ==
  ASSUME NEW name, NEW h, h.jvms \in Seq(ToSet(h.jvms)),
         \A k \in 1 .. Len(h.jvms) : h.jvms[k].libr # NoFile
  PROVE  \/ /\ JavaLibrary(name, h) = NoFile
            /\ name # Null => \A k \in 1 .. Len(h.jvms) : h.jvms[k].name # name
         \/ \E k \in 1 .. Len(h.jvms) :
              JavaLibrary(name, h) = h.jvms[k].libr /\ (name # Null => h.jvms[k].name = name)
<1> DEFINE jvms == h.jvms
           named == { i \in DOMAIN jvms : jvms[i].name = name }
<1>1. DOMAIN jvms = 1 .. Len(jvms) /\ Len(jvms) \in Nat /\ (jvms = <<>> <=> Len(jvms) = 0)
  OBVIOUS
<1>2. JavaLibrary(name, h) = IF jvms = <<>> THEN NoFile
                             ELSE IF name = Null THEN jvms[1].libr
                             ELSE IF named = {} THEN NoFile ELSE jvms[Min(named)].libr
  BY DEF JavaLibrary
<1>3. CASE named # {}
  <2>5. named \subseteq Nat
    BY <1>1
  <2>1. Min(named) \in named
    BY <1>3, <2>5, MinIs
  <2>2. Min(named) \in 1 .. Len(jvms) /\ jvms[Min(named)].name = name
    BY <1>1, <2>1
  <2>3. Len(jvms) # 0 => 1 \in 1 .. Len(jvms)
    BY <1>1
  <2> HIDE DEF named
  <2>4. QED
    BY <1>1, <1>2, <1>3, <2>2, <2>3
<1>4. CASE named = {}
  BY <1>1, <1>2, <1>4
<1>5. QED
  BY <1>3, <1>4

-----------------------------------------------------------------------------
(* find(): the home is the first of the paths that build() accepts.        *)

Accepted(m, dir) == Build(m, dir).path # Null
Found(m, named) ==
  LET paths == Candidates(m, named)
  IN  Build(m, paths[Min({ i \in DOMAIN paths : Accepted(m, paths[i]) })])

(* The paths still to try, when those before them have been tried in vain. *)
Trying(m, named, rest) ==
  LET paths == Candidates(m, named) IN
  \E k \in 0 .. Len(paths) : /\ rest = SubSeq(paths, k + 1, Len(paths))
                             /\ \A i \in 1 .. k : ~Accepted(m, paths[i])

(* find() has something to try, one after the other.                       *)
LEMMA CandidatesAreSeq ==
  ASSUME NEW m, NEW named
  PROVE  LET paths == Candidates(m, named) IN paths \in Seq(ToSet(paths)) /\ Len(paths) > 0
<1>1. ASSUME NEW p PROVE <<p>> \in Seq(ToSet(<<p>>)) /\ Len(<<p>>) > 0
  BY DEF ToSet
<1>2. Locations \in Seq(ToSet(Locations)) /\ Len(Locations) > 0
  <2>1. Len(Locations) = 12 /\ DOMAIN Locations = 1 .. 12
    BY DEF Locations
  <2>2. Locations = [i \in 1 .. 12 |-> Locations[i]]
    BY <2>1 DEF Locations
  <2>3. QED
    BY <2>1, <2>2 DEF ToSet
<1>3. QED
  BY <1>1, <1>2 DEF Candidates

(* At first nothing has been tried.                                        *)
LEMMA TryingStarts == ASSUME NEW m, NEW named PROVE Trying(m, named, Candidates(m, named))
<1> DEFINE paths == Candidates(m, named)
<1>1. paths \in Seq(ToSet(paths)) /\ Len(paths) \in Nat
  BY CandidatesAreSeq
<1> HIDE DEF paths
<1>2. SubSeq(paths, 0 + 1, Len(paths)) = paths
  BY <1>1, SubSeqFull
<1>3. QED
  BY <1>1, <1>2, 0 \in 0 .. Len(paths) DEF Trying, paths

(* The next path is the home that is found, or is passed over.             *)
LEMMA TryingGoesOn ==
  ASSUME NEW m, NEW named, NEW rest, Trying(m, named, rest), rest # <<>>
  PROVE  /\ Accepted(m, Head(rest)) => Build(m, Head(rest)) = Found(m, named)
         /\ Head(rest) \in ToSet(Candidates(m, named))
         /\ ~Accepted(m, Head(rest)) => Trying(m, named, Tail(rest))
<1> DEFINE paths == Candidates(m, named)
           N == Len(paths)
           T == ToSet(paths)
           good == { i \in DOMAIN paths : Accepted(m, paths[i]) }
<1>1. paths \in Seq(T) /\ N \in Nat /\ DOMAIN paths = 1 .. N
  BY CandidatesAreSeq
<1>2. PICK k \in 0 .. N : rest = SubSeq(paths, k + 1, N) /\ \A i \in 1 .. k : ~Accepted(m, paths[i])
  BY DEF Trying
<1>3. \A i \in 1 .. N : paths[i] \in T
  BY <1>1
<1> HIDE DEF paths, T
<1>4. k < N /\ k \in Nat
  BY <1>1, <1>2, SubSeqEmpty
<1>5. Head(rest) = paths[k + 1] /\ Tail(rest) = SubSeq(paths, k + 1 + 1, N)
  BY <1>1, <1>2, <1>4, HeadTailOfSubSeq, k + 1 \in 1 .. N, N \in k + 1 .. N
<1>6. ASSUME Accepted(m, Head(rest)) PROVE Build(m, Head(rest)) = Found(m, named)
  <2>1. k + 1 \in good /\ \A i \in good : k + 1 <= i
    BY <1>1, <1>2, <1>4, <1>5, <1>6
  <2>2. good \subseteq Nat
    BY <1>1
  <2>3. Min(good) \in good /\ \A i \in good : Min(good) <= i
    BY <2>1, <2>2, MinIs
  <2>5. Min(good) <= k + 1 /\ k + 1 <= Min(good) /\ Min(good) \in Nat
    BY <2>1, <2>2, <2>3
  <2>6. Min(good) = k + 1
    BY <1>4, <2>5
  <2>4. QED
    BY <1>5, <2>6 DEF Found, paths
<1>7. ASSUME ~Accepted(m, Head(rest)) PROVE Trying(m, named, Tail(rest))
  <2>1. \A i \in 1 .. k + 1 : ~Accepted(m, paths[i])
    BY <1>2, <1>4, <1>5, <1>7
  <2>2. QED
    BY <1>1, <1>4, <1>5, <2>1, k + 1 \in 0 .. N DEF Trying, paths
<1>8. QED
  BY <1>3, <1>4, <1>5, <1>6, <1>7, k + 1 \in 1 .. N DEF paths, T

-----------------------------------------------------------------------------
(* parse() twice: the program is executed anew with the same words and     *)
(* reads the same names from them.                                         *)

(* What one turn of the loop makes of the position, the virtual machine    *)
(* and the home; it goes no further at a word it stops at.                 *)
After(words, t) ==
  LET word == words[t[1]]
      Value(options, old) == IF word \in options /\ t[1] < Len(words) THEN words[t[1] + 1] ELSE old
  IN  IF t[1] > Len(words) \/ word \notin DOMAIN Flag \cup VmOptions \cup Valued THEN t
      ELSE IF word \in DOMAIN Flag
      THEN <<t[1] + 1, IF word \in {"-client", "-server"} THEN Flag[word].name ELSE t[2], t[3]>>
      ELSE IF word \in VmOptions THEN <<t[1] + 1, t[2], t[3]>>
      ELSE <<t[1] + 2, Value({"-jvm"}, t[2]), Value({"-home", "-java-home"}, t[3])>>

IsReading(words, f) ==
  f[0] = <<1, Null, Null>> /\ \A i \in 1 .. Len(words) : f[i] = After(words, f[i - 1])
Readings(words) == CHOOSE f : IsReading(words, f)

(* An option belongs to one branch of parse().                             *)
LEMMA OptionWords ==
  /\ DOMAIN Member = {"-jvm", "-home", "-java-home", "-user", "-cwd", "-pidfile",
                      "-outfile", "-errfile", "-procname"}
  /\ DOMAIN Flag = {"-client", "-server", "-version", "-showversion", "-check", "-nodetach",
                    "-stop", "-keepstdin", "-service", "-install", "-remove", "-debug", "-X"}
  /\ Valued = DOMAIN Member \cup {"-cp", "-classpath", "-wait", "-umask"}
  /\ DOMAIN Flag \cap Valued = {} /\ Help \cap (Valued \cup DOMAIN Flag) = {}
  /\ VmOptions \cap (Valued \cup DOMAIN Flag \cup Help) = {}
<1>1. /\ DOMAIN Member = {"-jvm", "-home", "-java-home", "-user", "-cwd", "-pidfile",
                      "-outfile", "-errfile", "-procname"}
      /\ DOMAIN Flag = {"-client", "-server", "-version", "-showversion", "-check", "-nodetach",
                    "-stop", "-keepstdin", "-service", "-install", "-remove", "-debug", "-X"}
  BY DEF Member, Flag
<1>2. Valued = DOMAIN Member \cup {"-cp", "-classpath", "-wait", "-umask"}
  BY DEF Valued, ClassPath
<1>3. DOMAIN Flag \cap Valued = {} /\ Help \cap (Valued \cup DOMAIN Flag) = {}
  BY <1>1, <1>2 DEF Help
<1>4. QED
  BY <1>1, <1>2, <1>3, WordsAssumption

(* There is such a reading of every command line.                          *)
LEMMA ReadingIs == ASSUME NEW words, IsSeq(words) PROVE IsReading(words, Readings(words))
<1> DEFINE V == ToSet(words) \cup {Null, "client", "server"}
           X == Nat \X V \X V
           N == Len(words)
           step == [i \in 1 .. N |-> [t \in X |-> After(words, t)]]
           a == <<1, Null, Null>>
<1>1. N \in Nat /\ DOMAIN words = 1 .. N /\ \A i \in 1 .. N : words[i] \in V
  BY DEF IsSeq, ToSet
<1>2. ASSUME NEW t \in X PROVE After(words, t) \in X
  <2>1. t[1] \in Nat /\ t[2] \in V /\ t[3] \in V /\ t = <<t[1], t[2], t[3]>>
    OBVIOUS
  <2>2. Flag["-client"].name \in V /\ Flag["-server"].name \in V
    BY DEF Flag
  <2>3. t[1] < N => words[t[1] + 1] \in V
    BY <1>1, <2>1
  <2> HIDE DEF V
  <2>4. QED
    BY <2>1, <2>2, <2>3 DEF After
<1>3. step \in [1 .. N -> [X -> X]] /\ a \in X
  BY <1>2
<1> HIDE DEF X, N, step, a
<1>4. PICK f \in [0 .. N -> X] : f[0] = a /\ \A i \in 1 .. N : f[i] = step[i][f[i - 1]]
  BY <1>1, <1>3, Recursion, SMTT(30)
<1>5. ASSUME NEW i \in 1 .. N PROVE f[i] = After(words, f[i - 1])
  <2>1. f[i - 1] \in X
    BY <1>1, <1>4
  <2>2. QED
    BY <1>4, <2>1 DEF step
<1>6. IsReading(words, f)
  BY <1>4, <1>5 DEF IsReading, a, N
<1>7. QED
  BY <1>6 DEF Readings

(* Where the loop stops, it stays.                                         *)
Final(words) == Readings(words)[Len(words)]

(* What a stopped loop has read is what the whole command line says.       *)
LEMMA ReadingStops ==
  ASSUME NEW words, IsSeq(words), NEW k \in 0 .. Len(words),
         After(words, Readings(words)[k]) = Readings(words)[k]
  PROVE  Final(words) = Readings(words)[k]
<1> DEFINE f == Readings(words)
           N == Len(words)
           P == {n \in Nat : k + n <= N => f[k + n] = f[k]}
<1>1. N \in Nat /\ k \in Nat
  BY DEF IsSeq
<1>2. \A i \in 1 .. N : f[i] = After(words, f[i - 1])
  BY ReadingIs DEF IsReading
<1> HIDE DEF f
<1>3. 0 \in P
  BY <1>1
<1>4. ASSUME NEW n \in Nat, n \in P PROVE n + 1 \in P
  <2>1. SUFFICES ASSUME k + (n + 1) <= N PROVE f[k + (n + 1)] = f[k]
    OBVIOUS
  <2>2. k + (n + 1) \in 1 .. N /\ k + (n + 1) - 1 = k + n /\ k + n <= N
    BY <1>1, <2>1
  <2>3. QED
    BY <1>2, <1>4, <2>2 DEF f
<1>5. N - k \in P
  BY <1>1, <1>3, <1>4, SetInduction, N - k \in Nat
<1>6. QED
  BY <1>1, <1>5, k + (N - k) = N DEF f, Final

(* The loop has read argv up to x, and args has its name and home from it; *)
(* what follows agrees with the whole of argv, the home found with the     *)
(* machine, and a process executed anew with the one that executed it.     *)
ReadSoFar ==
  /\ {"name", "home"} \subseteq DOMAIN args
  /\ at = "parse" =>
       /\ x \in Nat \ {0}
       /\ \E k \in 0 .. Len(argv) : k < x /\ Readings(argv)[k] = <<x, args.name, args.home>>
  /\ at \in {"parsed", "find", "found", "redirect", "run", "up", "ended"} =>
       args.name = Final(argv)[2] /\ args.home = Final(argv)[3]

HomeFound ==
  /\ at = "find" => Trying(machine, args.home, todo)
  /\ at \in {"found", "redirect", "run", "up", "ended"} =>
       /\ home = Found(machine, args.home) /\ home = Build(machine, home.path)
       /\ home.path # Null /\ home.path \in ToSet(Candidates(machine, args.home))

LibraryFound ==
  /\ path \in {NoFile, JavaLibrary(Final(argv)[2], Found(machine, Final(argv)[3]))}
  /\ at \in {"up", "ended"} => libr = JavaLibrary(args.name, home)
  /\ at = "up" => libr # NoFile

LInv == IsSeq(argv) /\ IsMachine(machine) /\ ReadSoFar /\ HomeFound /\ LibraryFound

(* Nothing has been read when main() starts.                               *)
LEMMA InitLInv == Init => LInv
<1> SUFFICES ASSUME Init PROVE LInv
  OBVIOUS
<1>1. IsSeq(argv) /\ IsMachine(machine)
  BY LaunchesAssumption DEF Init
<1>2. args \in Defaults /\ x = 1 /\ at = "parse" /\ path = NoFile
  BY DEF Init
<1>3. args.name = Null /\ args.home = Null /\ {"name", "home"} \subseteq DOMAIN args
  BY <1>2 DEF Defaults
<1>4. Readings(argv)[0] = <<1, Null, Null>> /\ 0 \in 0 .. Len(argv)
  BY <1>1, ReadingIs DEF IsReading, IsSeq
<1>5. QED
  BY <1>1, <1>2, <1>3, <1>4 DEF LInv, ReadSoFar, HomeFound, LibraryFound

(* A turn of the loop that goes on reads as After says.                    *)
LEMMA TurnIs ==
  ASSUME LInv, at = "parse", x <= Len(argv),
         ReadFlag \/ ReadValue \/ ReadWait \/ ReadMask \/ ReadClassPath \/ ReadVmOption,
         at' = "parse"
  PROVE  /\ <<x', args'.name, args'.home>> = After(argv, <<x, args.name, args.home>>)
         /\ {"name", "home"} \subseteq DOMAIN args' /\ x' \in Nat /\ x' > x
         /\ UNCHANGED parseVars
<1>0. x \in Nat /\ {"name", "home"} \subseteq DOMAIN args /\ Len(argv) \in Nat
  BY DEF LInv, ReadSoFar, IsSeq
<1> DEFINE t == <<x, args.name, args.home>>
           word == argv[x]
<1>1. CASE ReadFlag
  <2>1. word \in DOMAIN Flag /\ args' = Setting(args, Flag[word]) /\ x' = x + 1 /\ UNCHANGED parseVars
    BY <1>1 DEF ReadFlag, Reading, Becomes
  <2>2. "home" \notin DOMAIN Flag[word] /\ ("name" \in DOMAIN Flag[word] <=> word \in {"-client", "-server"})
    BY <2>1, OptionWords DEF Flag
  <2>3. /\ DOMAIN args' = DOMAIN args /\ args'.home = args.home
        /\ args'.name = IF word \in {"-client", "-server"} THEN Flag[word].name ELSE args.name
    BY <1>0, <2>1, <2>2 DEF Setting
  <2>4. After(argv, t) = <<x + 1, IF word \in {"-client", "-server"} THEN Flag[word].name ELSE args.name,
                           args.home>>
    BY <1>0, <2>1 DEF After
  <2>5. QED
    BY <1>0, <2>1, <2>3, <2>4
<1>2. CASE ReadVmOption
  <2>1. word \in VmOptions /\ x' = x + 1 /\ UNCHANGED parseVars
    BY <1>2 DEF ReadVmOption, Reading, Becomes
  <2>2. DOMAIN args' = DOMAIN args /\ args'.name = args.name /\ args'.home = args.home
    BY <1>0, <1>2 DEF ReadVmOption, Reading, Becomes
  <2>3. word \notin DOMAIN Flag
    BY <2>1, OptionWords
  <2>4. After(argv, t) = <<x + 1, args.name, args.home>>
    BY <1>0, <2>1, <2>3 DEF After
  <2>5. QED
    BY <1>0, <2>1, <2>2, <2>4
<1>3. CASE ReadValue
  <2>1. /\ word \in DOMAIN Member /\ x < Len(argv) /\ x' = x + 2 /\ UNCHANGED parseVars
        /\ args' = [args EXCEPT ![Member[word]] = argv[x + 1]]
    BY <1>0, <1>3 DEF ReadValue, Reading, Becomes, Optional, Refuse
  <2>2. /\ word \in Valued /\ word \notin DOMAIN Flag \cup VmOptions
    BY <2>1, OptionWords
  <2>3. /\ Member[word] = "name" <=> word = "-jvm"
        /\ Member[word] = "home" <=> word \in {"-home", "-java-home"}
    BY <2>1, OptionWords DEF Member
  <2>4. /\ DOMAIN args' = DOMAIN args
        /\ args'.name = IF word = "-jvm" THEN argv[x + 1] ELSE args.name
        /\ args'.home = IF word \in {"-home", "-java-home"} THEN argv[x + 1] ELSE args.home
    BY <1>0, <2>1, <2>3
  <2>5. After(argv, t) = <<x + 2, IF word = "-jvm" THEN argv[x + 1] ELSE args.name,
                           IF word \in {"-home", "-java-home"} THEN argv[x + 1] ELSE args.home>>
    BY <1>0, <2>1, <2>2 DEF After
  <2>6. QED
    BY <1>0, <2>1, <2>4, <2>5
<1>4. CASE ReadWait \/ ReadMask \/ ReadClassPath
  <2>1. word \in {"-wait", "-umask", "-cp", "-classpath"} /\ x' = x + 2 /\ UNCHANGED parseVars
    BY <1>4 DEF ReadWait, ReadMask, ReadClassPath, Reading, Becomes, Refuse, ClassPath
  <2>2. DOMAIN args' = DOMAIN args /\ args'.name = args.name /\ args'.home = args.home
    BY <1>0, <1>4 DEF ReadWait, ReadMask, ReadClassPath, Reading, Becomes, Refuse
  <2>3. word \in Valued /\ word \notin DOMAIN Flag \cup VmOptions
    BY <2>1, OptionWords
  <2>4. After(argv, t) = <<x + 2, args.name, args.home>>
    BY <1>0, <2>1, <2>3 DEF After
  <2>5. QED
    BY <1>0, <2>1, <2>2, <2>4
<1>5. QED
  BY <1>1, <1>2, <1>3, <1>4

(* Where parse() ends without an error, the reading has stopped.           *)
LEMMA StopIs ==
  ASSUME LInv, at = "parse", ReadHelp \/ ReadClass \/ NoClass
  PROVE  /\ args'.name = Final(argv)[2] /\ args'.home = Final(argv)[3]
         /\ {"name", "home"} \subseteq DOMAIN args' /\ UNCHANGED parseVars
         /\ at' \in {"parsed", "refused"}
<1> DEFINE t == <<x, args.name, args.home>>
<1>1. PICK k \in 0 .. Len(argv) : Readings(argv)[k] = t
  BY DEF LInv, ReadSoFar
<1>2. x > Len(argv) \/ argv[x] \notin DOMAIN Flag \cup VmOptions \cup Valued
  BY OptionWords DEF ReadHelp, ReadClass, NoClass, Reading, IsOption
<1>3. After(argv, t) = t
  BY <1>2 DEF After
<1>4. Final(argv) = t
  BY <1>1, <1>3, ReadingStops DEF LInv
<1>5. {"name", "home"} \subseteq DOMAIN args
  BY DEF LInv, ReadSoFar
<1>6. /\ DOMAIN args' = DOMAIN args /\ args'.name = args.name /\ args'.home = args.home
      /\ UNCHANGED parseVars /\ at' \in {"parsed", "refused"}
  BY <1>5 DEF ReadHelp, ReadClass, NoClass
<1>7. QED
  BY <1>4, <1>5, <1>6

(* One word read, by whichever branch, keeps the reading.                  *)
LEMMA ParseLInv == ASSUME LInv, ParseArguments PROVE LInv'
<1>1. at = "parse" /\ Len(argv) \in Nat /\ x \in Nat
  BY DEF ParseArguments, ReadFlag, ReadValue, ReadWait, ReadMask, ReadClassPath, ReadVmOption,
    ReadHelp, ReadBad, ReadClass, NoClass, Reading, LInv, IsSeq, ReadSoFar
<1>2. CASE ReadHelp \/ ReadClass \/ NoClass
  BY <1>1, <1>2, StopIs DEF LInv, ReadSoFar, HomeFound, LibraryFound, parseVars
<1>3. CASE Refuse
  BY <1>3 DEF Refuse, LInv, ReadSoFar, HomeFound, LibraryFound, parseVars
<1>4. CASE /\ ReadFlag \/ ReadValue \/ ReadWait \/ ReadMask \/ ReadClassPath \/ ReadVmOption
           /\ ~Refuse
  <2>1. at' = "parse" /\ x <= Len(argv)
    BY <1>1, <1>4 DEF ReadFlag, ReadValue, ReadWait, ReadMask, ReadClassPath, ReadVmOption,
      Reading, Becomes
  <2>2. /\ <<x', args'.name, args'.home>> = After(argv, <<x, args.name, args.home>>)
        /\ {"name", "home"} \subseteq DOMAIN args' /\ x' \in Nat /\ x' > x
        /\ UNCHANGED parseVars
    BY <1>1, <1>4, <2>1, TurnIs
  <2>3. PICK k \in 0 .. Len(argv) : k < x /\ Readings(argv)[k] = <<x, args.name, args.home>>
    BY <1>1 DEF LInv, ReadSoFar
  <2>4. k + 1 \in 1 .. Len(argv) /\ k + 1 - 1 = k /\ k + 1 < x'
    BY <1>1, <2>1, <2>2, <2>3
  <2>5. Readings(argv)[k + 1] = After(argv, Readings(argv)[k])
    BY <2>4, ReadingIs DEF IsReading, LInv
  <2>6. ReadSoFar'
    <3>1. k + 1 \in 0 .. Len(argv) /\ Readings(argv)[k + 1] = <<x', args'.name, args'.home>>
      BY <1>1, <2>2, <2>3, <2>4, <2>5
    <3>2. argv' = argv /\ x' \in Nat \ {0}
      BY <1>1, <2>2 DEF parseVars
    <3>3. QED
      BY <2>1, <2>2, <2>4, <3>1, <3>2 DEF ReadSoFar
  <2>7. QED
    BY <2>1, <2>2, <2>6 DEF LInv, HomeFound, LibraryFound, parseVars
<1>5. QED
  BY <1>2, <1>3, <1>4 DEF ParseArguments, ReadBad

(* So does every step of main(), an execution that starts over too.        *)
LEMMA NextLInv == LInv /\ [Next]_vars => LInv'
<1> SUFFICES ASSUME LInv, [Next]_vars PROVE LInv'
  OBVIOUS
<1> USE DEF LInv
<1>1. CASE ParseArguments
  BY <1>1, ParseLInv
<1>2. CASE StopOrCheckUser
  BY <1>2, TryingStarts DEF StopOrCheckUser, mainVars, ReadSoFar, HomeFound, LibraryFound
<1>3. CASE FindHome
  <2>1. at = "find" /\ Trying(machine, args.home, todo) /\ UNCHANGED <<mainVars, path, out, loggers, libr, trouble>>
    BY <1>3 DEF FindHome, HomeFound
  <2>2. ReadSoFar' /\ LibraryFound'
    BY <1>3 DEF FindHome, mainVars, ReadSoFar, LibraryFound
  <2>3. CASE todo = <<>>
    BY <1>3, <2>1, <2>2, <2>3 DEF FindHome, mainVars, HomeFound
  <2>4. CASE todo # <<>>
    <3>1. /\ home' = Build(machine, Head(todo)) /\ todo' = Tail(todo)
          /\ at' = IF home'.path # Null THEN "found" ELSE "find"
      BY <1>3, <2>4 DEF FindHome
    <3>2. /\ Accepted(machine, Head(todo)) => Build(machine, Head(todo)) = Found(machine, args.home)
          /\ Head(todo) \in ToSet(Candidates(machine, args.home))
          /\ ~Accepted(machine, Head(todo)) => Trying(machine, args.home, Tail(todo))
      BY <2>1, <2>4, TryingGoesOn
    <3>3. CASE home'.path = Null
      BY <2>1, <2>2, <3>1, <3>2, <3>3 DEF Accepted, HomeFound, mainVars
    <3>4. CASE home'.path # Null
      <4>1. home'.path = Head(todo)
        BY <3>1, <3>4, BuildIs
      <4>2. HomeFound'
        BY <2>1, <3>1, <3>2, <3>4, <4>1 DEF Accepted, HomeFound, mainVars
      <4>3. QED
        BY <2>1, <2>2, <4>2 DEF mainVars
    <3>5. QED
      BY <3>3, <3>4
  <2>5. QED
    BY <2>3, <2>4
<1>4. CASE ShowHelp \/ Detach \/ Start
  BY <1>4 DEF ShowHelp, Detach, Start, ExceptAt, mainVars, ReadSoFar, HomeFound, LibraryFound
<1>5. CASE Execute
  <2>1. at = "found" /\ UNCHANGED <<argv, machine, todo, libr>>
    BY <1>5 DEF Execute
  <2>2. path' \in {path, JavaLibrary(args.name, home)}
    BY <1>5 DEF Execute
  <2>3. JavaLibrary(args.name, home) = JavaLibrary(Final(argv)[2], Found(machine, Final(argv)[3]))
    BY <2>1 DEF ReadSoFar, HomeFound
  <2>4. path' \in {NoFile, JavaLibrary(Final(argv)[2], Found(machine, Final(argv)[3]))}
    BY <2>2, <2>3 DEF LibraryFound
  <2>5. CASE at' = "failed" /\ args' = args
    BY <2>1, <2>4, <2>5 DEF ReadSoFar, HomeFound, LibraryFound
  <2>6. CASE at' = "parse" /\ x' = 1 /\ args' \in Defaults
    <3>1. args'.name = Null /\ args'.home = Null /\ {"name", "home"} \subseteq DOMAIN args'
      BY <2>6 DEF Defaults
    <3>2. Readings(argv)[0] = <<1, Null, Null>> /\ 0 \in 0 .. Len(argv)
      BY ReadingIs DEF IsReading, IsSeq
    <3>3. QED
      BY <2>1, <2>4, <2>6, <3>1, <3>2 DEF ReadSoFar, HomeFound, LibraryFound
  <2>7. QED
    BY <1>5, <2>5, <2>6 DEF Execute
<1>6. CASE LoadJava
  <2>1. ReadSoFar' /\ HomeFound'
    BY <1>6 DEF LoadJava, mainVars, ReadSoFar, HomeFound
  <2>2. LibraryFound'
    BY <1>6 DEF LoadJava, mainVars, LibraryFound
  <2>3. QED
    BY <1>6, <2>1, <2>2 DEF LoadJava, mainVars
<1>7. CASE Reopen \/ EndLogger
  BY <1>7 DEF Reopen, EndLogger, mainVars, ReadSoFar, HomeFound, LibraryFound
<1>8. CASE UNCHANGED vars
  BY <1>8 DEF vars, ReadSoFar, HomeFound, LibraryFound
<1>9. QED
  BY <1>1, <1>2, <1>3, <1>4, <1>5, <1>6, <1>7, <1>8 DEF Next

(* The invariant says what library the child may have loaded.              *)
LEMMA LInvAsAsked == LInv => LibraryAsAsked
<1> SUFFICES ASSUME LInv, at \in {"up", "ended"} PROVE LibraryAsAsked
  BY DEF LibraryAsAsked
<1> DEFINE found == home.jvms
           dir == home.path
<1>1. /\ home = Found(machine, args.home) /\ home = Build(machine, dir)
      /\ dir # Null /\ dir \in ToSet(Candidates(machine, args.home))
      /\ libr = JavaLibrary(args.name, home) /\ (at = "up" => libr # NoFile)
      /\ path \in {NoFile, JavaLibrary(Final(argv)[2], Found(machine, Final(argv)[3]))}
      /\ args.name = Final(argv)[2] /\ args.home = Final(argv)[3]
  BY DEF LInv, ReadSoFar, HomeFound, LibraryFound
<1>2. dir \in machine.dirs /\ Offered(machine, dir, found)
  BY <1>1, BuildIs DEF LInv
<1> HIDE DEF found, dir
<1>3. \/ /\ libr = NoFile
         /\ args.name # Null => \A k \in 1 .. Len(found) : found[k].name # args.name
      \/ \E k \in 1 .. Len(found) :
           libr = found[k].libr /\ (args.name # Null => found[k].name = args.name)
  BY <1>1, <1>2, JavaLibraryIs DEF found, Offered, Serves
<1>4. path \in {NoFile, libr}
  BY <1>1
<1>5. CASE at = "up"
  <2>1. PICK k \in 1 .. Len(found) :
          libr = found[k].libr /\ (args.name # Null => found[k].name = args.name)
    BY <1>1, <1>3, <1>5
  <2>2. Serves(machine, dir, found[k])
    BY <1>2 DEF Offered
  <2>3. QED
    BY <1>1, <1>2, <1>4, <1>5, <2>1, <2>2 DEF LibraryAsAsked, Serves, dir
<1>6. CASE at = "ended"
  <2>1. SUFFICES ASSUME libr = NoFile, Offers(machine, dir, args.name) PROVE FALSE
    BY <1>6 DEF LibraryAsAsked, dir
  <2>2. args.name # Null /\ \E k \in 1 .. Len(found) : found[k].name = args.name
    BY <1>2, <2>1 DEF Offered
  <2>3. \A k \in 1 .. Len(found) : found[k].libr # NoFile
    BY <1>2 DEF Offered, Serves
  <2>4. QED
    BY <1>3, <2>1, <2>2, <2>3
<1>7. QED
  BY <1>5, <1>6

(* A child loads the library that was asked for (see LibraryAsAsked), for  *)
(* every command line, every machine and after every execution.            *)
THEOREM LibrarySound == Spec => []LibraryAsAsked
BY InitLInv, NextLInv, LInvAsAsked, PTL DEF Spec

-----------------------------------------------------------------------------
(* The class path: eval_cpath() against the parts between the colons.      *)

(* What is appended to the second of two sequences comes after both.       *)
AppendsLast(a, b, e) == Append(a \o b, e) = a \o Append(b, e)

(* It always does.                                                         *)
LEMMA AppendConcat ==
  ASSUME NEW X, NEW a \in Seq(X), NEW b \in Seq(X), NEW e \in X
  PROVE  AppendsLast(a, b, e)
<1>1. a \o b \in Seq(X) /\ <<e>> \in Seq(X)
  BY ConcatProperties
<1>2. Append(a \o b, e) = (a \o b) \o <<e>> /\ Append(b, e) = b \o <<e>>
  BY <1>1, AppendIsConcat
<1>3. (a \o b) \o <<e>> = a \o (b \o <<e>>)
  BY <1>1, ConcatAssociative
<1>4. QED
  BY <1>2, <1>3, Zenon DEF AppendsLast

(* Dropping from two sequences, one after the other.                       *)
DropsFromBoth(s, t, S) == Without(s \o t, S) = Without(s, S) \o Without(t, S)

(* What is left of two sequences is what is left of the one and then of    *)
(* the other.                                                              *)
LEMMA WithoutConcat ==
  ASSUME NEW T, NEW s \in Seq(T), NEW t \in Seq(T), NEW S
  PROVE  DropsFromBoth(s, t, S)
<1> DEFINE u == s \o t
           n == Len(s)
           m == Len(t)
<1>1. /\ u \in Seq(T) /\ n \in Nat /\ m \in Nat /\ Len(u) = n + m
      /\ \A i \in 1 .. n : u[i] = s[i]
      /\ \A j \in 1 .. m : u[n + j] = t[j] /\ t[j] \in T
  OBVIOUS
<1>2. PICK f : Keeping(f, u, S, T)
  BY <1>1, WithoutLoop
<1>3. PICK g : Keeping(g, s, S, T)
  BY WithoutLoop
<1>4. PICK h : Keeping(h, t, S, T)
  BY WithoutLoop
<1> HIDE DEF u
<1> DEFINE P == {i \in Nat : i <= n => f[i] = g[i]}
<1>5. n \in P
  <2>1. 0 \in P
    BY <1>2, <1>3 DEF Keeping
  <2>2. ASSUME NEW i \in Nat, i \in P PROVE i + 1 \in P
    <3>1. SUFFICES ASSUME i + 1 <= n PROVE f[i + 1] = g[i + 1]
      OBVIOUS
    <3>2. i + 1 \in 1 .. n /\ i + 1 \in 1 .. n + m /\ i + 1 - 1 = i /\ f[i] = g[i]
      BY <1>1, <2>2, <3>1
    <3>3. /\ f[i + 1] = IF u[i + 1] \in S THEN f[i] ELSE Append(f[i], u[i + 1])
          /\ g[i + 1] = IF s[i + 1] \in S THEN g[i] ELSE Append(g[i], s[i + 1])
      BY <1>1, <1>2, <1>3, <3>2 DEF Keeping
    <3>4. QED
      BY <1>1, <3>2, <3>3
  <2>3. QED
    BY <1>1, <2>1, <2>2, SetInduction
<1>6. g[n] \in Seq(T) /\ f[n] = g[n]
  BY <1>1, <1>3, <1>5, SMTT(30) DEF Keeping
<1> DEFINE both == [j \in 0 .. m |-> g[n] \o h[j]]
           Q == {j \in Nat : j <= m => f[n + j] = both[j]}
<1>7. both[0] = g[n] /\ \A j \in 1 .. m :
        both[j] = IF t[j] \in S THEN both[j - 1] ELSE Append(both[j - 1], t[j])
  <2>1. both[0] = g[n]
    BY <1>1, <1>4, <1>6, ConcatEmptySeq, 0 \in 0 .. m DEF Keeping
  <2>2. ASSUME NEW j \in 1 .. m
        PROVE  both[j] = IF t[j] \in S THEN both[j - 1] ELSE Append(both[j - 1], t[j])
    <3>1. h[j] = IF t[j] \in S THEN h[j - 1] ELSE Append(h[j - 1], t[j])
      BY <1>4 DEF Keeping
    <3>2. h[j - 1] \in Seq(T) /\ t[j] \in T
      BY <1>1, <1>4, j - 1 \in 0 .. m DEF Keeping
    <3> DEFINE a == g[n]
               b == h[j - 1]
               e == t[j]
    <3>3. a \in Seq(T) /\ b \in Seq(T) /\ e \in T
      BY <1>6, <3>2
    <3> HIDE DEF a, b, e
    <3>4. AppendsLast(a, b, e)
      BY <3>3, AppendConcat
    <3>5. both[j] = a \o h[j] /\ both[j - 1] = a \o b
      BY <1>1, j \in 0 .. m, j - 1 \in 0 .. m DEF a, b
    <3> HIDE DEF both
    <3>6. both[j] = IF e \in S THEN both[j - 1] ELSE Append(both[j - 1], e)
      BY <3>1, <3>4, <3>5, Zenon DEF AppendsLast, b, e
    <3>7. QED
      BY <3>6 DEF e
  <2>3. QED
    BY <2>1, <2>2
<1> HIDE DEF both
<1>8. m \in Q
  <2>1. 0 \in Q
    BY <1>1, <1>6, <1>7
  <2>2. ASSUME NEW j \in Nat, j \in Q PROVE j + 1 \in Q
    <3>1. SUFFICES ASSUME j + 1 <= m PROVE f[n + (j + 1)] = both[j + 1]
      OBVIOUS
    <3>2. /\ j + 1 \in 1 .. m /\ n + (j + 1) \in 1 .. n + m /\ j + 1 - 1 = j
          /\ n + (j + 1) - 1 = n + j /\ f[n + j] = both[j]
      BY <1>1, <2>2, <3>1
    <3>3. f[n + (j + 1)] = IF t[j + 1] \in S THEN f[n + j] ELSE Append(f[n + j], t[j + 1])
      <4> DEFINE k == n + (j + 1)
      <4>1. k \in 1 .. Len(u) /\ k - 1 = n + j /\ u[k] = t[j + 1]
        BY <1>1, <3>2
      <4> HIDE DEF k
      <4>2. f[k] = IF u[k] \in S THEN f[k - 1] ELSE Append(f[k - 1], u[k])
        BY <1>2, <4>1 DEF Keeping
      <4>3. QED
        BY <4>1, <4>2, Zenon DEF k
    <3>4. both[j + 1] = IF t[j + 1] \in S THEN both[j] ELSE Append(both[j], t[j + 1])
      BY <1>7, <3>2
    <3>5. QED
      BY <3>2, <3>3, <3>4, Zenon
  <2>3. QED
    BY <1>1, <2>1, <2>2, SetInduction
<1>9. Without(u, S) = f[n + m] /\ Without(s, S) = g[n] /\ Without(t, S) = h[m]
  BY <1>1, <1>2, <1>3, <1>4 DEF Keeping
<1>10. f[n + m] = g[n] \o h[m]
  <2>1. m \in Nat /\ m <= m
    BY <1>1
  <2>2. f[n + m] = both[m]
    BY <1>8, <2>1
  <2>3. both[m] = g[n] \o h[m]
    BY <2>1, m \in 0 .. m DEF both
  <2>4. QED
    BY <2>2, <2>3, Zenon
<1>11. QED
  BY <1>9, <1>10, Zenon DEF DropsFromBoth, u

(* Dropping from a sequence of one.                                        *)
LEMMA WithoutOne ==
  ASSUME NEW e, NEW S
  PROVE  Without(<<e>>, S) = IF e \in S THEN <<>> ELSE <<e>>
<1> DEFINE s == <<e>>
<1>1. s \in Seq({e}) /\ Len(s) = 1 /\ s[1] = e
  OBVIOUS
<1> HIDE DEF s
<1>2. PICK f : Keeping(f, s, S, {e})
  BY <1>1, WithoutLoop
<1>3. f[1] = IF e \in S THEN f[0] ELSE Append(f[0], e)
  BY <1>1, <1>2, 1 \in 1 .. 1, 1 - 1 = 0 DEF Keeping
<1>4. Append(<<>>, e) = <<e>>
  OBVIOUS
<1>5. QED
  BY <1>1, <1>2, <1>3, <1>4 DEF Keeping, s

(* Two elements have a colon between them.                                 *)
Apart(s) == \A n \in 1 .. Len(s) - 1 : ":" \in {s[n], s[n + 1]}

(* Two such sequences make one when a colon ends the first or begins the   *)
(* second.                                                                 *)
LEMMA ApartConcat ==
  ASSUME NEW T, NEW s \in Seq(T), NEW t \in Seq(T), Apart(s), Apart(t), Len(t) > 0,
         s = <<>> \/ t[1] = ":" \/ s[Len(s)] = ":"
  PROVE  Apart(s \o t)
<1> DEFINE u == s \o t
           l == Len(s)
           m == Len(t)
<1>1. /\ u \in Seq(T) /\ l \in Nat /\ m \in Nat /\ Len(u) = l + m /\ (s = <<>> => l = 0)
      /\ \A i \in 1 .. l : u[i] = s[i]
      /\ \A i \in l + 1 .. l + m : u[i] = t[i - l]
  OBVIOUS
<1> HIDE DEF u, l, m
<1>2. ASSUME NEW n \in 1 .. l + m - 1 PROVE ":" \in {u[n], u[n + 1]}
  <2>1. CASE n < l
    <3>1. n \in 1 .. l - 1 /\ n \in 1 .. l /\ n + 1 \in 1 .. l
      BY <1>1, <2>1
    <3>2. QED
      BY <1>1, <3>1 DEF Apart, l
  <2>2. CASE n = l
    <3>1. n \in 1 .. l /\ n + 1 \in l + 1 .. l + m /\ n + 1 - l = 1
      BY <1>1, <2>2
    <3>2. u[n] = s[l] /\ u[n + 1] = t[1]
      BY <1>1, <2>2, <3>1
    <3>3. QED
      BY <1>1, <2>2, <3>1, <3>2 DEF l
  <2>3. CASE n > l
    <3>1. /\ n - l \in 1 .. m - 1 /\ n + 1 - l = (n - l) + 1
          /\ n \in l + 1 .. l + m /\ n + 1 \in l + 1 .. l + m
      BY <1>1, <2>3
    <3>2. u[n] = t[n - l] /\ u[n + 1] = t[(n - l) + 1]
      BY <1>1, <3>1
    <3>3. QED
      BY <3>1, <3>2 DEF Apart, m
  <2>4. QED
    BY <1>1, <2>1, <2>2, <2>3
<1>3. QED
  BY <1>1, <1>2 DEF Apart, u

(* The first members of a sequence, one more each time.                    *)
First(s, k) == [i \in 1 .. k |-> s[i]]

(* They start with none and end with all.                                  *)
LEMMA FirstGrows ==
  ASSUME NEW T, NEW s \in Seq(T)
  PROVE  /\ First(s, 0) = <<>> /\ First(s, Len(s)) = s
         /\ \A k \in Nat : k < Len(s) => Append(First(s, k), s[k + 1]) = First(s, k + 1)
<1>1. First(s, 0) = <<>> /\ First(s, Len(s)) = s
  BY DEF First
<1>2. ASSUME NEW k \in Nat, k < Len(s) PROVE Append(First(s, k), s[k + 1]) = First(s, k + 1)
  <2> DEFINE a == First(s, k)
             b == First(s, k + 1)
  <2>1. /\ a \in Seq(T) /\ b \in Seq(T) /\ Len(a) = k /\ Len(b) = k + 1 /\ s[k + 1] \in T
        /\ \A i \in 1 .. k : a[i] = s[i]
        /\ \A i \in 1 .. k + 1 : b[i] = s[i]
    BY <1>2 DEF First
  <2> HIDE DEF a, b
  <2>2. /\ Append(a, s[k + 1]) \in Seq(T) /\ Len(Append(a, s[k + 1])) = k + 1
        /\ \A i \in 1 .. k : Append(a, s[k + 1])[i] = a[i]
        /\ Append(a, s[k + 1])[k + 1] = s[k + 1]
    BY <2>1
  <2>3. \A i \in 1 .. k + 1 : i \in 1 .. k \/ i = k + 1
    OBVIOUS
  <2>4. \A i \in 1 .. k + 1 : Append(a, s[k + 1])[i] = b[i]
    BY <2>1, <2>2, <2>3
  <2>5. Append(a, s[k + 1]) = b
    BY <2>1, <2>2, <2>4, SeqEqual
  <2>6. QED
    BY <2>5 DEF a, b
<1>3. QED
  BY <1>1, <1>2

(* One part of a class path: eval_ppath() puts the jars of its directory   *)
(* in its place, with a colon between two.                                 *)
Marks == {Empty, ":"}
ListedPart(part) == IF part \in DOMAIN Jars THEN Jars[part]
                    ELSE IF part = Empty THEN <<>> ELSE <<part>>

(* The jars of a directory, in their order and apart.                      *)
LEMMA JarsIs ==
  ASSUME NEW T, NEW part \in DOMAIN Jars, NEW jars, jars = Jars[part], ":" \in T,
         jars \in Seq(T), \A i \in 1 .. Len(jars) : jars[i] \notin Marks
  PROVE  /\ EvalPath(part) \in Seq(T) /\ Apart(EvalPath(part))
         /\ Without(EvalPath(part), Marks) = jars
<1> DEFINE e == EvalPath(part)
           n == Len(jars)
<1>1. n \in Nat /\ (jars = <<>> <=> n = 0) /\ \A i \in 1 .. n : jars[i] \in T
  OBVIOUS
<1>2. e = [i \in 1 .. 2 * n - (IF jars = <<>> THEN 0 ELSE 1) |->
             IF i % 2 = 0 THEN ":" ELSE jars[(i + 1) \div 2]]
  BY DEF EvalPath
<1> HIDE DEF e, n
<1>3. CASE n = 0
  <2>1. e = <<>>
    BY <1>1, <1>2, <1>3
  <2>2. PICK f : Keeping(f, e, Marks, T)
    BY <2>1, WithoutLoop, <<>> \in Seq(T)
  <2>3. Without(e, Marks) = <<>>
    BY <2>1, <2>2, Len(<<>>) = 0 DEF Keeping
  <2>4. QED
    BY <1>1, <1>3, <2>1, <2>3 DEF Apart, e
<1>4. CASE n > 0
  <2>1. 2 * n - 1 \in Nat
    BY <1>1, <1>4
  <2>2. e = [i \in 1 .. 2 * n - 1 |-> IF i % 2 = 0 THEN ":" ELSE jars[(i + 1) \div 2]]
    BY <1>1, <1>2, <1>4
  <2>3. \A i \in 1 .. 2 * n - 1 : i % 2 # 0 => (i + 1) \div 2 \in 1 .. n
    BY <1>1, <1>4
  <2>4. e \in Seq(T) /\ Len(e) = 2 * n - 1
    BY <1>1, <2>1, <2>2, <2>3
  <2>5. \A i \in 1 .. 2 * n - 1 : i % 2 = 0 => e[i] = ":"
    BY <2>2
  <2>6. \A k \in Nat : k < n => 2 * k + 1 \in 1 .. 2 * n - 1 /\ e[2 * k + 1] = jars[k + 1]
    <3>1. ASSUME NEW k \in Nat, k < n
          PROVE  2 * k + 1 \in 1 .. 2 * n - 1 /\ e[2 * k + 1] = jars[k + 1]
      <4>1. 2 * k + 1 \in 1 .. 2 * n - 1 /\ (2 * k + 1) % 2 # 0 /\ (2 * k + 1 + 1) \div 2 = k + 1
        BY <1>1, <3>1
      <4>2. QED
        BY <2>2, <4>1
    <3>2. QED
      BY <3>1
  <2>7. Apart(e)
    <3>1. \A i \in 1 .. 2 * n - 2 : i % 2 = 0 \/ (i + 1) % 2 = 0
      BY <1>1
    <3>2. \A i \in 1 .. 2 * n - 2 : i \in 1 .. 2 * n - 1 /\ i + 1 \in 1 .. 2 * n - 1
      BY <1>1
    <3>3. 2 * n - 1 - 1 = 2 * n - 2
      BY <1>1
    <3>4. QED
      BY <2>4, <2>5, <3>1, <3>2, <3>3 DEF Apart
  <2>8. PICK f : Keeping(f, e, Marks, T)
    BY <2>4, WithoutLoop
  <2> DEFINE P == {k \in Nat : k < n => f[2 * k + 1] = First(jars, k + 1)}
  <2>9. 0 \in P
    <3>1. 1 \in 1 .. 2 * n - 1 /\ e[1] = jars[1] /\ jars[1] \notin Marks
      BY <1>1, <1>4, <2>6
    <3>2. f[1] = Append(f[0], jars[1]) /\ f[0] = <<>>
      BY <2>4, <2>8, <3>1, 1 - 1 = 0 DEF Keeping
    <3>3. Append(First(jars, 0), jars[0 + 1]) = First(jars, 0 + 1) /\ First(jars, 0) = <<>>
      BY <1>4, FirstGrows DEF n
    <3>4. QED
      BY <3>2, <3>3
  <2>10. ASSUME NEW k \in Nat, k \in P PROVE k + 1 \in P
    <3>1. SUFFICES ASSUME k + 1 < n PROVE f[2 * (k + 1) + 1] = First(jars, k + 1 + 1)
      OBVIOUS
    <3>2. f[2 * k + 1] = First(jars, k + 1)
      BY <1>1, <2>10, <3>1
    <3>3. f[2 * k + 2] = f[2 * k + 1]
      <4>1. 2 * k + 2 \in 1 .. 2 * n - 1 /\ (2 * k + 2) % 2 = 0 /\ 2 * k + 2 - 1 = 2 * k + 1
        BY <1>1, <3>1
      <4>2. e[2 * k + 2] \in Marks
        BY <2>5, <4>1 DEF Marks
      <4>3. QED
        BY <2>4, <2>8, <4>1, <4>2 DEF Keeping
    <3>4. f[2 * k + 3] = Append(f[2 * k + 2], jars[k + 2])
      <4>1. 2 * (k + 1) + 1 = 2 * k + 3 /\ k + 1 + 1 = k + 2 /\ 2 * k + 3 - 1 = 2 * k + 2
        OBVIOUS
      <4>2. 2 * k + 3 \in 1 .. 2 * n - 1 /\ e[2 * k + 3] = jars[k + 2]
        BY <2>6, <3>1, <4>1
      <4>3. jars[k + 2] \notin Marks
        BY <1>1, <3>1 DEF n
      <4> DEFINE i == 2 * k + 3
      <4>4. i \in 1 .. Len(e) /\ e[i] \notin Marks
        BY <2>4, <4>2, <4>3
      <4> HIDE DEF i
      <4>5. f[i] = Append(f[i - 1], e[i])
        BY <2>8, <4>4 DEF Keeping
      <4>6. QED
        BY <4>1, <4>2, <4>5 DEF i
    <3>5. Append(First(jars, k + 1), jars[k + 1 + 1]) = First(jars, k + 1 + 1)
      BY <3>1, FirstGrows DEF n
    <3>6. 2 * (k + 1) + 1 = 2 * k + 3 /\ k + 1 + 1 = k + 2
      OBVIOUS
    <3>7. QED
      BY <3>2, <3>3, <3>4, <3>5, <3>6
  <2>11. n - 1 \in P
    <3>1. n - 1 \in Nat
      BY <1>1, <1>4
    <3> HIDE DEF P
    <3>2. Nat \subseteq P
      BY <2>9, <2>10, SetInduction
    <3>3. QED
      BY <3>1, <3>2
  <2>12. f[2 * n - 1] = First(jars, n)
    BY <1>1, <1>4, <2>11, n - 1 < n, 2 * (n - 1) + 1 = 2 * n - 1, n - 1 + 1 = n
  <2>13. Without(e, Marks) = jars
    BY <2>4, <2>8, <2>12, FirstGrows DEF Keeping, n
  <2>14. QED
    BY <2>4, <2>7, <2>13 DEF e
<1>5. QED
  BY <1>1, <1>3, <1>4

(* Any part of a class path.                                               *)
PartOK(s, part, T) == /\ s \in Seq(T) /\ Apart(s)
                      /\ Without(s, Marks) = ListedPart(part)

(* Without its colons and empty names a part is what it lists.             *)
LEMMA PartIs ==
  ASSUME NEW T, ":" \in T, NEW part \in T, part # ":", part \in DOMAIN Jars => Jars[part] \in Seq(T)
  PROVE  PartOK(EvalPath(part), part, T) /\ ListedPart(part) \in Seq(T)
<1>1. CASE part \in DOMAIN Jars
  <2> DEFINE jars == Jars[part]
  <2>1. jars \in Seq(T) /\ \A i \in 1 .. Len(jars) : jars[i] \notin Marks
    <3>1. jars \in Seq(T) /\ {Empty, ":"} \cap ToSet(jars) = {}
      BY <1>1, ClassPathsAssumption
    <3> HIDE DEF jars
    <3>2. DOMAIN jars = 1 .. Len(jars)
      BY <3>1
    <3>3. QED
      BY <3>1, <3>2 DEF Marks, ToSet
  <2>2. ListedPart(part) = jars
    BY <1>1 DEF ListedPart
  <2> HIDE DEF jars
  <2>3. jars = Jars[part]
    BY DEF jars
  <2>4. QED
    BY <1>1, <2>1, <2>2, <2>3, JarsIs DEF PartOK
<1>2. CASE part \notin DOMAIN Jars
  <2>1. EvalPath(part) = <<part>>
    BY <1>2 DEF EvalPath
  <2>2. <<part>> \in Seq(T) /\ Apart(<<part>>)
    BY DEF Apart
  <2>3. ListedPart(part) = IF part \in Marks THEN <<>> ELSE <<part>>
    BY <1>2 DEF ListedPart, Marks
  <2>4. ListedPart(part) \in Seq(T)
    BY <2>2, <2>3
  <2>5. QED
    BY <2>1, <2>2, <2>3, <2>4, WithoutOne DEF PartOK
<1>3. QED
  BY <1>1, <1>2

(* The same after a colon.                                                 *)
LEMMA ColonPartIs ==
  ASSUME NEW T, ":" \in T, NEW part, NEW s, PartOK(s, part, T), ListedPart(part) \in Seq(T)
  PROVE  /\ PartOK(<<":">> \o s, part, T)
         /\ Len(<<":">> \o s) > 0 /\ (<<":">> \o s)[1] = ":"
<1> DEFINE c == <<":">>
<1>1. /\ c \in Seq(T) /\ s \in Seq(T) /\ Len(c) = 1 /\ c[1] = ":" /\ Apart(c)
  BY DEF PartOK, Apart
<1>2. Without(c, Marks) = <<>>
  BY WithoutOne DEF Marks
<1>3. DropsFromBoth(c, s, Marks)
  BY <1>1, WithoutConcat
<1>4. <<>> \o ListedPart(part) = ListedPart(part)
  BY ConcatEmptySeq
<1>5. Without(c \o s, Marks) = ListedPart(part)
  BY <1>2, <1>3, <1>4, Zenon DEF DropsFromBoth, PartOK
<1>6. c \o s \in Seq(T) /\ Len(c \o s) > 0 /\ (c \o s)[1] = ":"
  BY <1>1
<1>7. Apart(c \o s)
  <2>1. CASE Len(s) = 0
    BY <1>1, <2>1 DEF Apart
  <2>2. CASE Len(s) > 0
    BY <1>1, <2>2, ApartConcat DEF PartOK
  <2>3. QED
    BY <1>1, <2>1, <2>2
<1>8. QED
  BY <1>5, <1>6, <1>7 DEF PartOK

(* What eval_cpath() makes of a class path is one.                         *)
LEMMA ClassPathIs ==
  ASSUME NEW w \in DOMAIN ClassPaths
  PROVE  IsClassPath(EvalClassPath(w), ClassPaths[w])
<1> DEFINE all == ClassPaths[w]
           N == Len(all)
           used == IF all[N] = Empty THEN N - 1 ELSE N
           T == {":"} \cup ToSet(all) \cup UNION { ToSet(Jars[d]) : d \in DOMAIN Jars }
           Piece(i) == (IF i = 1 THEN <<>> ELSE <<":">>) \o EvalPath(all[i])
           q == [i \in 1 .. used |-> Piece(i)]
           r == [i \in 1 .. N |-> ListedPart(all[i])]
<1>1. all \in Seq(ToSet(all)) /\ all # <<>> /\ ":" \notin ToSet(all)
  BY ClassPathsAssumption DEF IsSeq
<1>2. N \in Nat /\ N > 0
  BY <1>1
<1>2b. DOMAIN all = 1 .. N /\ \A i \in 1 .. N : all[i] \in ToSet(all)
  BY <1>1 DEF ToSet
<1>4. EvalClassPath(w) = Joined(q)
  BY DEF EvalClassPath, Last
<1>5. Listed(all) = Joined(r)
  BY <1>2b DEF Listed, ListedPart
<1>7. \A d \in DOMAIN Jars : Jars[d] \in Seq(T)
  <2>1. ASSUME NEW d \in DOMAIN Jars PROVE Jars[d] \in Seq(T)
    <3> DEFINE U == ToSet(Jars[d])
    <3>1. Jars[d] \in Seq(U)
      BY ClassPathsAssumption DEF IsSeq
    <3>2. U \subseteq T
      OBVIOUS
    <3> HIDE DEF U, T
    <3>3. QED
      BY <3>1, <3>2
  <2>2. QED
    BY <2>1
<1> HIDE DEF all, N
<1>3. used \in Nat /\ used <= N /\ (used < N => used = N - 1 /\ all[N] = Empty)
  BY <1>2
<1> HIDE DEF used
<1>6. ":" \in T /\ \A i \in 1 .. N : all[i] \in T /\ all[i] # ":"
  BY <1>1, <1>2b
<1> HIDE DEF T
<1>8. ASSUME NEW i \in 1 .. N
      PROVE  PartOK(EvalPath(all[i]), all[i], T) /\ ListedPart(all[i]) \in Seq(T)
  BY <1>6, <1>7, PartIs
<1>9. ASSUME NEW i \in 1 .. used
      PROVE  /\ PartOK(Piece(i), all[i], T)
             /\ i > 1 => Len(Piece(i)) > 0 /\ Piece(i)[1] = ":"
  <2>1. i \in 1 .. N
    BY <1>2, <1>3
  <2>2. CASE i = 1
    <3>1. EvalPath(all[i]) \in Seq(T)
      BY <1>8, <2>1 DEF PartOK
    <3>2. <<>> \o EvalPath(all[i]) = EvalPath(all[i])
      BY <3>1, ConcatEmptySeq
    <3>3. Piece(i) = EvalPath(all[i])
      BY <2>2, <3>2
    <3>4. QED
      BY <1>8, <2>1, <2>2, <3>3
  <2>3. CASE i # 1
    <3>1. Piece(i) = <<":">> \o EvalPath(all[i])
      BY <2>3
    <3>2. QED
      BY <1>6, <1>8, <2>1, <3>1, ColonPartIs
  <2>4. QED
    BY <2>2, <2>3
<1> HIDE DEF Piece
<1>10. Pieces(q, used, T)
  BY <1>9 DEF Pieces, PartOK
<1>11. Pieces(r, N, T)
  BY <1>8 DEF Pieces
<1>12. PICK g : Joining(g, q, used, T)
  BY <1>3, <1>10, JoinedLoop
<1>13. PICK h : Joining(h, r, N, T)
  BY <1>2, <1>11, JoinedLoop
<1>14. ASSUME NEW i \in 1 .. used
       PROVE  /\ q[i] \in Seq(T) /\ Apart(q[i]) /\ Without(q[i], Marks) = r[i]
              /\ i > 1 => Len(q[i]) > 0 /\ q[i][1] = ":"
  BY <1>2, <1>3, <1>9, i \in 1 .. N DEF PartOK
<1>15. used = N - 1 => r[N] = <<>>
  <2>1. SUFFICES ASSUME used = N - 1 PROVE ListedPart(all[N]) = <<>>
    BY <1>2
  <2>2. all[N] = Empty
    BY <1>2, <1>3, <2>1
  <2>3. QED
    BY <2>2, ClassPathsAssumption DEF ListedPart
<1> HIDE DEF q, r
<1> DEFINE Good(i) == Apart(g[i]) /\ Without(g[i], Marks) = h[i]
           P == {i \in Nat : i <= used => Good(i)}
<1>16. 0 \in P
  <2>1. g[0] = <<>> /\ h[0] = <<>>
    BY <1>12, <1>13 DEF Joining
  <2>2. PICK f : Keeping(f, <<>>, Marks, T)
    BY WithoutLoop, <<>> \in Seq(T)
  <2>3. Without(<<>>, Marks) = <<>>
    BY <2>2, Len(<<>>) = 0 DEF Keeping
  <2>4. QED
    BY <2>1, <2>3 DEF Apart
<1>17. ASSUME NEW i \in Nat, i \in P PROVE i + 1 \in P
  <2>1. SUFFICES ASSUME i + 1 <= used PROVE Good(i + 1)
    OBVIOUS
  <2>2. i + 1 \in 1 .. used /\ i + 1 \in 1 .. N /\ i + 1 - 1 = i /\ i \in 0 .. used /\ Good(i)
    BY <1>2, <1>3, <1>17, <2>1
  <2> DEFINE s == g[i]
             t == q[i + 1]
  <2>3. g[i + 1] = s \o t /\ h[i + 1] = h[i] \o r[i + 1]
    <3> DEFINE k == i + 1
    <3>1. k \in 1 .. used /\ k \in 1 .. N /\ k - 1 = i
      BY <2>2
    <3> HIDE DEF k
    <3>2. g[k] = g[k - 1] \o q[k] /\ h[k] = h[k - 1] \o r[k]
      BY <1>12, <1>13, <3>1, Zenon DEF Joining
    <3>3. QED
      BY <3>1, <3>2, Zenon DEF k
  <2>4. s \in Seq(T) /\ t \in Seq(T)
    BY <1>12, <1>14, <2>2 DEF Joining
  <2>5. Without(s, Marks) = h[i] /\ Without(t, Marks) = r[i + 1] /\ Apart(s) /\ Apart(t)
    BY <1>14, <2>2
  <2>6. i > 0 => Len(t) > 0 /\ t[1] = ":"
    BY <1>14, <2>2, i > 0 => i + 1 > 1
  <2>7. i = 0 => s = <<>>
    BY <1>12 DEF Joining
  <2> HIDE DEF s, t
  <2>8. DropsFromBoth(s, t, Marks)
    BY <2>4, WithoutConcat
  <2>9. Apart(s \o t)
    <3>1. CASE i = 0
      <4>1. s \o t = t
        BY <2>4, <2>7, <3>1, ConcatEmptySeq
      <4>2. QED
        BY <2>5, <4>1
    <3>2. CASE i > 0
      BY <2>4, <2>5, <2>6, <3>2, ApartConcat
    <3>3. QED
      BY <3>1, <3>2
  <2>10. QED
    BY <2>3, <2>5, <2>8, <2>9, Zenon DEF DropsFromBoth
<1> HIDE DEF P
<1>18. used \in P
  BY <1>3, <1>16, <1>17, SetInduction
<1>19. Good(used)
  BY <1>3, <1>18 DEF P
<1>20. h[used] = h[N]
  <2>1. CASE used = N
    BY <2>1
  <2>2. CASE used = N - 1
    <3>1. h[N] = h[N - 1] \o r[N]
      BY <1>2, <1>13, N \in 1 .. N DEF Joining
    <3>2. h[N - 1] \in Seq(T)
      BY <1>2, <1>13, N - 1 \in 0 .. N DEF Joining
    <3>3. h[N - 1] \o <<>> = h[N - 1]
      BY <3>2, ConcatEmptySeq
    <3>4. QED
      BY <1>15, <2>2, <3>1, <3>3, Zenon
  <2>3. QED
    BY <1>2, <1>3, <2>1, <2>2
<1>21. Joined(q) = g[used] /\ Joined(r) = h[N]
  BY <1>12, <1>13 DEF Joining
<1>22. Apart(Joined(q)) /\ Without(Joined(q), Marks) = Joined(r)
  BY <1>19, <1>20, <1>21
<1>23. QED
  BY <1>4, <1>5, <1>22 DEF IsClassPath, Apart, Marks, all

-----------------------------------------------------------------------------
(* The words up to the one parse() is at, against the whole command line.  *)

Free(words, i) == ~IsOption(words[i]) /\ (i = 1 \/ words[i - 1] \notin Valued)

(* Every word before n is an option or the value of one.                   *)
Covered(words, n) ==
  /\ \A i \in 1 .. Len(words) : i < n => ~Free(words, i)
  /\ 1 < n /\ n <= Len(words) => words[n - 1] \notin Valued

(* What the words before n say about a member.                             *)
Says(words, i, m) == IF words[i] \in DOMAIN Member THEN words[i + 1] ELSE Flag[words[i]][m]
Unsaid(m, v) == \E d \in Defaults : v = d[m]
LastSaid(words, n, m, v, i) ==
  /\ i < n /\ Sets(words[i], m) /\ v = Says(words, i, m)
  /\ \A j \in 1 .. Len(words) : j < n /\ Sets(words[j], m) => j <= i
SaidBefore(words, n, m, v) ==
  \/ (\A j \in 1 .. Len(words) : j < n => ~Sets(words[j], m)) /\ Unsaid(m, v)
  \/ \E i \in 1 .. Len(words) : LastSaid(words, n, m, v, i)

(* The options of the VM among them.                                       *)
Places(words, n) == { i \in 1 .. Len(words) : i < n /\ words[i] \in VmOptions \cup ClassPath }
Is(words, i, opt) == IF words[i] \in VmOptions THEN opt = <<words[i]>>
                     ELSE IsClassPath(opt, ClassPaths[words[i + 1]])
PassedFrom(words, n, opts, from) ==
  /\ from \in [1 .. Len(opts) -> Places(words, n)]
  /\ \A k, l \in 1 .. Len(opts) : k < l => from[k] < from[l]
  /\ \A i \in Places(words, n) : \E k \in 1 .. Len(opts) : from[k] = i
  /\ \A k \in 1 .. Len(opts) : Is(words, from[k], opts[k])

(* A turn of the loop goes over an option, or over one and its value.      *)
GoesOver(words, n, next) ==
  /\ n \in 1 .. Len(words) /\ IsOption(words[n])
  /\ \/ next = n + 1 /\ words[n] \notin Valued
     \/ next = n + 2 /\ words[n] \in Valued /\ (n < Len(words) => ~IsOption(words[n + 1]))

(* What such a turn has gone over: the option and, when there is one, its  *)
(* value.                                                                  *)
LEMMA NewPlaces ==
  ASSUME NEW words, Len(words) \in Nat, NEW n, NEW next, GoesOver(words, n, next)
  PROVE  /\ n \in Nat /\ next \in Nat /\ n < next
         /\ \A i \in 1 .. Len(words) :
              i < next <=> \/ i < n \/ i = n
                           \/ i = n + 1 /\ next = n + 2 /\ n < Len(words) /\ ~IsOption(words[i])
BY DEF GoesOver

(* No class of the program is gone over.                                   *)
LEMMA CoversMore ==
  ASSUME NEW words, Len(words) \in Nat, NEW n, NEW next, GoesOver(words, n, next),
         Covered(words, n)
  PROVE  Covered(words, next)
<1>1. /\ n \in Nat /\ next \in Nat /\ n < next
      /\ \A i \in 1 .. Len(words) :
              i < next <=> \/ i < n \/ i = n
                           \/ i = n + 1 /\ next = n + 2 /\ n < Len(words) /\ ~IsOption(words[i])
  BY NewPlaces
<1>2. ASSUME NEW i \in 1 .. Len(words), i < next PROVE ~Free(words, i)
  <2>1. CASE i < n
    BY <2>1 DEF Covered
  <2>2. CASE i = n
    BY <2>2 DEF GoesOver, Free
  <2>3. CASE i = n + 1 /\ next = n + 2
    <3>1. words[n] \in Valued
      BY <1>1, <2>3 DEF GoesOver
    <3>2. i # 1 /\ i - 1 = n
      BY <2>3 DEF GoesOver
    <3>3. QED
      BY <3>1, <3>2 DEF Free
  <2>4. QED
    BY <1>1, <1>2, <2>1, <2>2, <2>3
<1>3. ASSUME next <= Len(words) PROVE words[next - 1] \notin Valued
  <2>1. CASE next = n + 1 /\ words[n] \notin Valued
    <3>1. next - 1 = n
      BY <1>1, <2>1
    <3>2. QED
      BY <2>1, <3>1
  <2>2. CASE next = n + 2 /\ (n < Len(words) => ~IsOption(words[n + 1]))
    <3>1. next - 1 = n + 1 /\ n < Len(words)
      BY <1>1, <1>3, <2>2
    <3>2. QED
      BY <2>2, <3>1 DEF IsOption
  <2>3. QED
    BY <2>1, <2>2 DEF GoesOver
<1>4. QED
  BY <1>2, <1>3 DEF Covered

(* Only an option sets a member.                                           *)
LEMMA SetsIsOption == ASSUME NEW word, NEW m, Sets(word, m) PROVE IsOption(word)
BY DEF Sets, IsOption, Valued

(* The last option that sets a member decides, also after the turn.        *)
LEMMA SaysMore ==
  ASSUME NEW words, Len(words) \in Nat, NEW n, NEW next, GoesOver(words, n, next),
         NEW m, NEW v, SaidBefore(words, n, m, v), NEW w,
         w = IF Sets(words[n], m) THEN Says(words, n, m) ELSE v
  PROVE  SaidBefore(words, next, m, w)
<1>1. /\ n \in Nat /\ next \in Nat /\ n < next /\ n \in 1 .. Len(words)
      /\ \A i \in 1 .. Len(words) :
              i < next <=> \/ i < n \/ i = n
                           \/ i = n + 1 /\ next = n + 2 /\ n < Len(words) /\ ~IsOption(words[i])
  BY NewPlaces DEF GoesOver
<1>2. \A i \in 1 .. Len(words) : i < next /\ Sets(words[i], m) => i < n \/ i = n
  BY <1>1, SetsIsOption
<1>3. CASE Sets(words[n], m)
  <2>1. w = Says(words, n, m)
    BY <1>3
  <2>2. \A i \in 1 .. Len(words) : i < next /\ Sets(words[i], m) => i <= n
    BY <1>1, <1>2
  <2>3. LastSaid(words, next, m, w, n)
    BY <1>1, <1>3, <2>1, <2>2 DEF LastSaid
  <2>4. QED
    BY <1>1, <2>3 DEF SaidBefore
<1>4. CASE ~Sets(words[n], m)
  <2>1. w = v
    BY <1>4
  <2>2. \A i \in 1 .. Len(words) : i < next /\ Sets(words[i], m) => i < n
    BY <1>2, <1>4
  <2>3. CASE Unsaid(m, v) /\ \A j \in 1 .. Len(words) : j < n => ~Sets(words[j], m)
    BY <2>1, <2>2, <2>3 DEF SaidBefore
  <2>4. ASSUME NEW i \in 1 .. Len(words), LastSaid(words, n, m, v, i)
        PROVE  SaidBefore(words, next, m, w)
    <3>1. LastSaid(words, next, m, w, i)
      BY <1>1, <2>1, <2>2, <2>4 DEF LastSaid
    <3>2. QED
      BY <3>1 DEF SaidBefore
  <2>5. QED
    BY <2>3, <2>4 DEF SaidBefore
<1>5. QED
  BY <1>3, <1>4

(* The other options add none.                                             *)
LEMMA SamePlaces ==
  ASSUME NEW words, Len(words) \in Nat, NEW n, NEW next, GoesOver(words, n, next),
         words[n] \notin VmOptions \cup ClassPath
  PROVE  Places(words, next) = Places(words, n)
<1>1. \A i \in 1 .. Len(words) : words[i] \in VmOptions \cup ClassPath => IsOption(words[i])
  BY DEF IsOption, Valued
<1>2. QED
  BY <1>1, NewPlaces DEF Places

(* One more option of the VM, after the others.                            *)
LEMMA PassesMore ==
  ASSUME NEW words, Len(words) \in Nat, NEW n, NEW next, GoesOver(words, n, next),
         words[n] \in VmOptions \cup ClassPath,
         NEW T, NEW opts \in Seq(T), NEW from, PassedFrom(words, n, opts, from),
         NEW opt \in T, Is(words, n, opt)
  PROVE  \E onward : PassedFrom(words, next, Append(opts, opt), onward)
<1> DEFINE l == Len(opts)
           more == Append(opts, opt)
           onward == [k \in 1 .. l + 1 |-> IF k = l + 1 THEN n ELSE from[k]]
<1>1. /\ l \in Nat /\ Len(more) = l + 1 /\ more[l + 1] = opt
      /\ \A k \in 1 .. l : more[k] = opts[k]
  OBVIOUS
<1> HIDE DEF l, more
<1>2. /\ n \in Nat /\ next \in Nat /\ n < next /\ n \in 1 .. Len(words)
      /\ \A i \in 1 .. Len(words) :
              i < next <=> \/ i < n \/ i = n
                           \/ i = n + 1 /\ next = n + 2 /\ n < Len(words) /\ ~IsOption(words[i])
  BY NewPlaces DEF GoesOver
<1>3. \A i \in 1 .. Len(words) : words[i] \in VmOptions \cup ClassPath => IsOption(words[i])
  BY DEF IsOption, Valued
<1>4. Places(words, next) = Places(words, n) \cup {n}
  BY <1>2, <1>3 DEF Places
<1>5. /\ from \in [1 .. l -> Places(words, n)]
      /\ \A j, k \in 1 .. l : j < k => from[j] < from[k]
      /\ \A i \in Places(words, n) : \E k \in 1 .. l : from[k] = i
      /\ \A k \in 1 .. l : Is(words, from[k], opts[k])
  BY DEF PassedFrom, l
<1>6. \A k \in 1 .. l + 1 : k = l + 1 \/ k \in 1 .. l
  BY <1>1
<1>7. onward[l + 1] = n /\ \A k \in 1 .. l : onward[k] = from[k]
  BY <1>1
<1>8. onward \in [1 .. l + 1 -> Places(words, next)]
  BY <1>4, <1>5, <1>6
<1> HIDE DEF onward
<1>9. \A i \in Places(words, n) : i < n
  BY DEF Places
<1>10. ASSUME NEW j \in 1 .. l + 1, NEW k \in 1 .. l + 1, j < k PROVE onward[j] < onward[k]
  <2>1. j \in 1 .. l
    BY <1>1, <1>10
  <2>2. onward[j] = from[j] /\ from[j] \in Places(words, n)
    BY <1>5, <1>7, <2>1
  <2>3. CASE k \in 1 .. l
    BY <1>5, <1>7, <1>10, <2>1, <2>2, <2>3
  <2>4. CASE k = l + 1
    BY <1>7, <1>9, <2>2, <2>4
  <2>5. QED
    BY <1>6, <2>3, <2>4
<1>11. ASSUME NEW i \in Places(words, next) PROVE \E k \in 1 .. l + 1 : onward[k] = i
  <2>1. CASE i = n
    BY <1>1, <1>7, <2>1, l + 1 \in 1 .. l + 1
  <2>2. CASE i \in Places(words, n)
    <3>1. PICK k \in 1 .. l : from[k] = i
      BY <1>5, <2>2
    <3>2. QED
      BY <1>1, <1>7, <3>1, k \in 1 .. l + 1
  <2>3. QED
    BY <1>4, <2>1, <2>2
<1>12. ASSUME NEW k \in 1 .. l + 1 PROVE Is(words, onward[k], more[k])
  <2>1. CASE k \in 1 .. l
    BY <1>1, <1>5, <1>7, <2>1
  <2>2. CASE k = l + 1
    BY <1>1, <1>7, <2>2
  <2>3. QED
    BY <1>6, <2>1, <2>2
<1>13. PassedFrom(words, next, more, onward)
  BY <1>1, <1>8, <1>10, <1>11, <1>12 DEF PassedFrom
<1>14. QED
  BY <1>13 DEF more

(* Where the class is, or would be.                                        *)
LEMMA ClassAtIs ==
  ASSUME NEW words, IsSeq(words), NEW c \in Nat, \A i \in 1 .. Len(words) : i < c => ~Free(words, i),
         c = Len(words) + 1 \/ (c \in 1 .. Len(words) /\ Free(words, c))
  PROVE  ClassAt(words) = c
<1> DEFINE free == { i \in DOMAIN words :
                       ~IsOption(words[i]) /\ (i = 1 \/ words[i - 1] \notin Valued) }
           all == free \cup {Len(words) + 1}
<1>1. DOMAIN words = 1 .. Len(words) /\ Len(words) \in Nat
  BY DEF IsSeq
<1>2. c \in all /\ \A i \in all : c <= i
  BY <1>1 DEF Free
<1>3. all \subseteq Nat
  BY <1>1
<1> HIDE DEF all
<1>4. Min(all) \in all /\ Min(all) \in Nat /\ Min(all) <= c
  BY <1>2, <1>3, MinIs
<1>5. Min(all) = c
  BY <1>2, <1>4
<1>6. QED
  BY <1>5 DEF ClassAt, all

(* At the class, what was said before is what the command line says.       *)
LEMMA AllSaid ==
  ASSUME NEW words, IsSeq(words), NEW c, c \in 1 .. Len(words) + 1, ClassAt(words) = c,
         NEW m, NEW v, SaidBefore(words, c, m, v)
  PROVE  v \in Said(words, m)
<1> DEFINE set == { i \in 1 .. c - 1 : Sets(words[i], m) }
<1>1. Len(words) \in Nat /\ \A i \in 1 .. Len(words) : i < c <=> i \in 1 .. c - 1
  BY DEF IsSeq
<1>2. 1 .. c - 1 \subseteq 1 .. Len(words)
  BY <1>1
<1>3. Said(words, m) = IF set = {} THEN { d[m] : d \in Defaults } ELSE { Says(words, Max(set), m) }
  BY DEF Said, Says
<1>4. CASE Unsaid(m, v) /\ \A j \in 1 .. Len(words) : j < c => ~Sets(words[j], m)
  <2>1. set = {}
    BY <1>1, <1>2, <1>4
  <2>2. QED
    BY <1>3, <1>4, <2>1 DEF Unsaid
<1>5. ASSUME NEW i \in 1 .. Len(words), LastSaid(words, c, m, v, i) PROVE v \in Said(words, m)
  <2>1. i \in set /\ \A j \in set : j <= i
    BY <1>1, <1>2, <1>5 DEF LastSaid
  <2>2. set \subseteq Nat
    BY <1>1
  <2> HIDE DEF set
  <2>3. Max(set) \in set /\ \A j \in set : Max(set) >= j
    BY <2>1, <2>2 DEF Max
  <2>4. Max(set) = i
    <3>1. Max(set) \in Nat /\ i \in Nat /\ Max(set) >= i /\ Max(set) <= i
      BY <2>1, <2>2, <2>3
    <3>2. QED
      BY <3>1
  <2>5. v = Says(words, i, m)
    BY <1>5 DEF LastSaid
  <2>6. QED
    BY <1>3, <2>1, <2>4, <2>5
<1>6. QED
  BY <1>4, <1>5 DEF SaidBefore

(* At the class, what was passed on is all that the command line has for   *)
(* the VM.                                                                 *)
LEMMA AllPassed ==
  ASSUME NEW words, IsSeq(words), NEW c, c \in 1 .. Len(words) + 1, ClassAt(words) = c,
         NEW opts, NEW from, PassedFrom(words, c, opts, from)
  PROVE  PassedOn(words, opts)
<1> DEFINE places == { i \in 1 .. ClassAt(words) - 1 : words[i] \in VmOptions \cup ClassPath }
<1>1. Len(words) \in Nat /\ c \in Nat
  BY DEF IsSeq
<1>2. places = Places(words, c)
  BY <1>1 DEF Places
<1>3. /\ from \in [1 .. Len(opts) -> places]
      /\ \A k, l \in 1 .. Len(opts) : k < l => from[k] < from[l]
      /\ \A i \in places : \E k \in 1 .. Len(opts) : from[k] = i
      /\ \A k \in 1 .. Len(opts) :
           IF words[from[k]] \in VmOptions THEN opts[k] = <<words[from[k]]>>
           ELSE IsClassPath(opts[k], ClassPaths[words[from[k] + 1]])
  BY <1>2 DEF PassedFrom, Is
<1>4. QED
  BY <1>3, Zenon DEF PassedOn

(* While parse() reads, args is what the words before x say.               *)
Others == {"opts", "clas", "args", "wait", "umask"}
OptionSet == { <<v>> : v \in VmOptions } \cup { EvalClassPath(w) : w \in DOMAIN ClassPaths }

ReadWords ==
  /\ x \in Nat \ {0} /\ {"help", "opts", "clas", "args"} \subseteq DOMAIN args
  /\ args.clas = Null /\ args.args = <<>> /\ args.opts \in Seq(OptionSet)
  /\ ~MaskedWait(argv) =>
       /\ Covered(argv, x)
       /\ \A m \in DOMAIN args \ Others : SaidBefore(argv, x, m, args[m])
       /\ \E from : PassedFrom(argv, x, args.opts, from)

WInv ==
  /\ IsSeq(argv)
  /\ \A i \in 2 .. Len(argv) :
       argv[i - 1] \in ClassPath /\ ~IsOption(argv[i]) => argv[i] \in DOMAIN ClassPaths
  /\ at = "parse" => ReadWords
  /\ ReadAsWritten

(* Before the first word nothing is read.                                  *)
LEMMA StartWords ==
  ASSUME IsSeq(argv), NEW new \in Defaults
  PROVE  /\ {"help", "opts", "clas", "args"} \subseteq DOMAIN new
         /\ new.clas = Null /\ new.args = <<>> /\ new.opts = <<>>
         /\ Covered(argv, 1)
         /\ \A m \in DOMAIN new \ Others : SaidBefore(argv, 1, m, new[m])
         /\ \E from : PassedFrom(argv, 1, <<>>, from)
<1>1. /\ {"help", "opts", "clas", "args"} \subseteq DOMAIN new
      /\ new.clas = Null /\ new.args = <<>> /\ new.opts = <<>>
  BY DEF Defaults
<1>2. \A i \in 1 .. Len(argv) : ~(i < 1)
  BY DEF IsSeq
<1>3. Covered(argv, 1)
  BY <1>2 DEF Covered
<1>4. \A m \in DOMAIN new \ Others : SaidBefore(argv, 1, m, new[m])
  BY <1>2 DEF SaidBefore, Unsaid
<1>5. Places(argv, 1) = {} /\ Len(<<>>) = 0 /\ 1 .. 0 = {}
  BY <1>2 DEF Places
<1>6. PassedFrom(argv, 1, <<>>, [k \in 1 .. 0 |-> 0])
  BY <1>5 DEF PassedFrom
<1>7. QED
  BY <1>1, <1>3, <1>4, <1>6

(* So it is when main() starts.                                            *)
LEMMA InitWInv == Init => WInv
<1> SUFFICES ASSUME Init PROVE WInv
  OBVIOUS
<1>1. /\ IsSeq(argv) /\ at = "parse" /\ x = 1 /\ args \in Defaults
      /\ \A i \in 2 .. Len(argv) :
           argv[i - 1] \in ClassPath /\ ~IsOption(argv[i]) => argv[i] \in DOMAIN ClassPaths
  BY LaunchesAssumption DEF Init
<1>2. /\ {"help", "opts", "clas", "args"} \subseteq DOMAIN args
      /\ args.clas = Null /\ args.args = <<>> /\ args.opts = <<>>
      /\ Covered(argv, 1)
      /\ \A m \in DOMAIN args \ Others : SaidBefore(argv, 1, m, args[m])
      /\ \E from : PassedFrom(argv, 1, <<>>, from)
  BY <1>1, StartWords
<1>2b. <<>> \in Seq(OptionSet) /\ 1 \in Nat \ {0}
  OBVIOUS
<1>2c. ReadWords
  BY <1>1, <1>2, <1>2b, Zenon DEF ReadWords
<1>3. ReadAsWritten
  BY <1>1 DEF ReadAsWritten
<1>4. QED
  BY <1>1, <1>2c, <1>3 DEF WInv

(* The loop goes on with what the branch has made of args.                 *)
LEMMA GoesOn ==
  ASSUME WInv, at = "parse", at' = "parse", argv' = argv, x <= Len(argv),
         DOMAIN args' = DOMAIN args, args'.clas = args.clas, args'.args = args.args,
         ~MaskedWait(argv) => GoesOver(argv, x, x'), x' \in {x + 1, x + 2},
         \A m \in DOMAIN args \ Others :
           args'[m] = IF Sets(argv[x], m) THEN Says(argv, x, m) ELSE args[m],
         \/ args'.opts = args.opts /\ argv[x] \notin VmOptions \cup ClassPath
         \/ /\ argv[x] \in VmOptions \cup ClassPath
            /\ \E opt \in OptionSet : args'.opts = Append(args.opts, opt) /\ Is(argv, x, opt)
  PROVE  WInv'
<1>1. /\ IsSeq(argv) /\ x \in Nat \ {0} /\ {"help", "opts", "clas", "args"} \subseteq DOMAIN args
      /\ args.clas = Null /\ args.args = <<>> /\ args.opts \in Seq(OptionSet) /\ Len(argv) \in Nat
  BY DEF WInv, ReadWords, IsSeq
<1>2. args'.opts \in Seq(OptionSet)
  BY <1>1
<1>3. ASSUME ~MaskedWait(argv)
      PROVE  /\ Covered(argv, x')
             /\ \A m \in DOMAIN args \ Others : SaidBefore(argv, x', m, args'[m])
             /\ \E from : PassedFrom(argv, x', args'.opts, from)
  <2>1. /\ Covered(argv, x) /\ GoesOver(argv, x, x')
        /\ \A m \in DOMAIN args \ Others : SaidBefore(argv, x, m, args[m])
        /\ \E from : PassedFrom(argv, x, args.opts, from)
    BY <1>3 DEF WInv, ReadWords
  <2>2. Covered(argv, x')
    BY <1>1, <2>1, CoversMore
  <2>3. ASSUME NEW m \in DOMAIN args \ Others PROVE SaidBefore(argv, x', m, args'[m])
    BY <1>1, <2>1, SaysMore
  <2>4. PICK from : PassedFrom(argv, x, args.opts, from)
    BY <2>1
  <2>5. CASE args'.opts = args.opts /\ argv[x] \notin VmOptions \cup ClassPath
    <3>1. Places(argv, x') = Places(argv, x)
      BY <1>1, <2>1, <2>5, SamePlaces
    <3>2. PassedFrom(argv, x', args'.opts, from)
      BY <2>4, <2>5, <3>1 DEF PassedFrom
    <3>3. QED
      BY <2>2, <2>3, <3>2
  <2>6. CASE argv[x] \in VmOptions \cup ClassPath
             /\ \E opt \in OptionSet : args'.opts = Append(args.opts, opt) /\ Is(argv, x, opt)
    <3>1. PICK opt \in OptionSet : args'.opts = Append(args.opts, opt) /\ Is(argv, x, opt)
      BY <2>6
    <3>2. \E onward : PassedFrom(argv, x', Append(args.opts, opt), onward)
      BY <1>1, <2>1, <2>4, <2>6, <3>1, PassesMore
    <3>3. QED
      BY <2>2, <2>3, <3>1, <3>2
  <2>7. QED
    BY <2>5, <2>6
<1>4. ReadWords'
  BY <1>1, <1>2, <1>3 DEF ReadWords
<1>5. ReadAsWritten'
  BY DEF ReadAsWritten
<1>6. QED
  BY <1>4, <1>5 DEF WInv

(* Each branch of the loop that goes on.                                   *)
LEMMA TurnWInv ==
  ASSUME WInv, at = "parse", at' = "parse", x <= Len(argv),
         ReadFlag \/ ReadValue \/ ReadWait \/ ReadMask \/ ReadClassPath \/ ReadVmOption
  PROVE  WInv'
<1> DEFINE word == argv[x]
<1>1. /\ x \in Nat \ {0} /\ {"help", "opts", "clas", "args"} \subseteq DOMAIN args
      /\ args.opts \in Seq(OptionSet) /\ Len(argv) \in Nat /\ x \in 1 .. Len(argv)
  BY DEF WInv, ReadWords, IsSeq
<1>2. CASE ReadFlag
  <2>1. word \in DOMAIN Flag /\ args' = Setting(args, Flag[word]) /\ x' = x + 1 /\ argv' = argv
    BY <1>2 DEF ReadFlag, Reading, Becomes, parseVars
  <2>2. {"clas", "args", "opts"} \cap DOMAIN Flag[word] = {}
    BY <2>1, OptionWords DEF Flag
  <2>3. word \notin Valued /\ word \notin VmOptions \cup ClassPath /\ IsOption(word)
    BY <2>1, OptionWords DEF Valued, IsOption
  <2>4. DOMAIN args' = DOMAIN args /\ args'.clas = args.clas /\ args'.args = args.args
        /\ args'.opts = args.opts
    BY <1>1, <2>1, <2>2 DEF Setting
  <2>5. word \notin DOMAIN Member
    BY <2>3 DEF Valued
  <2>6. \A m \in DOMAIN args : args'[m] = IF Sets(word, m) THEN Says(argv, x, m) ELSE args[m]
    BY <2>1, <2>5 DEF Setting, Sets, Says
  <2>7. GoesOver(argv, x, x')
    BY <1>1, <2>1, <2>3 DEF GoesOver
  <2>8. QED
    BY <2>1, <2>3, <2>4, <2>6, <2>7, GoesOn
<1>3. CASE ReadValue
  <2>1. /\ word \in DOMAIN Member /\ x < Len(argv) /\ x' = x + 2 /\ argv' = argv
        /\ args' = [args EXCEPT ![Member[word]] = argv[x + 1]] /\ ~IsOption(argv[x + 1])
    BY <1>1, <1>3 DEF ReadValue, Reading, Becomes, Optional, Refuse, parseVars
  <2>2. word \in Valued /\ word \notin DOMAIN Flag /\ IsOption(word) /\ word \notin VmOptions \cup ClassPath
    BY <2>1, OptionWords DEF IsOption, ClassPath
  <2>3. Member[word] \notin {"clas", "args", "opts"}
    BY <2>1, OptionWords DEF Member
  <2>4. DOMAIN args' = DOMAIN args /\ args'.clas = args.clas /\ args'.args = args.args
        /\ args'.opts = args.opts
    BY <1>1, <2>1, <2>3
  <2>5. \A m \in DOMAIN args : args'[m] = IF Sets(word, m) THEN Says(argv, x, m) ELSE args[m]
    BY <2>1, <2>2 DEF Sets, Says
  <2>6. GoesOver(argv, x, x')
    BY <1>1, <2>1, <2>2 DEF GoesOver
  <2>7. QED
    BY <2>1, <2>2, <2>4, <2>5, <2>6, GoesOn
<1>4. CASE ReadWait \/ ReadMask
  <2>1. /\ word \in {"-wait", "-umask"} /\ x' = x + 2 /\ argv' = argv
        /\ word = "-umask" => x < Len(argv) /\ ~IsOption(argv[x + 1])
    BY <1>1, <1>4 DEF ReadWait, ReadMask, Reading, Becomes, Optional, Refuse, parseVars
  <2>2. /\ DOMAIN args' = DOMAIN args /\ args'.clas = args.clas /\ args'.args = args.args
        /\ args'.opts = args.opts /\ \A m \in DOMAIN args \ Others : args'[m] = args[m]
    BY <1>1, <1>4 DEF ReadWait, ReadMask, Reading, Becomes, Refuse, Others
  <2>3. /\ word \in Valued /\ word \notin DOMAIN Flag /\ IsOption(word)
        /\ word \notin VmOptions \cup ClassPath /\ word \notin DOMAIN Member
    BY <2>1, OptionWords DEF IsOption, ClassPath
  <2>4. \A m : ~Sets(word, m)
    BY <2>3 DEF Sets
  <2>5. ~MaskedWait(argv) /\ word = "-wait" /\ x < Len(argv) => ~IsOption(argv[x + 1])
    BY <1>1 DEF MaskedWait
  <2>6. ~MaskedWait(argv) => GoesOver(argv, x, x')
    BY <1>1, <2>1, <2>3, <2>5 DEF GoesOver
  <2>7. QED
    BY <2>1, <2>2, <2>3, <2>4, <2>6, GoesOn
<1>5. CASE ReadClassPath
  <2>1. /\ word \in ClassPath /\ x < Len(argv) /\ x' = x + 2 /\ argv' = argv
        /\ args' = [args EXCEPT !.opts = Append(@, EvalClassPath(argv[x + 1]))]
        /\ ~IsOption(argv[x + 1])
    BY <1>1, <1>5 DEF ReadClassPath, Reading, Becomes, Optional, Refuse, parseVars
  <2> DEFINE opt == EvalClassPath(argv[x + 1])
  <2>2. argv[x + 1] \in DOMAIN ClassPaths
    <3> DEFINE next == x + 1
    <3>1. next \in 2 .. Len(argv) /\ next - 1 = x
      BY <1>1, <2>1
    <3> HIDE DEF next
    <3>2. \A i \in 2 .. Len(argv) :
            argv[i - 1] \in ClassPath /\ ~IsOption(argv[i]) => argv[i] \in DOMAIN ClassPaths
      BY Zenon DEF WInv
    <3>3. argv[next - 1] \in ClassPath /\ ~IsOption(argv[next]) => argv[next] \in DOMAIN ClassPaths
      BY <3>1, <3>2, Zenon
    <3>4. QED
      BY <2>1, <3>1, <3>3, Zenon DEF next
  <2>3. /\ word \in Valued /\ word \notin DOMAIN Flag /\ IsOption(word)
        /\ word \notin VmOptions /\ word \notin DOMAIN Member
    BY <2>1, OptionWords DEF IsOption, ClassPath
  <2>4. opt \in OptionSet /\ Is(argv, x, opt)
    BY <2>2, <2>3, ClassPathIs DEF OptionSet, Is
  <2> HIDE DEF opt
  <2>5. /\ DOMAIN args' = DOMAIN args /\ args'.clas = args.clas /\ args'.args = args.args
        /\ args'.opts = Append(args.opts, opt) /\ \A m \in DOMAIN args \ Others : args'[m] = args[m]
    BY <1>1, <2>1 DEF Others, opt
  <2>6. \A m : ~Sets(word, m)
    BY <2>3 DEF Sets
  <2>7. GoesOver(argv, x, x')
    BY <1>1, <2>1, <2>3 DEF GoesOver
  <2>8. QED
    BY <2>1, <2>4, <2>5, <2>6, <2>7, GoesOn
<1>6. CASE ReadVmOption
  <2>1. /\ word \in VmOptions /\ x' = x + 1 /\ argv' = argv
        /\ args' = [args EXCEPT !.opts = Append(@, <<word>>)]
    BY <1>6 DEF ReadVmOption, Reading, Becomes, parseVars
  <2> DEFINE opt == <<word>>
  <2>2. /\ word \notin Valued /\ word \notin DOMAIN Flag /\ IsOption(word) /\ word \notin DOMAIN Member
    BY <2>1, OptionWords DEF IsOption, Valued
  <2>3. opt \in OptionSet /\ Is(argv, x, opt)
    BY <2>1 DEF OptionSet, Is
  <2> HIDE DEF opt
  <2>4. /\ DOMAIN args' = DOMAIN args /\ args'.clas = args.clas /\ args'.args = args.args
        /\ args'.opts = Append(args.opts, opt) /\ \A m \in DOMAIN args \ Others : args'[m] = args[m]
    BY <1>1, <2>1 DEF Others, opt
  <2>5. \A m : ~Sets(word, m)
    BY <2>2 DEF Sets
  <2>6. GoesOver(argv, x, x')
    BY <1>1, <2>1, <2>2 DEF GoesOver
  <2>7. QED
    BY <2>1, <2>3, <2>4, <2>5, <2>6, GoesOn
<1>7. QED
  BY <1>2, <1>3, <1>4, <1>5, <1>6

(* The branches at which an accepted command line ends.                    *)
LEMMA EndWInv ==
  ASSUME WInv, at = "parse", ReadHelp \/ ReadClass \/ NoClass
  PROVE  WInv'
<1>1. /\ x \in Nat \ {0} /\ {"help", "opts", "clas", "args"} \subseteq DOMAIN args
      /\ Len(argv) \in Nat /\ IsSeq(argv) /\ argv' = argv /\ at' # "parse"
      /\ args.clas = Null /\ args.args = <<>>
  BY DEF WInv, ReadWords, IsSeq, ReadHelp, ReadClass, NoClass, parseVars
<1> SUFFICES ReadAsWritten'
  BY <1>1 DEF WInv
<1>2. CASE ReadHelp
  <2>1. args'.help = TRUE
    BY <1>1, <1>2 DEF ReadHelp
  <2>2. QED
    BY <2>1 DEF ReadAsWritten
<1>3. CASE ReadClass \/ NoClass
  <2>1. SUFFICES ASSUME ~MaskedWait(argv)
        PROVE  /\ \A m \in DOMAIN args' \ Others : args'[m] \in Said(argv, m)
               /\ args'.clas = IF ClassAt(argv) > Len(argv) THEN Null ELSE argv[ClassAt(argv)]
               /\ args'.args = SubSeq(argv, ClassAt(argv) + 1, Len(argv))
               /\ PassedOn(argv, args'.opts)
    BY <1>1 DEF ReadAsWritten, Others
  <2>2. /\ Covered(argv, x) /\ \A m \in DOMAIN args \ Others : SaidBefore(argv, x, m, args[m])
        /\ \E from : PassedFrom(argv, x, args.opts, from)
    BY <2>1 DEF WInv, ReadWords
  <2> DEFINE c == IF x <= Len(argv) THEN x ELSE Len(argv) + 1
  <2>3. c \in 1 .. Len(argv) + 1 /\ \A i \in 1 .. Len(argv) : i < x <=> i < c
    BY <1>1
  <2>4. x <= Len(argv) => Free(argv, x)
    <3>1. ASSUME x <= Len(argv), x # 1 PROVE argv[x - 1] \notin Valued
      BY <1>1, <2>2, <3>1 DEF Covered
    <3>2. x <= Len(argv) => ~IsOption(argv[x])
      BY <1>1, <1>3 DEF ReadClass, NoClass
    <3>3. QED
      BY <3>1, <3>2 DEF Free
  <2>5. c = Len(argv) + 1 \/ (c \in 1 .. Len(argv) /\ Free(argv, c))
    BY <1>1, <2>4
  <2>6. x <= Len(argv) => c = x
    OBVIOUS
  <2>7. x > Len(argv) => c = Len(argv) + 1
    BY <1>1
  <2> HIDE DEF c
  <2>8. ClassAt(argv) = c
    BY <1>1, <2>2, <2>3, <2>5, ClassAtIs DEF Covered
  <2>9. \A m \in DOMAIN args \ Others : SaidBefore(argv, c, m, args[m])
    BY <2>2, <2>3 DEF SaidBefore, LastSaid
  <2>10. PICK from : PassedFrom(argv, c, args.opts, from)
    <3>1. Places(argv, c) = Places(argv, x)
      BY <2>3 DEF Places
    <3>2. QED
      BY <2>2, <3>1 DEF PassedFrom
  <2>11. \A m \in DOMAIN args \ Others : args[m] \in Said(argv, m)
    BY <1>1, <2>3, <2>8, <2>9, AllSaid
  <2>12. PassedOn(argv, args.opts)
    BY <1>1, <2>3, <2>8, <2>10, AllPassed
  <2>13. CASE ReadClass
    <3>1. x <= Len(argv) /\ args' = [args EXCEPT !.clas = argv[x], !.args = SubSeq(argv, x + 1, Len(argv))]
      BY <2>13 DEF ReadClass
    <3>2. /\ DOMAIN args' = DOMAIN args /\ args'.clas = argv[x] /\ args'.opts = args.opts
          /\ args'.args = SubSeq(argv, x + 1, Len(argv))
          /\ \A m \in DOMAIN args \ Others : args'[m] = args[m]
      BY <1>1, <3>1 DEF Others
    <3>3. c = x /\ ~(c > Len(argv))
      BY <1>1, <2>6, <3>1
    <3>4. QED
      BY <2>8, <2>11, <2>12, <3>2, <3>3
  <2>14. CASE NoClass
    <3>1. x > Len(argv) /\ args' = args
      BY <2>14 DEF NoClass
    <3>2. c = Len(argv) + 1 /\ c > Len(argv)
      BY <1>1, <2>7, <3>1
    <3>3. SubSeq(argv, c + 1, Len(argv)) = <<>>
      BY <1>1, <3>2, SubSeqEmpty DEF IsSeq
    <3>4. QED
      BY <1>1, <2>8, <2>11, <2>12, <3>1, <3>2, <3>3
  <2>15. QED
    BY <1>3, <2>13, <2>14
<1>4. QED
  BY <1>2, <1>3

(* Every step of main() keeps it.                                          *)
LEMMA NextWInv == WInv /\ [Next]_vars => WInv'
<1> SUFFICES ASSUME WInv, [Next]_vars PROVE WInv'
  OBVIOUS
<1>1. CASE ParseArguments
  <2>1. at = "parse" /\ Len(argv) \in Nat /\ x \in Nat
    BY <1>1 DEF ParseArguments, ReadFlag, ReadValue, ReadWait, ReadMask, ReadClassPath, ReadVmOption,
      ReadHelp, ReadBad, ReadClass, NoClass, Reading, WInv, IsSeq, ReadWords
  <2>2. CASE ReadHelp \/ ReadClass \/ NoClass
    BY <2>1, <2>2, EndWInv
  <2>3. CASE Refuse
    BY <2>3 DEF Refuse, WInv, ReadAsWritten, parseVars
  <2>4. CASE /\ ReadFlag \/ ReadValue \/ ReadWait \/ ReadMask \/ ReadClassPath \/ ReadVmOption
             /\ ~Refuse
    <3>1. at' = "parse" /\ x <= Len(argv)
      BY <2>1, <2>4 DEF ReadFlag, ReadValue, ReadWait, ReadMask, ReadClassPath, ReadVmOption,
        Reading, Becomes
    <3>2. QED
      BY <2>1, <2>4, <3>1, TurnWInv
  <2>5. QED
    BY <1>1, <2>2, <2>3, <2>4 DEF ParseArguments, ReadBad
<1>2. CASE Execute
  <2>1. argv' = argv /\ at' \in {"failed", "parse"} /\ (at' = "parse" => x' = 1 /\ args' \in Defaults)
    BY <1>2 DEF Execute
  <2>2. at' = "parse" => ReadWords'
    <3>1. SUFFICES ASSUME at' = "parse" PROVE ReadWords'
      OBVIOUS
    <3>2. IsSeq(argv) /\ args' \in Defaults /\ x' = 1
      BY <2>1, <3>1 DEF WInv
    <3>3. /\ {"help", "opts", "clas", "args"} \subseteq DOMAIN args'
          /\ args'.clas = Null /\ args'.args = <<>> /\ args'.opts = <<>>
          /\ Covered(argv, 1)
          /\ \A m \in DOMAIN args' \ Others : SaidBefore(argv, 1, m, args'[m])
          /\ \E from : PassedFrom(argv, 1, <<>>, from)
      BY <3>2, StartWords
    <3>4. <<>> \in Seq(OptionSet) /\ 1 \in Nat \ {0}
      OBVIOUS
    <3>5. QED
      BY <2>1, <3>2, <3>3, <3>4, Zenon DEF ReadWords
  <2>3. QED
    BY <2>1, <2>2 DEF WInv, ReadAsWritten
<1>3. CASE StopOrCheckUser \/ FindHome \/ ShowHelp \/ Detach \/ Start \/ LoadJava \/ Reopen \/ EndLogger
  <2>1. argv' = argv /\ args' = args /\ at' \notin {"parse", "parsed"}
    BY <1>3 DEF StopOrCheckUser, FindHome, ShowHelp, Detach, Start, LoadJava, Reopen, EndLogger,
      mainVars, ExceptAt
  <2>2. QED
    BY <2>1 DEF WInv, ReadAsWritten
<1>4. CASE UNCHANGED vars
  BY <1>4 DEF WInv, ReadWords, ReadAsWritten, vars
<1>5. QED
  BY <1>1, <1>2, <1>3, <1>4 DEF Next

(* What is accepted has been read as it is written (see ReadAsWritten).    *)
THEOREM ReadSound == Spec => []ReadAsWritten
<1>1. WInv => ReadAsWritten
  BY DEF WInv
<1>2. QED
  BY <1>1, InitWInv, NextWInv, PTL DEF Spec

-----------------------------------------------------------------------------
(* Before the output is redirected it is where the shell left it; after    *)
(* that args no longer changes, and a stream that stays on its console, or *)
(* is merged into one that does, is on it whatever else has failed.        *)
ConsoleOK ==
  LET o == args.outfile  e == args.errfile IN
  /\ at \notin {"run", "up", "ended"} => out = <<Console(1), Console(2)>> /\ loggers = {}
  /\ at \in {"run", "up"} =>
       /\ out = <<out[1], out[2]>>
       /\ o = "&1" \/ (o = "&2" /\ e \in {"&1", "&2"}) => out[1] = Console(1)
       /\ e = "&2" \/ (o = "&1" /\ e = "&1") => out[2] = Console(2)

OInv == ConsoleOK /\ OutputArrives

(* Descriptors 1 and 2 are on the console of the shell at first.           *)
LEMMA InitOInv == Init => OInv
BY DEF Init, OInv, ConsoleOK, OutputArrives

(* set_output, one stream after the other.                                 *)
LEMMA SetOutputIs ==
  ASSUME NEW bad, NEW logger,
         ~KeepsConsole, ~(args.outfile = "&1" /\ args.errfile = "&2"),
         NEW a, a = Opened(out[1], args.outfile, bad),
         NEW b, b = Opened(out[2], args.errfile, bad),
         NEW s, s = IF args.errfile = "&1" /\ args.outfile # "&1" THEN a ELSE b,
         NEW f, f = IF args.outfile = "&2" /\ args.errfile # "&2" THEN s ELSE a
  PROVE  SetOutput(bad, logger) = <<ToLogger(args.outfile, f, logger, bad),
                                    ToLogger(args.errfile, s, logger, bad)>>
<1> DEFINE names == <<args.outfile, args.errfile>>
           opened == [n \in 1 .. 2 |-> Opened(out[n], names[n], bad)]
<1>1. opened[1] = a /\ opened[2] = b
  OBVIOUS
<1>2. Merged(opened) = <<f, s>>
  BY <1>1 DEF Merged
<1>3. SetOutput(bad, logger) = [n \in 1 .. 2 |-> ToLogger(names[n], Merged(opened)[n], logger, bad)]
  BY DEF SetOutput
<1> HIDE DEF opened
<1>4. QED
  BY <1>2, <1>3

(* What one call of set_output leaves.                                     *)
LEMMA RedirectStep ==
  ASSUME NEW bad \in Faults, NEW logger, Redirect(bad, logger), OInv, at \in {"redirect", "up"}, at' \in {"run", "up"},
         args' = args
  PROVE OInv'
<1> DEFINE o == args.outfile
           e == args.errfile
<1>1. out = <<out[1], out[2]>>
  BY DEF OInv, ConsoleOK
<1>2. o = "&1" \/ (o = "&2" /\ e \in {"&1", "&2"}) => out[1] = Console(1)
  BY DEF OInv, ConsoleOK
<1>3. e = "&2" \/ (o = "&1" /\ e = "&1") => out[2] = Console(2)
  BY DEF OInv, ConsoleOK
<1>4. KeepsConsole' = KeepsConsole
  BY DEF KeepsConsole
<1>5. CASE KeepsConsole \/ (o = "&1" /\ e = "&2")
  <2>1. out' = out
    BY <1>5 DEF Redirect, SetOutput
  <2>2. ConsoleOK'
    BY <1>1, <1>2, <1>3, <2>1 DEF ConsoleOK
  <2>3. OutputArrives'
    BY <1>1, <1>2, <1>3, <1>4, <1>5, <2>1 DEF OutputArrives
  <2>4. QED  BY <2>2, <2>3 DEF OInv
<1>6. CASE ~KeepsConsole /\ ~(o = "&1" /\ e = "&2")
  <2> DEFINE a == Opened(out[1], o, bad)
             b == Opened(out[2], e, bad)
             s == IF e = "&1" /\ o # "&1" THEN a ELSE b
             f == IF o = "&2" /\ e # "&2" THEN s ELSE a
  <2>1. out' = <<ToLogger(o, f, logger, bad), ToLogger(e, s, logger, bad)>>
    BY <1>6, SetOutputIs DEF Redirect
  <2>2. ConsoleOK'
    BY <1>2, <1>3, <2>1 DEF ConsoleOK, Opened, ToLogger
  <2>3. bad = "none" => OutputArrives'
    <3> SUFFICES ASSUME bad = "none" PROVE OutputArrives'
      OBVIOUS
    <3>1. "SYSLOG" \in {o, e} => logger \in loggers'
      BY <1>6 DEF Redirect, ForksLogger
    <3>2. out'[1] = (IF o = "SYSLOG" THEN Log(logger) ELSE f)
      BY <2>1 DEF ToLogger
    <3>3. out'[2] = (IF e = "SYSLOG" THEN Log(logger) ELSE s)
      BY <2>1 DEF ToLogger
    <3>4. QED
      BY <1>2, <1>3, <1>6, <3>1, <3>2, <3>3 DEF OutputArrives, Opened
  <2>4. bad # "none" => OutputArrives'
    BY DEF OutputArrives, Redirect
  <2>5. QED  BY <2>2, <2>3, <2>4 DEF OInv
<1>7. QED  BY <1>5, <1>6

(* Every step preserves it: until set_output is called nothing is written  *)
(* to the descriptors, and the logger of the controller is killed only at  *)
(* the end.                                                                *)
LEMMA NextOInv == OInv /\ [Next]_vars => OInv'
<1> SUFFICES ASSUME OInv, [Next]_vars PROVE OInv'
  OBVIOUS
<1>1. CASE ParseArguments
  <2>1. at = "parse" /\ at' \in {"parse", "parsed", "refused"} /\ UNCHANGED parseVars
    BY <1>1 DEF ParseArguments, ReadFlag, ReadValue, ReadWait, ReadMask, ReadClassPath,
      ReadVmOption, ReadHelp, ReadBad, ReadClass, NoClass, Reading, Becomes, Refuse, parseVars
  <2>2. QED
    BY <2>1 DEF OInv, ConsoleOK, OutputArrives, parseVars
<1>2. CASE StopOrCheckUser \/ FindHome \/ ShowHelp \/ Execute \/ Detach
  <2>1. at \in {"parsed", "find", "found"} /\ at' \notin {"run", "up", "ended"}
    BY <1>2 DEF StopOrCheckUser, FindHome, ShowHelp, Execute, Detach
  <2>2. UNCHANGED <<out, loggers>>
    BY <1>2 DEF StopOrCheckUser, FindHome, ShowHelp, Execute, Detach, ExceptAt
  <2>3. QED
    BY <2>1, <2>2 DEF OInv, ConsoleOK, OutputArrives
<1>3. CASE Start
  BY <1>3, RedirectStep DEF Start, mainVars
<1>4. CASE LoadJava
  BY <1>4 DEF LoadJava, OInv, ConsoleOK, OutputArrives, KeepsConsole, mainVars
<1>5. CASE Reopen
  BY <1>5, RedirectStep DEF Reopen, mainVars
<1>6. CASE EndLogger
  BY <1>6 DEF EndLogger, OInv, ConsoleOK, OutputArrives
<1>7. CASE UNCHANGED vars
  BY <1>7 DEF OInv, ConsoleOK, OutputArrives, KeepsConsole, vars
<1>8. QED
  BY <1>1, <1>2, <1>3, <1>4, <1>5, <1>6, <1>7 DEF Next

(* What the service writes arrives where -outfile and -errfile say (see    *)
(* OutputArrives), whatever the command line, the faults and the number of *)
(* reopenings.                                                             *)
THEOREM OutputSound == Spec => []OutputArrives
<1>1. OInv => OutputArrives
  BY DEF OInv
<1>2. QED
  BY <1>1, InitOInv, NextOInv, PTL DEF Spec
=============================================================================
