---------------------------- MODULE ReleaseProofs ----------------------------
(***************************************************************************)
(* What holds of Release for any number of failures and of runs of a job.  *)
(***************************************************************************)
EXTENDS Release, SequenceTheorems, TLAPS

-----------------------------------------------------------------------------
(***************************************************************************)
(* Lists of tasks.                                                         *)
(***************************************************************************)
ImageWork == {"push", "manifest", "attest"}

\* The image is pushed, read and attested without another task in between.
Whole(s) ==
    \A i \in 1..Len(s) :
        /\ s[i].do = "push" => i < Len(s) /\ s[i + 1] = Task("manifest", s[i].at)
        /\ s[i].do = "manifest" => i < Len(s) /\ s[i + 1] = Task("attest", s[i].at)
        /\ i > 1 /\ s[i].do = "manifest" => s[i - 1] = Task("push", s[i].at)
        /\ i > 1 /\ s[i].do = "attest" => s[i - 1] = Task("manifest", s[i].at)

\* It does not begin in the middle of that.
Begins(s) == s # <<>> => s[1].do \notin {"manifest", "attest"}

\* Among the tasks before the i-th is t.
Earlier(s, i, t) == \E j \in 1..(i - 1) : s[j] = t

\* What is left of a list is as whole as the list.
LEMMA WholeTail ==
    ASSUME NEW s \in Seq(Tasks), s # <<>>, Whole(s)
    PROVE  Whole(Tail(s))
<1>1. /\ Len(s) \in Nat
      /\ Len(Tail(s)) = Len(s) - 1
      /\ \A i \in 1..Len(Tail(s)) : Tail(s)[i] = s[i + 1]
  BY HeadTailProperties, LenProperties
<1> SUFFICES ASSUME NEW i \in 1..Len(Tail(s))
             PROVE  LET t == Tail(s) IN
                /\ t[i].do = "push" => i < Len(t) /\ t[i + 1] = Task("manifest", t[i].at)
                /\ t[i].do = "manifest" => i < Len(t) /\ t[i + 1] = Task("attest", t[i].at)
                /\ i > 1 /\ t[i].do = "manifest" => t[i - 1] = Task("push", t[i].at)
                /\ i > 1 /\ t[i].do = "attest" => t[i - 1] = Task("manifest", t[i].at)
  BY DEF Whole
<1>2. Tail(s)[i] = s[i + 1] /\ i + 1 \in 1..Len(s)
  BY <1>1
<1>3. i < Len(Tail(s)) => Tail(s)[i + 1] = s[(i + 1) + 1]
  BY <1>1
<1>4. i > 1 => Tail(s)[i - 1] = s[(i + 1) - 1]
  BY <1>1
<1> QED
  BY <1>1, <1>2, <1>3, <1>4 DEF Whole

\* Whole lists follow one another.
LEMMA WholeConcat ==
    ASSUME NEW s \in Seq(Tasks), NEW t \in Seq(Tasks),
           Whole(s), Begins(s), Whole(t), Begins(t)
    PROVE  s \o t \in Seq(Tasks) /\ Whole(s \o t) /\ Begins(s \o t)
<1> DEFINE u == s \o t
<1>1. /\ u \in Seq(Tasks)
      /\ Len(u) = Len(s) + Len(t) /\ Len(s) \in Nat /\ Len(t) \in Nat
      /\ \A i \in 1..Len(s) : u[i] = s[i]
      /\ \A i \in 1..Len(t) : u[Len(s) + i] = t[i]
  BY ConcatProperties, LenProperties
<1>2. Begins(u)
  BY <1>1, ConcatEmptySeq DEF Begins
<1>3. Whole(u)
  <2> SUFFICES ASSUME NEW i \in 1..Len(u)
               PROVE
                /\ u[i].do = "push" => i < Len(u) /\ u[i + 1] = Task("manifest", u[i].at)
                /\ u[i].do = "manifest" => i < Len(u) /\ u[i + 1] = Task("attest", u[i].at)
                /\ i > 1 /\ u[i].do = "manifest" => u[i - 1] = Task("push", u[i].at)
                /\ i > 1 /\ u[i].do = "attest" => u[i - 1] = Task("manifest", u[i].at)
    BY DEF Whole
  <2> HIDE DEF u
  <2>1. CASE i <= Len(s)
    <3>1. i \in 1..Len(s) /\ (i < Len(s) => i + 1 \in 1..Len(s))
      BY <1>1, <2>1
    <3>2. i > 1 => i - 1 \in 1..Len(s)
      BY <1>1, <2>1
    <3>3. u[i] = s[i] /\ (i < Len(s) => u[i + 1] = s[i + 1]) /\ (i > 1 => u[i - 1] = s[i - 1])
      BY <1>1, <2>1, <3>1, <3>2
    <3> QED
      BY <1>1, <2>1, <3>3 DEF Whole
  <2>2. CASE i > Len(s)
    <3> DEFINE k == i - Len(s)
    <3>1. k \in 1..Len(t) /\ i = Len(s) + k
      BY <1>1, <2>2
    <3>2. /\ u[i] = t[k]
          /\ k < Len(t) => i < Len(u) /\ u[i + 1] = t[k + 1]
          /\ k > 1 => u[i - 1] = t[k - 1]
      <4>1. k < Len(t) => i < Len(u) /\ u[Len(s) + (k + 1)] = t[k + 1]
        BY <1>1, <3>1
      <4>2. k > 1 => u[Len(s) + (k - 1)] = t[k - 1]
        BY <1>1, <3>1
      <4>3. Len(s) + (k + 1) = i + 1 /\ Len(s) + (k - 1) = i - 1
        BY <1>1, <3>1
      <4> QED
        BY <1>1, <3>1, <4>1, <4>2, <4>3
    <3>3. k = 1 => t # <<>> /\ t[k].do \notin {"manifest", "attest"}
      BY <3>1, EmptySeq DEF Begins
    <3> HIDE DEF k
    <3> QED
      BY <3>1, <3>2, <3>3 DEF Whole
  <2> QED
    BY <1>1, <2>1, <2>2
<1> QED
  BY <1>1, <1>2, <1>3

\* The parts that Publish is made of are whole.
LEMMA WholeParts ==
    /\ <<>> \in Seq(Tasks) /\ Whole(<<>>) /\ Begins(<<>>)
    /\ \A r \in Registry :
          PublishImage(r) \in Seq(Tasks) /\ Whole(PublishImage(r)) /\ Begins(PublishImage(r))
    /\ \A e \in ChartEnv, do \in {"chart", "release"} :
          LET s == <<Task(do, e)>> IN s \in Seq(Tasks) /\ Whole(s) /\ Begins(s)
<1>1. <<>> \in Seq(Tasks) /\ Whole(<<>>) /\ Begins(<<>>)
  BY DEF Whole, Begins
<1>2. ASSUME NEW r \in Registry
      PROVE  PublishImage(r) \in Seq(Tasks) /\ Whole(PublishImage(r)) /\ Begins(PublishImage(r))
  <2>1. \A do \in ImageWork : Task(do, r) \in Tasks
    BY DEF Task, Tasks, ImageWork
  <2>2. PublishImage(r) \in Seq(Tasks)
    BY <2>1 DEF PublishImage, ImageWork
  <2>3. Whole(PublishImage(r)) /\ Begins(PublishImage(r))
    BY DEF PublishImage, Whole, Begins, Task
  <2> QED
    BY <2>2, <2>3
<1>3. ASSUME NEW e \in ChartEnv, NEW do \in {"chart", "release"}
      PROVE  LET s == <<Task(do, e)>> IN s \in Seq(Tasks) /\ Whole(s) /\ Begins(s)
  <2>1. Task(do, e) \in Tasks
    BY DEF Task, Tasks, ChartEnv, Registry
  <2>2. <<Task(do, e)>> \in Seq(Tasks)
    BY <2>1
  <2>3. Whole(<<Task(do, e)>>) /\ Begins(<<Task(do, e)>>)
    BY DEF Whole, Begins, Task
  <2> QED
    BY <2>2, <2>3
<1> QED
  BY <1>1, <1>2, <1>3

-----------------------------------------------------------------------------
(***************************************************************************)
(* What Publish has to do.                                                 *)
(***************************************************************************)
Has(s, t) == \E j \in 1..Len(s) : s[j] = t

\* A task of either list is one of both.
LEMMA HasConcat ==
    ASSUME NEW s \in Seq(Tasks), NEW t \in Seq(Tasks), NEW x,
           Has(s, x) \/ Has(t, x)
    PROVE  Has(s \o t, x)
<1>1. /\ Len(s \o t) = Len(s) + Len(t) /\ Len(s) \in Nat /\ Len(t) \in Nat
      /\ \A i \in 1..Len(s) : i \in 1..(Len(s) + Len(t)) /\ (s \o t)[i] = s[i]
      /\ \A i \in 1..Len(t) :
            Len(s) + i \in 1..(Len(s) + Len(t)) /\ (s \o t)[Len(s) + i] = t[i]
  BY ConcatProperties, LenProperties
<1> QED
  BY <1>1 DEF Has

\* And there are no others.
LEMMA OnlyConcat ==
    ASSUME NEW s \in Seq(Tasks), NEW t \in Seq(Tasks), NEW W,
           \A i \in 1..Len(s) : s[i].do \in W, \A i \in 1..Len(t) : t[i].do \in W
    PROVE  \A i \in 1..Len(s \o t) : (s \o t)[i].do \in W
<1> SUFFICES ASSUME NEW i \in 1..Len(s \o t) PROVE (s \o t)[i].do \in W
  OBVIOUS
<1>1. /\ Len(s \o t) = Len(s) + Len(t) /\ Len(s) \in Nat /\ Len(t) \in Nat
      /\ (s \o t)[i] = IF i <= Len(s) THEN s[i] ELSE t[i - Len(s)]
  BY ConcatProperties, LenProperties
<1>2. i <= Len(s) => i \in 1..Len(s)
  BY <1>1
<1>3. i > Len(s) => i - Len(s) \in 1..Len(t)
  BY <1>1
<1> QED
  BY <1>1, <1>2, <1>3

\* The images of an environment whose chart is published are pushed and attested
\* there, and nothing else is done about images.
LEMMA ImagesPublished ==
    ASSUME NEW c \in Call
    PROVE  /\ AllImages(c) \in Seq(Tasks) /\ Whole(AllImages(c)) /\ Begins(AllImages(c))
           /\ \A i \in 1..Len(AllImages(c)) : AllImages(c)[i].do \in ImageWork
           /\ \A e \in ChartEnv \cap args[c].envs, do \in ImageWork :
                 Has(AllImages(c), Task(do, e))
<1> DEFINE X == If("dev" \in args[c].envs, PublishImage("ttl.sh"))
           Two(e) == PublishImage("hub") \o PublishImage(e)
           Y == If("staging" \in args[c].envs, Two("staging"))
           Z == If("production" \in args[c].envs, Two("production"))
           Good(s) == /\ s \in Seq(Tasks) /\ Whole(s) /\ Begins(s)
                      /\ \A i \in 1..Len(s) : s[i].do \in ImageWork
<1>1. Good(<<>>)
  BY WholeParts
<1>2. \A r \in Registry : Good(PublishImage(r))
  <2> SUFFICES ASSUME NEW r \in Registry PROVE Good(PublishImage(r))
    OBVIOUS
  <2>1. \A i \in 1..Len(PublishImage(r)) : PublishImage(r)[i].do \in ImageWork
    BY DEF PublishImage, Task, ImageWork
  <2> QED
    BY <2>1, WholeParts
<1>3. ASSUME NEW s, NEW t, Good(s), Good(t) PROVE Good(s \o t)
  BY <1>3, WholeConcat, OnlyConcat
<1>4. ASSUME NEW e \in ChartEnv PROVE Good(Two(e)) /\ \A do \in ImageWork : Has(Two(e), Task(do, e))
  <2>1. Good(PublishImage("hub")) /\ Good(PublishImage(e))
    BY <1>2 DEF ChartEnv, Registry
  <2>2. Good(Two(e))
    BY <2>1, <1>3
  <2>3. \A do \in ImageWork : Has(PublishImage(e), Task(do, e))
    <3>1. /\ Len(PublishImage(e)) = 3 /\ PublishImage(e)[1] = Task("push", e)
          /\ PublishImage(e)[2] = Task("manifest", e) /\ PublishImage(e)[3] = Task("attest", e)
      BY DEF PublishImage
    <3> QED
      BY <3>1 DEF Has, ImageWork
  <2> QED
    BY <2>1, <2>2, <2>3, HasConcat
<1>5. Good(X) /\ Good(Y) /\ Good(Z)
  BY <1>1, <1>2, <1>4 DEF If, Registry, ChartEnv
<1>6. AllImages(c) = (X \o Y) \o Z
  BY DEF AllImages
<1>7. Good(X \o Y) /\ Good((X \o Y) \o Z)
  <2> HIDE DEF X, Y, Z, Good
  <2> QED
    BY <1>3, <1>5
<1>8. ASSUME NEW e \in ChartEnv \cap args[c].envs, NEW do \in ImageWork
      PROVE  Has((X \o Y) \o Z, Task(do, e))
  <2>1. Has(Y, Task(do, e)) \/ Has(Z, Task(do, e))
    BY <1>4 DEF If, ChartEnv
  <2> HIDE DEF X, Y, Z
  <2>2. Has(X \o Y, Task(do, e)) \/ Has(Z, Task(do, e))
    BY <1>5, <2>1, HasConcat
  <2> QED
    BY <1>5, <1>7, <2>2, HasConcat
<1> QED
  BY <1>6, <1>7, <1>8

\* Every piece of work on an image is for a push: a call that reads or attests
\* an image in a registry pushes one there.
LEMMA WorkIsForPush ==
    ASSUME NEW s \in Seq(Tasks), Whole(s), Begins(s),
           NEW i \in 1..Len(s), s[i].do \in ImageWork
    PROVE  Has(s, Task("push", s[i].at))
<1>1. Len(s) \in Nat /\ s # <<>> /\ s[i] \in Tasks
  BY LenProperties, ElementOfSeq, EmptySeq
<1>2. s[i].do = "push" => s[i] = Task("push", s[i].at)
  BY <1>1 DEF Tasks, Task
<1>3. ASSUME NEW k \in 1..Len(s), s[k].do = "manifest"
      PROVE  Has(s, Task("push", s[k].at))
  <2>1. k > 1
    BY <1>1, <1>3 DEF Begins
  <2>2. k - 1 \in 1..Len(s) /\ s[k - 1] = Task("push", s[k].at)
    BY <1>1, <1>3, <2>1 DEF Whole
  <2> QED
    BY <2>2 DEF Has
<1>4. CASE s[i].do = "attest"
  <2>1. i > 1
    BY <1>1, <1>4 DEF Begins
  <2>2. i - 1 \in 1..Len(s) /\ s[i - 1] = Task("manifest", s[i].at)
    BY <1>1, <1>4, <2>1 DEF Whole
  <2>3. s[i - 1].do = "manifest" /\ s[i - 1].at = s[i].at
    BY <2>2 DEF Task
  <2> QED
    BY <1>3, <2>2, <2>3
<1> QED
  BY <1>2, <1>3, <1>4 DEF Has, ImageWork

\* After the images come the charts, and the GitHub release after the chart of
\* production.
Parts(c) == BuildAndPublishChart(c) \o GithubRelease(c)

LEMMA PartsListed ==
    ASSUME NEW c \in Call
    PROVE  /\ Parts(c) \in Seq(Tasks) /\ Whole(Parts(c)) /\ Begins(Parts(c))
           /\ \A i \in 1..Len(Parts(c)) :
                 LET t == Parts(c)[i]
                 IN  /\ t.do \in {"chart", "release"} /\ t.at \in ChartEnv \cap args[c].envs
                     /\ t.do = "release" => Earlier(Parts(c), i, Task("chart", "production"))
<1> DEFINE P == If("production" \in args[c].envs, <<Task("chart", "production")>>)
           S == If("staging" \in args[c].envs, <<Task("chart", "staging")>>)
           R == If("production" \in args[c].envs, <<Task("release", "production")>>)
           Good(s) == s \in Seq(Tasks) /\ Whole(s) /\ Begins(s)
<1>1. Good(P) /\ Good(S) /\ Good(R)
  BY WholeParts DEF If, ChartEnv
<1>2. Good((P \o S) \o R) /\ Parts(c) = (P \o S) \o R
  BY <1>1, WholeConcat DEF Parts, BuildAndPublishChart, GithubRelease
<1>3. /\ \A i \in 1..Len(P) : P[i] = Task("chart", "production") /\ "production" \in args[c].envs
      /\ \A i \in 1..Len(S) : S[i] = Task("chart", "staging") /\ "staging" \in args[c].envs
      /\ \A i \in 1..Len(R) : /\ R[i] = Task("release", "production")
                            /\ "production" \in args[c].envs
                            /\ Len(P) = 1 /\ P[1] = Task("chart", "production")
  BY DEF If
<1> HIDE DEF P, S, R
<1>4. /\ Len(P) \in Nat /\ Len(S) \in Nat /\ Len(R) \in Nat
      /\ Len(Parts(c)) = Len(P) + Len(S) + Len(R)
      /\ \A i \in 1..Len(Parts(c)) :
            Parts(c)[i] = IF i <= Len(P) THEN P[i]
                          ELSE IF i <= Len(P) + Len(S) THEN S[i - Len(P)]
                          ELSE R[i - (Len(P) + Len(S))]
  <2>1. /\ Len(P) \in Nat /\ Len(S) \in Nat /\ Len(R) \in Nat
        /\ P \o S \in Seq(Tasks) /\ Len(P \o S) = Len(P) + Len(S)
        /\ \A i \in 1..Len(P) + Len(S) :
              (P \o S)[i] = IF i <= Len(P) THEN P[i] ELSE S[i - Len(P)]
    BY <1>1, ConcatProperties, LenProperties
  <2>2. /\ Len((P \o S) \o R) = Len(P \o S) + Len(R)
        /\ \A i \in 1..Len(P \o S) + Len(R) : ((P \o S) \o R)[i] =
              IF i <= Len(P \o S) THEN (P \o S)[i] ELSE R[i - Len(P \o S)]
    BY <1>1, <2>1, ConcatProperties
  <2> QED
    BY <1>2, <2>1, <2>2
<1>5. ASSUME NEW i \in 1..Len(Parts(c))
      PROVE  LET t == Parts(c)[i]
             IN  /\ t.do \in {"chart", "release"} /\ t.at \in ChartEnv \cap args[c].envs
                 /\ t.do = "release" => Earlier(Parts(c), i, Task("chart", "production"))
  <2>1. CASE i <= Len(P)
    <3>1. i \in 1..Len(P) /\ Parts(c)[i] = P[i]
      BY <1>4, <2>1
    <3> QED
      BY <1>3, <3>1 DEF Task, ChartEnv
  <2>2. CASE i > Len(P) /\ i <= Len(P) + Len(S)
    <3>1. i - Len(P) \in 1..Len(S) /\ Parts(c)[i] = S[i - Len(P)]
      BY <1>4, <2>2
    <3> QED
      BY <1>3, <3>1 DEF Task, ChartEnv
  <2>3. CASE i > Len(P) + Len(S)
    <3>1. i - (Len(P) + Len(S)) \in 1..Len(R) /\ Parts(c)[i] = R[i - (Len(P) + Len(S))]
      BY <1>4, <2>3
    <3>2. /\ Parts(c)[i] = Task("release", "production") /\ "production" \in args[c].envs
          /\ Len(P) = 1 /\ P[1] = Task("chart", "production")
      BY <1>3, <3>1
    <3>3. 1 \in 1..(i - 1) /\ Parts(c)[1] = Task("chart", "production")
      BY <1>4, <2>3, <3>2
    <3> QED
      BY <3>2, <3>3 DEF Task, ChartEnv, Earlier
  <2> QED
    BY <1>4, <2>1, <2>2, <2>3
<1> QED
  BY <1>2, <1>5

\* The list of a call: each piece of work on an image is for a push, each chart
\* comes after its image unless there are none, and the release after a chart.
LEMMA Published ==
    ASSUME NEW c \in Call
    PROVE  /\ Publish(c) \in Seq(Tasks) /\ Whole(Publish(c)) /\ Begins(Publish(c))
           /\ \A i \in 1..Len(Publish(c)) :
                LET t == Publish(c)[i]
                IN  /\ t.do \in ImageWork =>
                          ~args[c].skipImage /\ Has(AllImages(c), Task("push", t.at))
                    /\ t.do = "chart" =>
                          /\ t.at \in ChartEnv \cap args[c].envs
                          /\ ~args[c].skipImage => \A do \in ImageWork :
                                Earlier(Publish(c), i, Task(do, t.at))
                    /\ t.do = "release" =>
                          Earlier(Publish(c), i, Task("chart", "production"))
           /\ ~args[c].skipImage => \A r \in Registry :
                 Has(AllImages(c), Task("push", r)) => Has(Publish(c), Task("manifest", r))
<1> DEFINE A == If(~args[c].skipImage, AllImages(c))
           P == Parts(c)
<1>1. /\ A \in Seq(Tasks) /\ Whole(A) /\ Begins(A)
      /\ \A i \in 1..Len(A) : A[i].do \in ImageWork
      /\ ~args[c].skipImage => A = AllImages(c)
      /\ args[c].skipImage => A = <<>>
  BY ImagesPublished, WholeParts DEF If
<1>2. /\ P \in Seq(Tasks) /\ Whole(P) /\ Begins(P)
      /\ \A i \in 1..Len(P) :
            /\ P[i].do \in {"chart", "release"} /\ P[i].at \in ChartEnv \cap args[c].envs
            /\ P[i].do = "release" => Earlier(P, i, Task("chart", "production"))
  BY PartsListed
<1>3. Publish(c) = A \o P
  <2>1. BuildAndPublishChart(c) \in Seq(Tasks) /\ GithubRelease(c) \in Seq(Tasks)
    BY WholeParts, ConcatProperties DEF BuildAndPublishChart, GithubRelease, If, ChartEnv
  <2> QED
    BY <1>1, <2>1, ConcatAssociative DEF Publish, Parts
<1> HIDE DEF A, P
<1>4. /\ A \o P \in Seq(Tasks) /\ Whole(A \o P) /\ Begins(A \o P)
      /\ Len(A \o P) = Len(A) + Len(P) /\ Len(A) \in Nat /\ Len(P) \in Nat
      /\ \A i \in 1..Len(A) : i \in 1..(Len(A) + Len(P)) /\ (A \o P)[i] = A[i]
      /\ \A i \in 1..Len(P) :
            Len(A) + i \in 1..(Len(A) + Len(P)) /\ (A \o P)[Len(A) + i] = P[i]
  BY <1>1, <1>2, WholeConcat, ConcatProperties, LenProperties
<1>5. ASSUME NEW i \in 1..Len(A)
      PROVE  /\ (A \o P)[i].do \in ImageWork
             /\ ~args[c].skipImage /\ Has(AllImages(c), Task("push", (A \o P)[i].at))
  <2>1. ~args[c].skipImage
    BY <1>1, EmptySeq
  <2> QED
    BY <1>1, <1>4, <2>1, WorkIsForPush
<1>6. ASSUME NEW k \in 1..Len(P)
      PROVE  LET i == Len(A) + k
                 t == (A \o P)[i]
             IN  /\ t.do \in {"chart", "release"} /\ t.at \in ChartEnv \cap args[c].envs
                 /\ t.do = "chart" /\ ~args[c].skipImage =>
                       \A do \in ImageWork : Earlier(A \o P, i, Task(do, t.at))
                 /\ t.do = "release" => Earlier(A \o P, i, Task("chart", "production"))
  <2> DEFINE i == Len(A) + k
  <2>1. (A \o P)[i] = P[k] /\ \A j \in 1..Len(A) : j \in 1..(i - 1)
    BY <1>4
  <2>2. ASSUME ~args[c].skipImage, NEW do \in ImageWork
        PROVE  Earlier(A \o P, i, Task(do, P[k].at))
    <3>1. Has(AllImages(c), Task(do, P[k].at))
      BY <1>2, <2>2, ImagesPublished
    <3>2. PICK j \in 1..Len(A) : A[j] = Task(do, P[k].at)
      BY <1>1, <2>2, <3>1 DEF Has
    <3>3. j \in 1..(i - 1) /\ (A \o P)[j] = Task(do, P[k].at)
      BY <1>4, <2>1, <3>2
    <3> QED
      BY <3>3 DEF Earlier
  <2>3. ASSUME P[k].do = "release" PROVE Earlier(A \o P, i, Task("chart", "production"))
    <3>1. PICK j \in 1..(k - 1) : P[j] = Task("chart", "production")
      BY <1>2, <2>3 DEF Earlier
    <3>2. Len(A) + j \in 1..(i - 1) /\ j \in 1..Len(P)
      BY <1>4, <3>1
    <3>3. (A \o P)[Len(A) + j] = Task("chart", "production")
      BY <1>4, <3>1, <3>2
    <3> QED
      BY <3>2, <3>3 DEF Earlier
  <2> QED
    BY <1>2, <2>1, <2>2, <2>3
<1>7. ASSUME NEW i \in 1..Len(A \o P), i > Len(A)
      PROVE  i - Len(A) \in 1..Len(P) /\ i = Len(A) + (i - Len(A))
  BY <1>4, <1>7
<1>8. ASSUME NEW i \in 1..Len(A \o P), i <= Len(A) PROVE i \in 1..Len(A)
  BY <1>4, <1>8
<1>9. ASSUME ~args[c].skipImage, NEW r \in Registry, Has(AllImages(c), Task("push", r))
      PROVE  Has(A \o P, Task("manifest", r))
  <2>1. PICK i \in 1..Len(A) : A[i] = Task("push", r)
    BY <1>1, <1>9 DEF Has
  <2>2. i < Len(A) /\ A[i + 1] = Task("manifest", r)
    <3>1. A[i].do = "push" /\ A[i].at = r
      BY <2>1 DEF Task
    <3> QED
      BY <1>1, <3>1 DEF Whole
  <2>3. i + 1 \in 1..Len(A)
    BY <1>4, <2>2
  <2> QED
    BY <1>1, <1>2, <2>2, <2>3, HasConcat DEF Has
<1>10. ASSUME NEW i \in 1..Len(A \o P)
       PROVE  LET t == (A \o P)[i]
              IN  /\ t.do \in ImageWork =>
                        ~args[c].skipImage /\ Has(AllImages(c), Task("push", t.at))
                  /\ t.do = "chart" =>
                        /\ t.at \in ChartEnv \cap args[c].envs
                        /\ ~args[c].skipImage => \A do \in ImageWork :
                              Earlier(A \o P, i, Task(do, t.at))
                  /\ t.do = "release" => Earlier(A \o P, i, Task("chart", "production"))
  <2>1. CASE i <= Len(A)
    BY <1>5, <1>8, <2>1 DEF ImageWork
  <2>2. CASE i > Len(A)
    BY <1>6, <1>7, <2>2 DEF ImageWork
  <2> QED
    BY <1>4, <2>1, <2>2
<1> QED
  BY <1>3, <1>4, <1>9, <1>10

-----------------------------------------------------------------------------
(***************************************************************************)
(* The inductive invariant.                                                *)
(***************************************************************************)
Ran(c) == status[c] \in {"running", "failed", "done"}

\* The arguments of the calls.
InputInv ==
    /\ args["staging job"] = JobArgs("staging")
    /\ args["production job"] = JobArgs("production")
    /\ args["developer"] \in DeveloperArgs

\* A call that has run was not refused, and jobs wait for SecureBuild's; what it
\* has still to do is the rest of a list of tasks.
RunInv ==
    /\ ~stable => securing = "done"
    /\ \A c \in Call :
        /\ runs[c] > 0 <=> status[c] # "waiting"
        /\ Ran(c) => ~Refused(c)
        /\ Ran(c) /\ c \in Job => securing = "done"
        /\ status[c] # "running" => todo[c] = <<>>
        /\ Whole(todo[c])
        /\ \A i \in 1..Len(todo[c]) :
              todo[c][i].do \in ImageWork => Pushes(c, todo[c][i].at)

\* What SecureBuild has pushed stays, and is attested.
SecureInv ==
    stable /\ securing = "done" =>
        \A r \in ReleaseRegistry : tags[r] = SecureImage /\ IsAttested(r)

\* What a part needs is there, or comes earlier in the list.
PartInOrder(c, i) ==
    LET t == todo[c][i]
    IN  /\ t.do = "chart" =>
             /\ t.at \in ChartEnv
             /\ tags[t.at] # NoImage \/ Earlier(todo[c], i, Task("push", t.at))
             /\ SomeAttested(t.at) \/ Earlier(todo[c], i, Task("attest", t.at))
        /\ t.do = "release" =>
             "production" \in charts \/ Earlier(todo[c], i, Task("chart", "production"))

OrderInv ==
    /\ PartsInOrder
    /\ \A c \in Call : \A i \in 1..Len(todo[c]) : PartInOrder(c, i)

\* The call is still to attest what the version names there, or has failed.
Owes(c, r) ==
    \/ status[c] = "failed"
    \/ Has(todo[c], Task("manifest", r))
    \/ At(c, "attest") /\ Place(c) = r /\ seen[c] = tags[r]

TagInv ==
    \A r \in Registry : tags[r] # NoImage =>
        IsAttested(r) \/ \E c \in Call : Pushes(c, r) /\ Owes(c, r)

\* No other call pushes there.
Sole(c, r) == Pushes(c, r) /\ \A d \in Call : Pushes(d, r) => d = c

\* An attestation is SecureBuild's or of a call that pushes there, and in a
\* registry of its own a call finds the image it pushed.
Signed(a) ==
    \/ stable /\ a.key = "securebuild" /\ a.sbom = a.image
    \/ \E c \in Call : /\ Pushes(c, a.at) /\ a.key = Key(c)
                       /\ Sole(c, a.at) => a.sbom = a.image

FindsOwn(c) ==
    /\ At(c, "manifest") /\ Sole(c, Place(c)) => tags[Place(c)] = Image(c)
    /\ At(c, "attest") /\ Sole(c, Place(c)) => seen[c] = Image(c)

SignInv ==
    /\ \A a \in attested : Signed(a)
    /\ \A c \in Call : FindsOwn(c)

IInv == InputInv /\ RunInv /\ SecureInv /\ OrderInv /\ TagInv /\ SignInv

-----------------------------------------------------------------------------
\* The task that a call is at.
LEMMA AtHead ==
    ASSUME TypeOK, RunInv, NEW c \in Call, NEW do, At(c, do)
    PROVE  LET s == todo[c] IN
           /\ s \in Seq(Tasks) /\ s # <<>> /\ Len(s) \in Nat /\ 1 \in 1..Len(s)
           /\ Place(c) \in Registry /\ s[1] = Task(do, Place(c)) /\ s[1].do = do
           /\ Tail(s) \in Seq(Tasks) /\ Len(Tail(s)) = Len(s) - 1
           /\ \A i \in 1..Len(Tail(s)) : Tail(s)[i] = s[i + 1] /\ i + 1 \in 1..Len(s)
           /\ \A i \in 1..Len(s) : i # 1 => i - 1 \in 1..Len(Tail(s)) /\ Tail(s)[i - 1] = s[i]
           /\ do \in ImageWork => Pushes(c, Place(c))
           /\ status[c] = "running" /\ Image(c) \in Images /\ Image(c) # NoImage
<1>1. todo[c] \in Seq(Tasks) /\ todo[c] # <<>> /\ Head(todo[c]).do = do /\ status[c] = "running"
  BY DEF TypeOK, At
<1>2. /\ Len(todo[c]) \in Nat /\ 1 \in 1..Len(todo[c]) /\ Head(todo[c]) = todo[c][1]
      /\ todo[c][1] \in Tasks
      /\ Tail(todo[c]) \in Seq(Tasks) /\ Len(Tail(todo[c])) = Len(todo[c]) - 1
      /\ \A i \in 1..Len(Tail(todo[c])) : Tail(todo[c])[i] = todo[c][i + 1]
  BY <1>1, HeadTailProperties, LenProperties, EmptySeq, ElementOfSeq
<1>3. Place(c) \in Registry /\ todo[c][1] = Task(do, Place(c)) /\ todo[c][1].do = do
  BY <1>1, <1>2 DEF Place, Tasks, Task
<1>4. do \in ImageWork => Pushes(c, Place(c))
  BY <1>2, <1>3 DEF RunInv, Task
<1>5. Image(c) \in Images /\ Image(c) # NoImage
  <2>1. runs[c] \in 1..MaxRuns
    BY <1>1, ReleaseAssumption DEF RunInv, TypeOK
  <2> QED
    BY <2>1 DEF Image, Images, NoImage, Call
<1>6. ASSUME NEW i \in 1..Len(Tail(todo[c])) PROVE i + 1 \in 1..Len(todo[c])
  BY <1>2
<1>7. ASSUME NEW i \in 1..Len(todo[c]), i # 1
      PROVE  i - 1 \in 1..Len(Tail(todo[c])) /\ Tail(todo[c])[i - 1] = todo[c][i]
  <2>1. i - 1 \in 1..Len(Tail(todo[c])) /\ (i - 1) + 1 = i
    BY <1>2, <1>7
  <2> QED
    BY <1>2, <2>1
<1> QED
  BY <1>1, <1>2, <1>3, <1>4, <1>5, <1>6, <1>7

\* A step of a call: it is done with its first task, or with the run.
LEMMA WorkMoves ==
    ASSUME TypeOK, RunInv, NEW c \in Call, Work(c)
    PROVE  /\ UNCHANGED <<stable, embeds, args, securing, runs>>
           /\ status[c] = "running" /\ status' \in [Call -> {"waiting", "running", "failed", "refused", "done"}]
           /\ status'[c] \in {"running", "failed", "done"}
           /\ todo' \in [Call -> Seq(Tasks)]
           /\ \A d \in Call : d # c => todo'[d] = todo[d] /\ status'[d] = status[d] /\ seen'[d] = seen[d]
           /\ (todo[c] # <<>> /\ todo'[c] = Tail(todo[c])) \/ todo'[c] = <<>>
           /\ status'[c] # "running" => todo'[c] = <<>>
           /\ attested \subseteq attested' /\ charts \subseteq charts'
           /\ \A r \in Registry : tags[r] # NoImage => tags'[r] # NoImage
<1>1. ASSUME NEW do, At(c, do), Goes(c)
      PROVE  /\ status[c] = "running" /\ status' \in [Call -> {"waiting", "running", "failed", "refused", "done"}]
             /\ status'[c] \in {"running", "failed", "done"}
             /\ todo' \in [Call -> Seq(Tasks)]
             /\ \A d \in Call : d # c => todo'[d] = todo[d] /\ status'[d] = status[d]
             /\ (todo[c] # <<>> /\ todo'[c] = Tail(todo[c])) \/ todo'[c] = <<>>
             /\ status'[c] # "running" => todo'[c] = <<>>
  <2>1. /\ todo[c] # <<>> /\ status[c] = "running" /\ Tail(todo[c]) \in Seq(Tasks)
        /\ Len(todo[c]) = 1 => Len(Tail(todo[c])) = 0
    BY <1>1, AtHead
  <2>2. Len(todo[c]) = 1 => Tail(todo[c]) = <<>>
    BY <2>1, EmptySeq
  <2>3. <<>> \in Seq(Tasks)
    BY EmptySeq
  <2> QED
    BY <1>1, <2>1, <2>2, <2>3 DEF Goes, TypeOK
<1>2. CASE Push(c)
  <2>1. Place(c) \in Registry /\ Image(c) # NoImage
    BY <1>2, AtHead DEF Push
  <2> QED
    BY <1>1, <1>2, <2>1 DEF Push, inputs, TypeOK
<1>3. CASE ReadManifest(c)
  <2>1. /\ todo[c] # <<>> /\ status[c] = "running" /\ Tail(todo[c]) \in Seq(Tasks)
    BY <1>3, AtHead DEF ReadManifest
  <2> QED
    BY <1>3, <2>1 DEF ReadManifest, inputs, published, TypeOK
<1>4. CASE Attest(c)
  <2>1. UNCHANGED <<stable, embeds, args, securing, runs, tags, charts>> /\ attested \subseteq attested'
    BY <1>4 DEF Attest, inputs
  <2>2. \A d \in Call : d # c => seen'[d] = seen[d]
    BY <1>4 DEF Attest, TypeOK
  <2>3. At(c, "attest") /\ Goes(c)
    BY <1>4 DEF Attest
  <2> QED
    BY <1>1, <2>1, <2>2, <2>3
<1>5. CASE PushChart(c)
  BY <1>1, <1>5 DEF PushChart, inputs
<1>6. CASE CreateRelease(c)
  BY <1>1, <1>6 DEF CreateRelease, inputs
<1>7. CASE Fail(c)
  BY <1>7, EmptySeq DEF Fail, inputs, published, TypeOK
<1> QED
  BY <1>2, <1>3, <1>4, <1>5, <1>6, <1>7 DEF Work

\* What was pushed to goes on being pushed to.
LEMMA PushesKept ==
    ASSUME TypeOK, RunInv, NEW c \in Call, Start(c) \/ Work(c), NEW d \in Call, NEW r
    PROVE  /\ Pushes(d, r) => Pushes(d, r)'
           /\ Key(d)' = Key(d) /\ AllImages(d)' = AllImages(d)
<1>1. UNCHANGED <<stable, embeds, args>> /\ runs[d] \in Nat
  BY WorkMoves DEF Start, inputs, TypeOK
<1>2. Key(d)' = Key(d) /\ AllImages(d)' = AllImages(d)
  BY <1>1 DEF Key, AllImages
<1>3. ASSUME Pushes(d, r) PROVE runs'[d] > 0 /\ status'[d] # "refused"
  <2>1. CASE Work(c)
    BY <1>3, <2>1, WorkMoves DEF Pushes
  <2>2. CASE Start(c)
    <3>1. Ran(c) => ~Refused(c)
      BY DEF RunInv
    <3>2. c = d => status[c] = "failed"
      BY <1>3, <2>2 DEF Start, Pushes, RunInv
    <3> QED
      BY <1>1, <1>3, <2>2, <3>1, <3>2 DEF Start, Pushes, Ran, TypeOK
  <2> QED
    BY <2>1, <2>2
<1> QED
  BY <1>1, <1>2, <1>3 DEF Pushes

\* Of a stable version no call pushes to the registries of a release.
LEMMA StablePushes ==
    ASSUME TypeOK, RunInv, InputInv, stable, NEW c \in Call, NEW r \in ReleaseRegistry
    PROVE  ~Pushes(c, r)
<1> SUFFICES ASSUME Pushes(c, r) PROVE FALSE
  OBVIOUS
<1>1. Ran(c) /\ ~Refused(c) /\ ~args[c].skipImage
  BY DEF Pushes, RunInv, TypeOK, Ran
<1>2. args[c].envs \cap ChartEnv = {}
  BY <1>1 DEF Refused
<1>3. AllImages(c) \in {<<>>, PublishImage("ttl.sh")}
  <2>1. PublishImage("ttl.sh") \in Seq(Tasks) /\ <<>> \in Seq(Tasks)
    BY WholeParts DEF Registry
  <2>2. AllImages(c) = (If("dev" \in args[c].envs, PublishImage("ttl.sh")) \o <<>>) \o <<>>
    BY <1>2 DEF AllImages, If, ChartEnv
  <2> QED
    BY <2>1, <2>2, ConcatEmptySeq DEF If
<1>4. Task("push", r) \notin ToSet(AllImages(c))
  BY <1>3 DEF PublishImage, Task, ToSet, ReleaseRegistry, Registry
<1> QED
  BY <1>4 DEF Pushes

\* What Has says of the images is what Pushes asks.
LEMMA PushedIsIn ==
    ASSUME NEW c \in Call, NEW r
    PROVE  Has(AllImages(c), Task("push", r)) <=> Task("push", r) \in ToSet(AllImages(c))
<1>1. DOMAIN AllImages(c) = 1..Len(AllImages(c))
  BY ImagesPublished, LenProperties
<1> QED
  BY <1>1 DEF Has, ToSet

\* Every step keeps the inputs.
LEMMA InputInvariant ==
    ASSUME TypeOK, RunInv, InputInv, [Next]_vars
    PROVE  InputInv' /\ UNCHANGED inputs
<1>1. UNCHANGED inputs
  BY WorkMoves DEF Next, vars, inputs, SecureBuild, SecureBuildFails, RerunSecureBuild, Start
<1> QED
  BY <1>1 DEF InputInv, JobArgs, inputs

\* Every step keeps the types.
LEMMA TypeInvariant ==
    ASSUME TypeOK, RunInv, OrderInv, InputInv, [Next]_vars
    PROVE  TypeOK'
<1> USE ReleaseAssumption
<1>1. CASE UNCHANGED vars
  BY <1>1 DEF vars, TypeOK
<1>2. CASE SecureBuild
  <2>1. SecureImage \in Images /\ ReleaseRegistry \subseteq Registry /\ "securebuild" \in Keys
    BY DEF Images, ReleaseRegistry, Keys
  <2>2. tags' \in [Registry -> Images]
    BY <1>2, <2>1 DEF SecureBuild, TypeOK
  <2>3. attested' \subseteq [at : Registry, image : Images, key : Keys, sbom : Images]
    BY <1>2, <2>1 DEF SecureBuild, TypeOK, Attestation
  <2> QED
    BY <1>2, <2>2, <2>3 DEF SecureBuild, TypeOK, Securing, inputs
<1>3. CASE SecureBuildFails \/ RerunSecureBuild
  <2>1. securing' \in Securing
    BY <1>3 DEF SecureBuildFails, RerunSecureBuild, Securing
  <2>2. failures' \in 0..MaxFailures
    <3>1. failures \in 0..MaxFailures
      BY DEF TypeOK
    <3>2. failures' = failures \/ (failures < MaxFailures /\ failures' = failures + 1)
      BY <1>3 DEF SecureBuildFails, RerunSecureBuild
    <3> QED
      BY <3>1, <3>2, ReleaseAssumption
  <2>3. UNCHANGED <<inputs, status, todo, runs, seen, published>>
    BY <1>3 DEF SecureBuildFails, RerunSecureBuild
  <2> QED
    BY <2>1, <2>2, <2>3 DEF TypeOK, inputs, published
<1>4. ASSUME NEW c \in Call, Start(c) PROVE TypeOK'
  <2>1. Publish(c) \in Seq(Tasks) /\ <<>> \in Seq(Tasks)
    BY Published, EmptySeq
  <2>2. runs[c] + 1 \in 0..MaxRuns
    BY <1>4 DEF Start, TypeOK
  <2> QED
    BY <1>4, <2>1, <2>2 DEF Start, TypeOK, inputs, published
<1>5. ASSUME NEW c \in Call, Work(c) PROVE TypeOK'
  <2>1. /\ UNCHANGED <<stable, embeds, args, securing, runs>>
        /\ status' \in [Call -> {"waiting", "running", "failed", "refused", "done"}]
        /\ todo' \in [Call -> Seq(Tasks)]
    BY <1>5, WorkMoves
  <2>2. Goes(c) => failures' \in 0..MaxFailures
    BY DEF Goes, TypeOK
  <2> USE DEF TypeOK
  <2>3. CASE Push(c)
    <3>1. Place(c) \in Registry /\ Image(c) \in Images
      BY <2>3, AtHead DEF Push
    <3> QED
      BY <2>1, <2>2, <2>3, <3>1 DEF Push
  <2>4. CASE ReadManifest(c)
    <3>1. Place(c) \in Registry
      BY <2>4, AtHead DEF ReadManifest
    <3> QED
      BY <2>1, <2>4, <3>1 DEF ReadManifest, published
  <2>5. CASE Attest(c)
    <3>1. Place(c) \in Registry /\ Image(c) \in Images /\ NoImage \in Images
      BY <2>5, AtHead DEF Attest, Images
    <3>2. Key(c) \in Keys
      BY DEF Key, Keys, Env
    <3>3. attested' \subseteq [at : Registry, image : Images, key : Keys, sbom : Images]
      BY <2>5, <3>1, <3>2 DEF Attest, Attested, Attestation
    <3> QED
      BY <2>1, <2>2, <2>5, <3>1, <3>3 DEF Attest
  <2>6. CASE PushChart(c)
    <3>1. todo[c][1] = Task("chart", Place(c)) /\ 1 \in 1..Len(todo[c])
      BY <2>6, AtHead DEF PushChart
    <3>2. PartInOrder(c, 1)
      BY <3>1 DEF OrderInv
    <3>3. Place(c) \in ChartEnv
      BY <3>1, <3>2 DEF PartInOrder, Task
    <3> QED
      BY <2>1, <2>2, <2>6, <3>3 DEF PushChart
  <2>7. CASE CreateRelease(c)
    BY <2>1, <2>2, <2>7 DEF CreateRelease
  <2>8. CASE Fail(c)
    BY <2>1, <2>8 DEF Fail, published, Images
  <2> QED
    BY <1>5, <2>3, <2>4, <2>5, <2>6, <2>7, <2>8 DEF Work
<1> QED
  BY <1>1, <1>2, <1>3, <1>4, <1>5 DEF Next

\* Every step keeps the runs.
LEMMA RunInvariant ==
    ASSUME TypeOK, RunInv, InputInv, [Next]_vars
    PROVE  RunInv'
<1>1. CASE UNCHANGED <<inputs, securing, status, todo, runs>>
  BY <1>1 DEF RunInv, inputs, Ran, Refused, Whole, Pushes, AllImages
<1>2. CASE SecureBuild \/ SecureBuildFails \/ RerunSecureBuild
  <2>1. UNCHANGED <<inputs, status, todo, runs>> /\ securing # "done"
    BY <1>2 DEF SecureBuild, SecureBuildFails, RerunSecureBuild
  <2> QED
    BY <2>1 DEF RunInv, inputs, Ran, Refused, Whole, Pushes, AllImages
<1>3. ASSUME NEW c \in Call, Start(c) PROVE RunInv'
  <2> USE DEF RunInv
  <2>1. UNCHANGED <<stable, embeds, args, securing>> /\ runs[c] \in Nat /\ runs'[c] = runs[c] + 1
    BY <1>3 DEF Start, inputs, TypeOK
  <2>2. \A d \in Call : d # c => status'[d] = status[d] /\ todo'[d] = todo[d] /\ runs'[d] = runs[d]
    BY <1>3 DEF Start, TypeOK
  <2>3. status'[c] = (IF Refused(c) THEN "refused" ELSE "running")
    BY <1>3 DEF Start, TypeOK
  <2>4. todo'[c] = IF Refused(c) THEN <<>> ELSE Publish(c)
    BY <1>3 DEF Start, TypeOK
  <2>5. \A d \in Call : Refused(d)' = Refused(d)
    BY <2>1 DEF Refused
  <2>6. ASSUME NEW d \in Call, d # c
        PROVE  /\ Whole(todo'[d])
               /\ \A i \in 1..Len(todo'[d]) : \A r :
                     todo'[d][i].do \in ImageWork /\ r = todo'[d][i].at => Pushes(d, r)'
    <3>1. todo'[d] = todo[d] /\ \A r : Pushes(d, r) => Pushes(d, r)'
      BY <1>3, <2>2, <2>6, PushesKept
    <3> QED
      BY <3>1
  <2>7. /\ Whole(todo'[c])
        /\ \A i \in 1..Len(todo'[c]) : \A r :
              todo'[c][i].do \in ImageWork /\ r = todo'[c][i].at => Pushes(c, r)'
    <3>1. CASE Refused(c)
      BY <2>4, <3>1, WholeParts, EmptySeq
    <3>2. CASE ~Refused(c)
      <4>1. AllImages(c)' = AllImages(c)
        BY <1>3, PushesKept
      <4>2. \A i \in 1..Len(Publish(c)) : Publish(c)[i].do \in ImageWork =>
              /\ ~args[c].skipImage
              /\ Task("push", Publish(c)[i].at) \in ToSet(AllImages(c))
        BY Published, PushedIsIn
      <4>3. Whole(Publish(c))
        BY Published
      <4>4. runs'[c] > 0 /\ status'[c] # "refused"
        BY <2>1, <2>3, <3>2
      <4> QED
        BY <2>1, <2>4, <3>2, <4>1, <4>2, <4>3, <4>4 DEF Pushes
    <3> QED
      BY <3>1, <3>2
  <2>8. c \in Job => securing = "done"
    BY <1>3 DEF Start
  <2>9. ASSUME NEW d \in Call
        PROVE  /\ runs'[d] > 0 <=> status'[d] # "waiting"
               /\ Ran(d)' => ~Refused(d)
               /\ Ran(d)' /\ d \in Job => securing = "done"
               /\ status'[d] # "running" => todo'[d] = <<>>
    BY <2>1, <2>2, <2>3, <2>4, <2>8 DEF Ran
  <2>10. \A d \in Call : Whole(todo[d])' <=> Whole(todo'[d])
    OBVIOUS
  <2> QED
    BY <2>1, <2>5, <2>6, <2>7, <2>9, <2>10
<1>4. ASSUME NEW c \in Call, Work(c) PROVE RunInv'
  <2>1. /\ UNCHANGED <<stable, embeds, args, securing, runs>>
        /\ status[c] = "running" /\ status'[c] \in {"running", "failed", "done"}
        /\ \A d \in Call : d # c => todo'[d] = todo[d] /\ status'[d] = status[d]
        /\ (todo[c] # <<>> /\ todo'[c] = Tail(todo[c])) \/ todo'[c] = <<>>
        /\ status'[c] # "running" => todo'[c] = <<>>
    BY <1>4, WorkMoves
  <2>2. \A d \in Call : Refused(d)' = Refused(d)
    BY <2>1 DEF Refused
  <2>3. \A d \in Call : \A r : Pushes(d, r) => Pushes(d, r)'
    BY <1>4, PushesKept
  <2>4. ASSUME NEW d \in Call
        PROVE  /\ Whole(todo'[d])
               /\ \A i \in 1..Len(todo'[d]) :
                     todo'[d][i].do \in ImageWork => Pushes(d, todo'[d][i].at)
    <3>1. CASE todo'[d] = todo[d]
      BY <3>1 DEF RunInv
    <3>2. CASE todo'[d] = <<>>
      BY <3>2, WholeParts, EmptySeq
    <3>3. CASE todo[d] # <<>> /\ todo'[d] = Tail(todo[d])
      <4>1. todo[d] \in Seq(Tasks) /\ Whole(todo[d])
        BY DEF TypeOK, RunInv
      <4>2. /\ Len(todo[d]) \in Nat /\ Len(Tail(todo[d])) = Len(todo[d]) - 1
            /\ \A i \in 1..Len(Tail(todo[d])) : Tail(todo[d])[i] = todo[d][i + 1]
        BY <3>3, <4>1, HeadTailProperties, LenProperties
      <4>3. \A i \in 1..Len(Tail(todo[d])) : i + 1 \in 1..Len(todo[d])
        BY <4>2
      <4> QED
        BY <3>3, <4>1, <4>2, <4>3, WholeTail DEF RunInv
    <3> QED
      BY <2>1, <3>1, <3>2, <3>3
  <2> QED
    BY <2>1, <2>2, <2>3, <2>4 DEF RunInv, Ran
<1> QED
  BY <1>1, <1>2, <1>3, <1>4 DEF Next, vars, inputs

\* What SecureBuild does when it is done, and that it is never done otherwise.
LEMMA SecureBuildMoves ==
    ASSUME TypeOK, RunInv, SecureBuild \/ SecureBuildFails \/ RerunSecureBuild
    PROVE  /\ UNCHANGED <<inputs, status, todo, runs, seen, charts, release>>
           /\ stable /\ attested \subseteq attested'
           /\ \/ UNCHANGED <<tags, attested>> /\ securing' # "done"
              \/ /\ \A r \in ReleaseRegistry :
                       /\ tags'[r] = SecureImage
                       /\ \E a \in attested' : a.at = r /\ a.image = SecureImage
                 /\ tags'["ttl.sh"] = tags["ttl.sh"]
                 /\ \A a \in attested' \ attested : a.key = "securebuild" /\ a.sbom = a.image
<1>1. stable
  BY DEF RunInv, SecureBuild, SecureBuildFails, RerunSecureBuild
<1>2. CASE SecureBuildFails \/ RerunSecureBuild \/ (SecureBuild /\ securing = "package")
  BY <1>1, <1>2 DEF SecureBuild, SecureBuildFails, RerunSecureBuild, published, inputs
<1>3. CASE SecureBuild /\ securing = "image"
  <2> DEFINE New == {Attestation(r, SecureImage, "securebuild", SecureImage) : r \in ReleaseRegistry}
  <2>1. /\ tags' = [r \in Registry |-> IF r \in ReleaseRegistry THEN SecureImage ELSE tags[r]]
        /\ attested' = attested \cup New
    BY <1>3 DEF SecureBuild
  <2>2. \A r \in ReleaseRegistry :
          /\ tags'[r] = SecureImage
          /\ Attestation(r, SecureImage, "securebuild", SecureImage) \in attested'
    BY <2>1 DEF ReleaseRegistry
  <2>3. \A r \in ReleaseRegistry : \E a \in attested' : a.at = r /\ a.image = SecureImage
    BY <2>2 DEF Attestation
  <2>4. \A a \in New : a.key = "securebuild" /\ a.sbom = a.image
    BY DEF Attestation
  <2>5. tags'["ttl.sh"] = tags["ttl.sh"]
    BY <2>1 DEF ReleaseRegistry, Registry
  <2> QED
    BY <1>1, <1>3, <2>1, <2>2, <2>3, <2>4, <2>5 DEF SecureBuild
<1> QED
  BY <1>2, <1>3 DEF SecureBuild

\* What a step of a call does to the registries.
LEMMA WorkPublishes ==
    ASSUME TypeOK, RunInv, NEW c \in Call, Work(c)
    PROVE  /\ \A r \in Registry : tags'[r] # tags[r] => Push(c) /\ r = Place(c)
           /\ Push(c) => tags'[Place(c)] = Image(c) /\ Image(c) # NoImage
           /\ \A r \in Registry : IsAttested(r) /\ tags'[r] = tags[r] => IsAttested(r)'
<1>1. \A r \in Registry : tags'[r] # tags[r] => Push(c) /\ r = Place(c)
  BY DEF Work, Push, ReadManifest, Attest, PushChart, CreateRelease, Fail, published, TypeOK
<1>2. Push(c) => tags'[Place(c)] = Image(c) /\ Image(c) # NoImage
  BY AtHead DEF Push, TypeOK
<1>3. attested \subseteq attested'
  BY WorkMoves
<1> QED
  BY <1>1, <1>2, <1>3, WorkMoves DEF IsAttested

\* Every step keeps what SecureBuild has pushed.
LEMMA SecureInvariant ==
    ASSUME TypeOK, InputInv, RunInv, SecureInv, [Next]_vars
    PROVE  SecureInv'
<1>1. CASE UNCHANGED <<stable, embeds, securing, tags, attested>>
  BY <1>1 DEF SecureInv, IsAttested
<1>2. CASE SecureBuild \/ SecureBuildFails \/ RerunSecureBuild
  <2>1. UNCHANGED <<stable, embeds>>
    BY <1>2, SecureBuildMoves DEF inputs
  <2>2. CASE UNCHANGED <<tags, attested>> /\ securing' # "done"
    BY <2>2 DEF SecureInv
  <2>3. CASE \A r \in ReleaseRegistry :
                /\ tags'[r] = SecureImage
                /\ \E a \in attested' : a.at = r /\ a.image = SecureImage
    BY <2>3 DEF SecureInv, IsAttested
  <2> QED
    BY <1>2, <2>2, <2>3, SecureBuildMoves
<1>3. ASSUME NEW c \in Call, Work(c) PROVE SecureInv'
  <2>1. UNCHANGED <<stable, securing>>
    BY <1>3, WorkMoves
  <2>2. ASSUME stable, NEW r \in ReleaseRegistry PROVE tags'[r] = tags[r]
    <3>1. Push(c) => Pushes(c, Place(c))
      BY AtHead DEF Push, ImageWork
    <3>2. r \in Registry
      BY DEF ReleaseRegistry
    <3> QED
      BY <1>3, <2>2, <3>1, <3>2, StablePushes, WorkPublishes
  <2> QED
    BY <1>3, <2>1, <2>2, WorkPublishes DEF SecureInv, ReleaseRegistry
<1> QED
  BY <1>1, <1>2, <1>3 DEF Next, vars, Start, inputs, published

\* With the first task done, the others come one earlier.
LEMMA EarlierTail ==
    ASSUME NEW s \in Seq(Tasks), s # <<>>, NEW i \in 1..Len(Tail(s)), NEW x,
           Earlier(s, i + 1, x)
    PROVE  x = s[1] \/ Earlier(Tail(s), i, x)
<1>1. /\ Len(s) \in Nat /\ Len(Tail(s)) = Len(s) - 1
      /\ \A k \in 1..Len(Tail(s)) : Tail(s)[k] = s[k + 1]
  BY HeadTailProperties, LenProperties
<1>2. PICK j \in 1..((i + 1) - 1) : s[j] = x
  BY DEF Earlier
<1>3. CASE j = 1
  BY <1>2, <1>3
<1>4. CASE j # 1
  <2>1. j - 1 \in 1..(i - 1) /\ j - 1 \in 1..Len(Tail(s)) /\ (j - 1) + 1 = j
    BY <1>1, <1>2, <1>4
  <2> QED
    BY <1>1, <1>2, <2>1 DEF Earlier
<1> QED
  BY <1>3, <1>4

\* A call that goes on has done its first task.
LEMMA FirstIsDone ==
    ASSUME TypeOK, RunInv, NEW c \in Call, Work(c), todo'[c] # <<>>
    PROVE  /\ todo[c] # <<>> /\ todo[c] \in Seq(Tasks) /\ todo'[c] = Tail(todo[c])
           /\ status'[c] = "running"
           /\ \A r : todo[c][1] = Task("push", r) => Push(c) /\ r = Place(c) /\ r \in Registry
           /\ \A r : todo[c][1] = Task("manifest", r) => ReadManifest(c) /\ r = Place(c)
           /\ \A r : todo[c][1] = Task("attest", r) => Attest(c) /\ r = Place(c)
           /\ \A r : todo[c][1] = Task("chart", r) => r \in charts'
<1>1. /\ todo[c] # <<>> /\ todo[c] \in Seq(Tasks) /\ todo'[c] = Tail(todo[c])
      /\ status'[c] = "running" /\ Head(todo[c]) = todo[c][1]
  BY WorkMoves, HeadTailProperties DEF TypeOK
<1>2. ~Fail(c)
  BY DEF Fail, TypeOK
<1>3. \A do, r : todo[c][1] = Task(do, r) => Head(todo[c]).do = do /\ Place(c) = r
  BY <1>1 DEF Task, Place
<1>4. CASE Push(c)
  <2>1. Head(todo[c]).do = "push" /\ Place(c) \in Registry
    BY <1>4, AtHead DEF Push, At
  <2> QED
    BY <1>1, <1>3, <1>4, <2>1
<1>5. CASE ReadManifest(c)
  BY <1>1, <1>3, <1>5 DEF ReadManifest, At
<1>6. CASE Attest(c)
  BY <1>1, <1>3, <1>6 DEF Attest, At
<1>7. CASE PushChart(c)
  BY <1>1, <1>3, <1>7 DEF PushChart, At
<1>8. CASE CreateRelease(c)
  BY <1>1, <1>3, <1>8 DEF CreateRelease, At
<1> QED
  BY <1>2, <1>4, <1>5, <1>6, <1>7, <1>8 DEF Work

\* An attestation is one in the registry of the task.
LEMMA AttestAttests ==
    ASSUME NEW c \in Call, Attest(c)
    PROVE  embeds \/ \E a \in attested' : a.at = Place(c) /\ a.image = seen[c]
<1>1. ~embeds => Attestation(Place(c), seen[c], Key(c), Image(c)) \in attested'
  BY DEF Attest, Attested
<1> QED
  BY <1>1 DEF Attestation

\* Every step keeps the parts in order.
LEMMA OrderInvariant ==
    ASSUME TypeOK, InputInv, RunInv, SecureInv, OrderInv, [Next]_vars
    PROVE  OrderInv'
<1>1. CASE UNCHANGED <<embeds, todo, published>>
  BY <1>1 DEF OrderInv, PartsInOrder, PartInOrder, SomeAttested, Earlier, published
<1>2. ASSUME UNCHANGED <<embeds, charts, release>>, attested \subseteq attested',
             \A r \in Registry : tags[r] # NoImage => tags'[r] # NoImage
      PROVE  PartsInOrder'
  BY <1>2 DEF OrderInv, PartsInOrder, SomeAttested, TypeOK, ChartEnv, Registry
<1>3. ASSUME embeds' = embeds, charts \subseteq charts', attested \subseteq attested',
             \A r \in Registry : tags[r] # NoImage => tags'[r] # NoImage,
             NEW d \in Call, todo'[d] = todo[d], NEW i \in 1..Len(todo'[d])
      PROVE  PartInOrder(d, i)'
  BY <1>3 DEF OrderInv, PartInOrder, SomeAttested, ChartEnv, Registry
<1>4. CASE SecureBuild \/ SecureBuildFails \/ RerunSecureBuild
  <2>1. \A r \in Registry : tags[r] # NoImage => tags'[r] # NoImage
    <3>1. SecureImage # NoImage
      BY DEF SecureImage, NoImage
    <3>2. \A r \in Registry : r \in ReleaseRegistry \/ r = "ttl.sh"
      BY DEF ReleaseRegistry
    <3> QED
      BY <1>4, <3>1, <3>2, SecureBuildMoves
  <2>2. UNCHANGED <<embeds, charts, release, todo>> /\ attested \subseteq attested'
    BY <1>4, SecureBuildMoves DEF inputs
  <2> QED
    BY <1>2, <1>3, <2>1, <2>2 DEF OrderInv
<1>5. ASSUME NEW c \in Call, Start(c) PROVE OrderInv'
  <2>1. UNCHANGED <<embeds, tags, attested, charts, release>>
    BY <1>5 DEF Start, inputs, published
  <2>2. \A d \in Call : d # c => todo'[d] = todo[d]
    BY <1>5 DEF Start, TypeOK
  <2>3. todo'[c] = IF Refused(c) THEN <<>> ELSE Publish(c)
    BY <1>5 DEF Start, TypeOK
  <2>4. ASSUME NEW i \in 1..Len(todo'[c]) PROVE PartInOrder(c, i)'
    <3>1. ~Refused(c) /\ todo'[c] = Publish(c)
      BY <2>3, <2>4, EmptySeq
    <3> DEFINE t == Publish(c)[i]
    <3>2. /\ t.do = "chart" =>
                /\ t.at \in ChartEnv \cap args[c].envs
                /\ ~args[c].skipImage => \A do \in ImageWork : Earlier(Publish(c), i, Task(do, t.at))
          /\ t.do = "release" => Earlier(Publish(c), i, Task("chart", "production"))
      BY <2>4, <3>1, Published
    <3> HIDE DEF t
    <3>3. ASSUME t.do = "chart", args[c].skipImage
          PROVE  tags[t.at] # NoImage /\ SomeAttested(t.at)
      <4>1. stable /\ c \in Job
        <5>1. c # "developer"
          <6>1. args["developer"].skipImage = FALSE
            <7>1. \A a \in DeveloperArgs : a.skipImage = FALSE
              BY DEF DeveloperArgs
            <7> QED
              BY <7>1 DEF InputInv
          <6> QED
            BY <3>3, <6>1, Zenon
        <5>2. c \in {"staging job", "production job"}
          BY <5>1 DEF Call
        <5>3. \E e \in Env : args[c] = [envs |-> {e}, skipImage |-> stable, keyGiven |-> FALSE]
          BY <5>2 DEF InputInv, JobArgs, Env
        <5>4. stable
          BY <3>3, <5>3
        <5> QED
          BY <5>2, <5>4 DEF Call, Job
      <4>2. securing = "done"
        BY <1>5, <4>1 DEF Start
      <4>3. t.at \in ReleaseRegistry
        BY <3>2, <3>3 DEF ChartEnv, ReleaseRegistry, Registry
      <4>4. SecureImage # NoImage
        BY DEF SecureImage, NoImage
      <4> QED
        BY <4>1, <4>2, <4>3, <4>4 DEF SecureInv, IsAttested, SomeAttested
    <3>4. t = todo'[c][i]
      BY <3>1 DEF t
    <3> QED
      BY <2>1, <3>1, <3>2, <3>3, <3>4 DEF PartInOrder, SomeAttested, ImageWork
  <2>5. ASSUME NEW d \in Call, NEW i \in 1..Len(todo'[d]) PROVE PartInOrder(d, i)'
    BY <1>3, <2>1, <2>2, <2>4, <2>5
  <2>6. PartsInOrder'
    BY <1>2, <2>1
  <2> QED
    BY <2>5, <2>6 DEF OrderInv
<1>6. ASSUME NEW c \in Call, Work(c) PROVE OrderInv'
  <2>1. /\ \A d \in Call : d # c => todo'[d] = todo[d]
        /\ embeds' = embeds /\ charts \subseteq charts' /\ attested \subseteq attested'
        /\ \A r \in Registry : tags[r] # NoImage => tags'[r] # NoImage
    BY <1>6, WorkMoves
  <2>2. PartsInOrder'
    <3>1. CASE PushChart(c)
      <4>1. /\ todo[c][1] = Task("chart", Place(c)) /\ 1 \in 1..Len(todo[c])
        BY <3>1, AtHead DEF PushChart
      <4>2. PartInOrder(c, 1)
        BY <4>1 DEF OrderInv
      <4>3. tags[Place(c)] # NoImage /\ SomeAttested(Place(c))
        BY <4>1, <4>2 DEF PartInOrder, Task, Earlier
      <4> QED
        BY <2>1, <3>1, <4>3 DEF PushChart, OrderInv, PartsInOrder, SomeAttested
    <3>2. CASE CreateRelease(c)
      <4>1. /\ todo[c][1] = Task("release", Place(c)) /\ 1 \in 1..Len(todo[c])
        BY <3>2, AtHead DEF CreateRelease
      <4>2. PartInOrder(c, 1)
        BY <4>1 DEF OrderInv
      <4>3. "production" \in charts
        BY <4>1, <4>2 DEF PartInOrder, Task, Earlier
      <4> QED
        BY <2>1, <3>2, <4>3 DEF CreateRelease, OrderInv, PartsInOrder, SomeAttested
    <3>3. CASE UNCHANGED <<charts, release>>
      BY <1>2, <2>1, <3>3
    <3> QED
      BY <1>6, <3>1, <3>2, <3>3 DEF Work, Push, ReadManifest, Attest, Fail, published
  <2>3. ASSUME NEW i \in 1..Len(todo'[c]) PROVE PartInOrder(c, i)'
    <3>1. todo'[c] # <<>>
      BY <2>3, EmptySeq
    <3>2. todo[c] # <<>> /\ todo[c] \in Seq(Tasks) /\ todo'[c] = Tail(todo[c])
      BY <1>6, <3>1, FirstIsDone
    <3>3. todo'[c][i] = todo[c][i + 1] /\ i + 1 \in 1..Len(todo[c])
      BY <2>3, <3>2, HeadTailProperties, LenProperties
    <3>4. PartInOrder(c, i + 1)
      BY <3>3 DEF OrderInv
    <3> DEFINE t == todo[c][i + 1]
    <3>5. \A x : Earlier(todo[c], i + 1, x) => x = todo[c][1] \/ Earlier(todo'[c], i, x)
      BY <2>3, <3>2, EarlierTail
    <3>6. ASSUME NEW r \in Registry, todo[c][1] = Task("push", r) PROVE tags'[r] # NoImage
      BY <1>6, <3>1, <3>6, FirstIsDone, WorkPublishes
    <3>7. ASSUME NEW r, todo[c][1] = Task("attest", r) PROVE embeds' \/ \E a \in attested' : a.at = r
      BY <1>6, <2>1, <3>1, <3>7, FirstIsDone, AttestAttests
    <3>8. ASSUME NEW r, todo[c][1] = Task("chart", r) PROVE r \in charts'
      BY <1>6, <3>1, <3>8, FirstIsDone
    <3>9. ASSUME t.do = "chart"
          PROVE  /\ t.at \in ChartEnv
                 /\ tags'[t.at] # NoImage \/ Earlier(todo'[c], i, Task("push", t.at))
                 /\ (embeds' \/ \E a \in attested' : a.at = t.at)
                       \/ Earlier(todo'[c], i, Task("attest", t.at))
      <4>1. /\ t.at \in ChartEnv
            /\ tags[t.at] # NoImage \/ Earlier(todo[c], i + 1, Task("push", t.at))
            /\ SomeAttested(t.at) \/ Earlier(todo[c], i + 1, Task("attest", t.at))
        BY <3>4, <3>9 DEF PartInOrder
      <4>2. t.at \in Registry
        BY <4>1 DEF ChartEnv, Registry
      <4> HIDE DEF t
      <4> QED
        BY <2>1, <3>5, <3>6, <3>7, <4>1, <4>2 DEF SomeAttested
    <3>10. t.do = "release" =>
             "production" \in charts' \/ Earlier(todo'[c], i, Task("chart", "production"))
      BY <2>1, <3>4, <3>5, <3>8 DEF PartInOrder
    <3> QED
      BY <3>3, <3>9, <3>10 DEF PartInOrder, SomeAttested
  <2>4. ASSUME NEW d \in Call, NEW i \in 1..Len(todo'[d]) PROVE PartInOrder(d, i)'
    BY <1>3, <2>1, <2>3, <2>4
  <2> QED
    BY <2>2, <2>4 DEF OrderInv
<1> QED
  BY <1>1, <1>4, <1>5, <1>6 DEF Next, vars, published

\* What follows the first task of a whole list.
LEMMA AfterFirst ==
    ASSUME NEW s \in Seq(Tasks), s # <<>>, Whole(s)
    PROVE  /\ \A r : s[1] = Task("push", r) =>
                 Has(Tail(s), Task("manifest", r))
           /\ \A r : s[1] = Task("manifest", r) =>
                 Tail(s) # <<>> /\ Head(Tail(s)) = Task("attest", r)
           /\ \A x : Has(s, x) => s[1] = x \/ Has(Tail(s), x)
<1>1. /\ Len(s) \in Nat /\ 1 \in 1..Len(s)
      /\ Tail(s) \in Seq(Tasks) /\ Len(Tail(s)) = Len(s) - 1
      /\ \A i \in 1..Len(Tail(s)) : Tail(s)[i] = s[i + 1]
  BY HeadTailProperties, LenProperties, EmptySeq
<1>2. ASSUME NEW j \in 1..Len(s), j # 1
      PROVE  j - 1 \in 1..Len(Tail(s)) /\ Tail(s)[j - 1] = s[j]
  <2>1. j - 1 \in 1..Len(Tail(s)) /\ (j - 1) + 1 = j
    BY <1>1, <1>2
  <2> QED
    BY <1>1, <2>1
<1>3. ASSUME 1 < Len(s) PROVE 1 \in 1..Len(Tail(s)) /\ Tail(s)[1] = s[2]
  <2>1. 2 \in 1..Len(s) /\ 2 # 1 /\ 2 - 1 = 1
    BY <1>1, <1>3
  <2> QED
    BY <1>2, <2>1
<1>4. ASSUME NEW r, s[1] = Task("push", r)
      PROVE  Has(Tail(s), Task("manifest", r))
  <2>1. s[1].do = "push" /\ s[1].at = r
    BY <1>4 DEF Task
  <2>2. 1 < Len(s) /\ s[1 + 1] = Task("manifest", r)
    BY <1>1, <2>1 DEF Whole
  <2> QED
    BY <1>3, <2>2 DEF Has
<1>5. ASSUME NEW r, s[1] = Task("manifest", r)
      PROVE  Tail(s) # <<>> /\ Head(Tail(s)) = Task("attest", r)
  <2>1. s[1].do = "manifest" /\ s[1].at = r
    BY <1>5 DEF Task
  <2>2. 1 < Len(s) /\ s[1 + 1] = Task("attest", r)
    BY <1>1, <2>1 DEF Whole
  <2>3. Tail(s) # <<>>
    <3>1. Len(Tail(s)) # 0
      BY <1>1, <2>2
    <3> QED
      BY <3>1, EmptySeq, Zenon
  <2>4. ASSUME NEW t \in Seq(Tasks), t # <<>> PROVE Head(t) = t[1]
    BY <2>4, HeadTailProperties, LenProperties, EmptySeq
  <2> QED
    BY <1>1, <1>3, <2>2, <2>3, <2>4
<1>6. ASSUME NEW x, Has(s, x), s[1] # x PROVE Has(Tail(s), x)
  BY <1>2, <1>6 DEF Has
<1> QED
  BY <1>4, <1>5, <1>6

\* A call that does not fail does the task it is at.
LEMMA DoesTask ==
    ASSUME TypeOK, RunInv, NEW c \in Call, Work(c), status'[c] # "failed"
    PROVE  /\ todo[c] # <<>> /\ todo'[c] = Tail(todo[c])
           /\ At(c, "manifest") => ReadManifest(c)
           /\ At(c, "attest") => Attest(c)
<1>1. ~Fail(c)
  BY DEF Fail, TypeOK
<1>2. Goes(c) => todo'[c] = Tail(todo[c])
  BY DEF Goes, TypeOK
<1>3. ReadManifest(c) => todo'[c] = Tail(todo[c])
  BY DEF ReadManifest, TypeOK
<1> QED
  BY <1>1, <1>2, <1>3 DEF Work, Push, ReadManifest, Attest, PushChart, CreateRelease, At

\* What a call owes a registry it still owes, if neither of them is touched.
LEMMA OwesKept ==
    ASSUME NEW d \in Call, NEW r \in Registry, Owes(d, r),
           status'[d] = status[d], todo'[d] = todo[d], seen'[d] = seen[d], tags'[r] = tags[r]
    PROVE  Owes(d, r)'
BY DEF Owes, Has, At, Place

\* Every step keeps what is named attested, or to be attested.
LEMMA TagInvariant ==
    ASSUME TypeOK, InputInv, RunInv, TagInv, [Next]_vars
    PROVE  TagInv'
<1> SUFFICES ASSUME NEW r \in Registry, tags'[r] # NoImage
             PROVE  IsAttested(r)' \/ \E c \in Call : Pushes(c, r)' /\ Owes(c, r)'
  BY DEF TagInv
<1>1. ASSUME tags'[r] = tags[r]
      PROVE  IsAttested(r) \/ \E c \in Call : Pushes(c, r) /\ Owes(c, r)
  BY <1>1 DEF TagInv
<1>2. ASSUME embeds' = embeds, attested \subseteq attested', tags'[r] = tags[r], IsAttested(r)
      PROVE  IsAttested(r)'
  BY <1>2 DEF IsAttested
<1>3. ASSUME UNCHANGED <<stable, embeds, args, status, todo, runs, seen>>, tags'[r] = tags[r],
             NEW d \in Call, Pushes(d, r), Owes(d, r)
      PROVE  Pushes(d, r)' /\ Owes(d, r)'
  BY <1>3, OwesKept DEF Pushes, AllImages
<1>4. CASE UNCHANGED vars
  BY <1>1, <1>2, <1>3, <1>4 DEF vars
<1>5. CASE SecureBuild \/ SecureBuildFails \/ RerunSecureBuild
  <2>1. UNCHANGED <<stable, embeds, args, status, todo, runs, seen>> /\ attested \subseteq attested'
    BY <1>5, SecureBuildMoves DEF inputs
  <2>2. tags'[r] = tags[r] \/ IsAttested(r)'
    BY <1>5, SecureBuildMoves DEF IsAttested, ReleaseRegistry, inputs
  <2> QED
    BY <1>1, <1>2, <1>3, <2>1, <2>2
<1>6. ASSUME NEW c \in Call, Start(c)
      PROVE  IsAttested(r)' \/ \E d \in Call : Pushes(d, r)' /\ Owes(d, r)'
  <2>1. UNCHANGED <<embeds, tags, attested, seen>>
    BY <1>6 DEF Start, inputs, published
  <2>2. ASSUME NEW d \in Call, Pushes(d, r), Owes(d, r), d # c
        PROVE  Pushes(d, r)' /\ Owes(d, r)'
    BY <1>6, <2>1, <2>2, PushesKept, OwesKept DEF Start, TypeOK
  <2>3. ASSUME Pushes(c, r) PROVE Pushes(c, r)' /\ Owes(c, r)'
    <3>1. status[c] = "failed" /\ ~Refused(c)
      BY <1>6, <2>3 DEF Start, Pushes, RunInv, Ran
    <3>2. todo'[c] = Publish(c)
      BY <1>6, <3>1 DEF Start, TypeOK
    <3>3. Has(Publish(c), Task("manifest", r))
      BY <2>3, PushedIsIn, Published DEF Pushes
    <3> QED
      BY <1>6, <2>3, <3>2, <3>3, PushesKept DEF Owes, Has
  <2> QED
    BY <1>1, <1>2, <2>1, <2>2, <2>3
<1>7. ASSUME NEW c \in Call, Work(c)
      PROVE  IsAttested(r)' \/ \E d \in Call : Pushes(d, r)' /\ Owes(d, r)'
  <2>1. embeds' = embeds /\ attested \subseteq attested'
    BY <1>7, WorkMoves
  <2>2. ASSUME tags'[r] = tags[r], NEW d \in Call, d # c, Pushes(d, r), Owes(d, r)
        PROVE  Pushes(d, r)' /\ Owes(d, r)'
    BY <1>7, <2>2, WorkMoves, PushesKept, OwesKept
  <2>3. ASSUME Pushes(c, r), status'[c] = "failed" PROVE Pushes(c, r)' /\ Owes(c, r)'
    BY <1>7, <2>3, PushesKept DEF Owes
  <2>4. ASSUME tags'[r] # tags[r]
        PROVE  Pushes(c, r)' /\ Owes(c, r)'
    <3>1. Push(c) /\ r = Place(c) /\ At(c, "push")
      BY <1>7, <2>4, WorkPublishes DEF Push
    <3>2. Pushes(c, r) /\ todo[c][1] = Task("push", r) /\ todo[c] \in Seq(Tasks) /\ todo[c] # <<>>
      BY <3>1, AtHead DEF ImageWork
    <3>3. Has(Tail(todo[c]), Task("manifest", r))
      BY <3>2, AfterFirst DEF RunInv
    <3>4. CASE status'[c] # "failed"
      BY <1>7, <3>2, <3>3, <3>4, DoesTask, PushesKept DEF Owes, Has
    <3> QED
      BY <2>3, <3>2, <3>4
  <2>5. ASSUME tags'[r] = tags[r], Pushes(c, r), Owes(c, r), status'[c] # "failed"
        PROVE  IsAttested(r)' \/ (Pushes(c, r)' /\ Owes(c, r)')
    <3>1. /\ todo[c] # <<>> /\ todo'[c] = Tail(todo[c]) /\ status[c] = "running"
          /\ todo[c] \in Seq(Tasks)
      BY <1>7, <2>5, DoesTask, WorkMoves DEF TypeOK
    <3>2. Pushes(c, r)'
      BY <1>7, <2>5, PushesKept
    <3>3. CASE At(c, "attest") /\ Place(c) = r /\ seen[c] = tags[r]
      BY <1>7, <2>1, <2>5, <3>3, DoesTask, AttestAttests DEF IsAttested
    <3>4. CASE Has(Tail(todo[c]), Task("manifest", r))
      BY <3>1, <3>2, <3>4 DEF Owes, Has
    <3>5. ASSUME todo[c][1] = Task("manifest", r) PROVE Owes(c, r)'
      <4>1. At(c, "manifest") /\ Place(c) = r
        BY <3>1, <3>5 DEF At, Place, Task
      <4>2. ReadManifest(c) /\ seen'[c] = tags'[r] /\ status'[c] = "running"
        BY <1>7, <2>5, <4>1, <3>1, DoesTask DEF ReadManifest, TypeOK
      <4>3. Tail(todo[c]) # <<>> /\ Head(Tail(todo[c])) = Task("attest", r)
        BY <3>1, <3>5, AfterFirst DEF RunInv
      <4> QED
        BY <3>1, <4>2, <4>3 DEF Owes, At, Place, Task
    <3>6. CASE Has(todo[c], Task("manifest", r))
      BY <3>1, <3>2, <3>4, <3>5, <3>6, AfterFirst DEF RunInv
    <3> QED
      BY <2>5, <3>1, <3>3, <3>6 DEF Owes
  <2> QED
    BY <1>1, <1>2, <2>1, <2>2, <2>3, <2>4, <2>5
<1> QED
  BY <1>4, <1>5, <1>6, <1>7 DEF Next

\* What comes before the second task of a whole list.
LEMMA BeforeSecond ==
    ASSUME NEW s \in Seq(Tasks), s # <<>>, Whole(s), Tail(s) # <<>>
    PROVE  LET t == Head(Tail(s)) IN
           /\ t.do = "manifest" => s[1] = Task("push", t.at)
           /\ t.do = "attest" => s[1] = Task("manifest", t.at)
<1>1. /\ Len(s) \in Nat /\ Tail(s) \in Seq(Tasks) /\ Len(Tail(s)) = Len(s) - 1
      /\ \A i \in 1..Len(Tail(s)) : Tail(s)[i] = s[i + 1]
  BY HeadTailProperties, LenProperties
<1>2. Len(Tail(s)) \in Nat /\ Len(Tail(s)) > 0
  BY <1>1, EmptySeq
<1>3. ASSUME NEW t \in Seq(Tasks), t # <<>> PROVE Head(t) = t[1]
  BY <1>3, HeadTailProperties, LenProperties, EmptySeq
<1>4. 2 \in 1..Len(s) /\ Head(Tail(s)) = s[2]
  BY <1>1, <1>2, <1>3
<1>5. s[2].do = "manifest" => s[2 - 1] = Task("push", s[2].at)
  BY <1>4 DEF Whole
<1>6. s[2].do = "attest" => s[2 - 1] = Task("manifest", s[2].at)
  BY <1>4 DEF Whole
<1> QED
  BY <1>4, <1>5, <1>6

\* A call that is alone in a registry after a step was alone there before it.
LEMMA SoleBefore ==
    ASSUME TypeOK, RunInv, NEW c \in Call, Start(c) \/ Work(c),
           NEW d \in Call, NEW r, Pushes(d, r), Sole(d, r)'
    PROVE  Sole(d, r)
BY PushesKept DEF Sole

\* An attestation goes on being signed as it should be.
LEMMA SignedKept ==
    ASSUME TypeOK, RunInv, NEW c \in Call, Start(c) \/ Work(c), NEW a, Signed(a)
    PROVE  Signed(a)'
<1>1. stable' = stable
  BY WorkMoves DEF Start, inputs
<1>2. ASSUME NEW d \in Call, Pushes(d, a.at), a.key = Key(d), Sole(d, a.at) => a.sbom = a.image
      PROVE  Signed(a)'
  <2>1. Pushes(d, a.at)' /\ Key(d)' = Key(d)
    BY <1>2, PushesKept
  <2>2. Sole(d, a.at)' => a.sbom = a.image
    BY <1>2, SoleBefore
  <2> QED
    BY <1>2, <2>1, <2>2 DEF Signed
<1> QED
  BY <1>1, <1>2 DEF Signed

\* Every step keeps the attestations signed as they should be.
LEMMA SignInvariant ==
    ASSUME TypeOK, InputInv, RunInv, SignInv, [Next]_vars
    PROVE  SignInv'
<1>1. ASSUME UNCHANGED <<stable, embeds, args, status, runs>>, NEW a, Signed(a)
      PROVE  Signed(a)'
  BY <1>1 DEF Signed, Sole, Pushes, AllImages, Key
<1>2. ASSUME UNCHANGED <<stable, embeds, args, status, todo, runs, seen>>, NEW d \in Call,
             At(d, "manifest") => tags'[Place(d)] = tags[Place(d)]
      PROVE  FindsOwn(d)'
  <2>1. \A r : Sole(d, r)' <=> Sole(d, r)
    BY <1>2 DEF Sole, Pushes, AllImages
  <2>2. FindsOwn(d)
    BY DEF SignInv
  <2> QED
    BY <1>2, <2>1, <2>2 DEF FindsOwn, At, Place, Image
<1>3. CASE UNCHANGED vars
  BY <1>1, <1>2, <1>3 DEF vars, SignInv
<1>4. CASE SecureBuild \/ SecureBuildFails \/ RerunSecureBuild
  <2>1. UNCHANGED <<stable, embeds, args, status, todo, runs, seen>> /\ stable
    BY <1>4, SecureBuildMoves DEF inputs
  <2>2. ASSUME NEW a \in attested' PROVE Signed(a)'
    <3>1. a \in attested \/ (a.key = "securebuild" /\ a.sbom = a.image)
      BY <1>4, SecureBuildMoves
    <3> QED
      BY <1>1, <2>1, <3>1 DEF Signed, SignInv
  <2>3. ASSUME NEW d \in Call, At(d, "manifest") PROVE tags'[Place(d)] = tags[Place(d)]
    <3>1. Pushes(d, Place(d)) /\ Place(d) \in Registry
      BY <2>3, AtHead DEF ImageWork
    <3>2. Place(d) = "ttl.sh"
      BY <2>1, <3>1, StablePushes DEF ReleaseRegistry
    <3> QED
      BY <1>4, <3>2, SecureBuildMoves
  <2> QED
    BY <1>2, <2>1, <2>2, <2>3 DEF SignInv
\* A call other than the one that steps.
<1>5. ASSUME NEW c \in Call, Start(c) \/ Work(c), NEW d \in Call, d # c,
             status'[d] = status[d], todo'[d] = todo[d], seen'[d] = seen[d], runs'[d] = runs[d],
             \A r \in Registry : tags'[r] # tags[r] => Push(c) /\ r = Place(c)
      PROVE  FindsOwn(d)'
  <2>1. \A do : At(d, do)' <=> At(d, do)
    BY <1>5 DEF At
  <2>2. Place(d)' = Place(d) /\ Image(d)' = Image(d)
    BY <1>5 DEF Place, Image
  <2>3. FindsOwn(d)
    BY DEF SignInv
  <2>4. ASSUME At(d, "manifest"), Sole(d, Place(d))'
        PROVE  tags'[Place(d)] = Image(d)
    <3>1. Pushes(d, Place(d)) /\ Place(d) \in Registry
      BY <2>4, AtHead DEF ImageWork
    <3>2. Sole(d, Place(d))
      BY <1>5, <2>2, <2>4, <3>1, SoleBefore
    <3>3. Push(c) => Pushes(c, Place(c))
      BY AtHead DEF Push, ImageWork
    <3>4. tags'[Place(d)] = tags[Place(d)]
      BY <1>5, <3>1, <3>2, <3>3 DEF Sole
    <3> QED
      BY <2>3, <2>4, <3>2, <3>4 DEF FindsOwn
  <2>5. ASSUME At(d, "attest"), Sole(d, Place(d))'
        PROVE  seen'[d] = Image(d)
    <3>1. Pushes(d, Place(d))
      BY <2>5, AtHead DEF ImageWork
    <3>2. Sole(d, Place(d))
      BY <1>5, <2>2, <2>5, <3>1, SoleBefore
    <3> QED
      BY <1>5, <2>3, <2>5, <3>2 DEF FindsOwn
  <2> QED
    BY <2>1, <2>2, <2>4, <2>5 DEF FindsOwn
<1>6. ASSUME NEW c \in Call, Start(c) PROVE SignInv'
  <2>1. UNCHANGED <<tags, attested, seen>>
    BY <1>6 DEF Start, published
  <2>2. \A d \in Call : d # c => status'[d] = status[d] /\ todo'[d] = todo[d] /\ runs'[d] = runs[d]
    BY <1>6 DEF Start, TypeOK
  <2>3. FindsOwn(c)'
    <3>1. /\ status'[c] = IF Refused(c) THEN "refused" ELSE "running"
          /\ todo'[c] = IF Refused(c) THEN <<>> ELSE Publish(c)
      BY <1>6 DEF Start, TypeOK
    <3>2. Publish(c) \in Seq(Tasks) /\ Begins(Publish(c))
      BY Published
    <3>3. Publish(c) # <<>> => Head(Publish(c)).do \notin {"manifest", "attest"}
      BY <3>2, HeadTailProperties, LenProperties, EmptySeq DEF Begins
    <3> QED
      BY <3>1, <3>3 DEF FindsOwn, At
  <2>4. \A a \in attested' : Signed(a)'
    BY <1>6, <2>1, SignedKept DEF SignInv
  <2> QED
    BY <1>5, <1>6, <2>1, <2>2, <2>3, <2>4 DEF SignInv
<1>7. ASSUME NEW c \in Call, Work(c) PROVE SignInv'
  <2>1. /\ UNCHANGED runs
        /\ \A d \in Call : d # c => todo'[d] = todo[d] /\ status'[d] = status[d] /\ seen'[d] = seen[d]
    BY <1>7, WorkMoves
  <2>2. \A r \in Registry : tags'[r] # tags[r] => Push(c) /\ r = Place(c)
    BY <1>7, WorkPublishes
  <2>3. FindsOwn(c)
    BY DEF SignInv
  <2>4. ASSUME NEW a \in attested' PROVE Signed(a)'
    <3>1. CASE a \in attested
      BY <1>7, <3>1, SignedKept DEF SignInv
    <3>2. CASE a \notin attested
      <4>1. Attest(c) /\ At(c, "attest")
        BY <1>7, <2>4, <3>2 DEF Work, Push, ReadManifest, Attest, PushChart, CreateRelease, Fail, published
      <4>2. /\ a.at = Place(c) /\ a.image = seen[c] /\ a.key = Key(c) /\ a.sbom = Image(c)
        BY <2>4, <3>2, <4>1 DEF Attest, Attested, Attestation
      <4>3. Pushes(c, a.at)
        BY <4>1, <4>2, AtHead DEF ImageWork
      <4>4. Pushes(c, a.at)' /\ Key(c)' = Key(c)
        BY <1>7, <4>3, PushesKept
      <4>5. Sole(c, a.at)' => a.sbom = a.image
        BY <1>7, <2>3, <4>1, <4>2, <4>3, SoleBefore DEF FindsOwn
      <4> QED
        BY <4>2, <4>4, <4>5 DEF Signed
    <3> QED
      BY <3>1, <3>2
  <2>5. FindsOwn(c)'
    <3>1. CASE todo'[c] = <<>>
      BY <3>1 DEF FindsOwn, At
    <3>2. CASE todo'[c] # <<>>
      <4>1. /\ todo[c] # <<>> /\ todo[c] \in Seq(Tasks) /\ todo'[c] = Tail(todo[c])
            /\ status[c] = "running" /\ Whole(todo[c])
        BY <1>7, <3>2, FirstIsDone, WorkMoves DEF RunInv
      <4>0. PICK t : t = Head(todo'[c])
        OBVIOUS
      <4>2. /\ t.do = "manifest" => todo[c][1] = Task("push", t.at)
            /\ t.do = "attest" => todo[c][1] = Task("manifest", t.at)
        BY <3>2, <4>0, <4>1, BeforeSecond
      <4>3. Image(c)' = Image(c) /\ Place(c)' = t.at /\ \A do : At(c, do)' => t.do = do
        BY <2>1, <4>0 DEF Image, Place, At
      <4>4. ASSUME t.do = "manifest" PROVE tags'[t.at] = Image(c)
        BY <1>7, <3>2, <4>2, <4>4, FirstIsDone, WorkPublishes
      <4>5. ASSUME t.do = "attest", Sole(c, t.at)' PROVE seen'[c] = Image(c)
        <5>1. ReadManifest(c) /\ t.at = Place(c) /\ At(c, "manifest")
          BY <1>7, <3>2, <4>2, <4>5, FirstIsDone DEF ReadManifest
        <5>2. Pushes(c, t.at)
          BY <5>1, AtHead DEF ImageWork
        <5>3. Sole(c, t.at)
          BY <1>7, <4>5, <5>2, SoleBefore
        <5>4. seen'[c] = tags[Place(c)]
          BY <5>1 DEF ReadManifest, TypeOK
        <5> QED
          BY <2>3, <5>1, <5>3, <5>4 DEF FindsOwn
      <4> QED
        BY <4>3, <4>4, <4>5 DEF FindsOwn
    <3> QED
      BY <3>1, <3>2
  <2> QED
    BY <1>5, <1>7, <2>1, <2>2, <2>4, <2>5 DEF SignInv
<1> QED
  BY <1>3, <1>4, <1>6, <1>7 DEF Next

-----------------------------------------------------------------------------
\* At the start nothing was run and nothing is there.
LEMMA InitInvariant == Init => TypeOK /\ IInv
<1> SUFFICES ASSUME Init PROVE TypeOK /\ IInv
  OBVIOUS
<1> USE ReleaseAssumption
<1>1. /\ stable \in BOOLEAN /\ embeds \in BOOLEAN /\ ~release /\ release \in BOOLEAN /\ failures = 0
      /\ attested = {} /\ charts = {} /\ runs = [c \in Call |-> 0]
  BY Zenon DEF Init
<1>2. (stable => securing = "package") /\ (~stable => securing = "done")
  BY Zenon DEF Init
<1>3. PICK asked \in DeveloperArgs :
        args = [c \in Call |->
                   CASE c = "staging job" -> JobArgs("staging")
                     [] c = "production job" -> JobArgs("production")
                     [] c = "developer" -> asked]
  BY DEF Init
<1>4. /\ args["staging job"] = JobArgs("staging")
      /\ args["production job"] = JobArgs("production")
      /\ args["developer"] = asked
      /\ args = [c \in Call |-> args[c]]
  BY <1>3 DEF Call
<1>5. \A c \in Call : args[c] \in Args
  <2>1. \A e \in Env : JobArgs(e) \in Args
    BY DEF Init, JobArgs, Args
  <2>2. asked \in Args
    <3>1. {"dev", "staging"} \in SUBSET Env /\ {"dev"} \in SUBSET Env
      BY DEF Env
    <3>2. \A e \in SUBSET Env, skip \in BOOLEAN, given \in BOOLEAN :
            [envs |-> e, skipImage |-> skip, keyGiven |-> given] \in Args
      BY DEF Args
    <3>3. FALSE \in BOOLEAN /\ TRUE \in BOOLEAN
      OBVIOUS
    <3> QED
      BY <3>1, <3>2, <3>3, Zenon DEF DeveloperArgs
  <2> QED
    BY <1>4, <2>1, <2>2 DEF Call, Env
<1>6. <<>> \in Seq(Tasks) /\ NoImage \in Images
  BY EmptySeq DEF Images
<1>7. TypeOK
  <2>1. args \in [Call -> Args]
    BY <1>4, <1>5
  <2>2. stable \in BOOLEAN /\ embeds \in BOOLEAN /\ release \in BOOLEAN /\ failures \in 0..MaxFailures
    BY <1>1
  <2>3. securing \in Securing
    BY <1>2 DEF Securing
  <2>4. status \in [Call -> {"waiting", "running", "failed", "refused", "done"}]
    BY DEF Init
  <2>5. todo \in [Call -> Seq(Tasks)]
    BY <1>6 DEF Init
  <2>6. runs \in [Call -> 0..MaxRuns]
    BY <1>1
  <2>7. seen \in [Call -> Images] /\ tags \in [Registry -> Images]
    BY <1>6 DEF Init
  <2> QED
    BY <1>1, <2>1, <2>2, <2>3, <2>4, <2>5, <2>6, <2>7 DEF TypeOK
<1>8. \A c \in Call : status[c] = "waiting" /\ todo[c] = <<>> /\ runs[c] = 0
  BY DEF Init
<1>9. InputInv
  BY <1>3, <1>4 DEF InputInv
<1>10. RunInv
  BY <1>2, <1>8, WholeParts, EmptySeq DEF RunInv, Ran
<1>11. SecureInv
  BY <1>2 DEF SecureInv
<1>12. OrderInv
  BY <1>1, <1>8, EmptySeq DEF OrderInv, PartsInOrder
<1>13. TagInv
  BY DEF Init, TagInv
<1>14. SignInv
  BY <1>8 DEF Init, SignInv, FindsOwn, At
<1> QED
  BY <1>7, <1>9, <1>10, <1>11, <1>12, <1>13, <1>14 DEF IInv

\* The state keeps its types and the inductive invariant holds, for any number
\* of failures and of runs of the jobs (publish.go, publish.yml).
THEOREM Invariance == Spec => [](TypeOK /\ IInv)
<1>1. TypeOK /\ IInv /\ [Next]_vars => (TypeOK /\ IInv)'
  BY InputInvariant, TypeInvariant, RunInvariant, SecureInvariant, OrderInvariant,
     TagInvariant, SignInvariant DEF IInv
<1> QED
  BY <1>1, InitInvariant, PTL DEF Spec

\* Nobody finds a chart before an attested image in the registry of its
\* environment, nor the GitHub release before the chart of production, whichever
\* calls failed and were run again (publish.go:51-157).
THEOREM PartsOrdered == Spec => []PartsInOrder
<1>1. IInv => PartsInOrder
  BY DEF IInv, OrderInv
<1> QED
  BY <1>1, Invariance, PTL

\* When all who push to a registry have come to their end, what the version
\* names there is attested, although they pushed at once and each attests what
\* it finds (image.go:142-152, 203-208, 249-311).
THEOREM TagsAttested == Spec => []TaggedIsAttested
<1>1. TypeOK /\ IInv => TaggedIsAttested
  <2> SUFFICES ASSUME TypeOK, RunInv, TagInv, NEW r \in Registry, tags[r] # NoImage,
                      \A c \in Call : Pushes(c, r) => status[c] = "done",
                      NEW c \in Call, Pushes(c, r), Owes(c, r)
               PROVE  FALSE
    BY DEF TaggedIsAttested, TagInv, IInv
  <2>1. status[c] = "done" /\ todo[c] = <<>>
    BY DEF RunInv
  <2> QED
    BY <2>1, EmptySeq DEF Owes, Has, At
<1> QED
  BY <1>1, Invariance, PTL

\* What a registry attests is signed with the key of its environment, by
\* SecureBuild if the version is stable, and with the SBOM of the image it is
\* about where one call pushes (publish.go:80-138, image.go:154-192, 239-311).
THEOREM SignedRight == Spec => []SignedForItsRegistry
<1>1. TypeOK /\ IInv => SignedForItsRegistry
  <2> SUFFICES ASSUME TypeOK, InputInv, RunInv, SignInv, NEW a \in attested
               PROVE  LET pushers == {c \in Call : Pushes(c, a.at)}
                      IN  /\ stable /\ a.at \in ReleaseRegistry => a.key = "securebuild"
                          /\ ~stable /\ a.at \in ChartEnv /\ pushers = {JobOf(a.at)} => a.key = a.at
                          /\ (\A c, d \in pushers : c = d) => a.sbom = a.image
    BY DEF SignedForItsRegistry, IInv
  <2> DEFINE pushers == {c \in Call : Pushes(c, a.at)}
  <2>1. Signed(a)
    BY DEF SignInv
  <2>2. CASE stable /\ a.key = "securebuild" /\ a.sbom = a.image
    BY <2>2
  <2>3. ASSUME NEW c \in Call, Pushes(c, a.at), a.key = Key(c), Sole(c, a.at) => a.sbom = a.image
        PROVE  /\ stable /\ a.at \in ReleaseRegistry => FALSE
               /\ ~stable /\ a.at \in ChartEnv /\ pushers = {JobOf(a.at)} => a.key = a.at
               /\ (\A d, e \in pushers : d = e) => a.sbom = a.image
    <3>1. stable /\ a.at \in ReleaseRegistry => FALSE
      BY <2>3, StablePushes
    <3>2. ASSUME a.at \in ChartEnv, pushers = {JobOf(a.at)} PROVE Key(c) = a.at
      <4>1. c = JobOf(a.at)
        BY <2>3, <3>2
      <4>2. args[c] = JobArgs(a.at)
        BY <3>2, <4>1 DEF ChartEnv, JobOf, InputInv
      <4>3. args[c].envs = {a.at} /\ args[c].keyGiven = FALSE
        BY <4>2 DEF JobArgs
      <4> QED
        BY <3>2, <4>3 DEF Key, ChartEnv
    <3>3. (\A d, e \in pushers : d = e) => a.sbom = a.image
      BY <2>3 DEF Sole
    <3> QED
      BY <2>3, <3>1, <3>2, <3>3
  <2> QED
    BY <2>1, <2>2, <2>3 DEF Signed
<1> QED
  BY <1>1, Invariance, PTL

=============================================================================
