------------------------- MODULE LockTargetsProofs -------------------------
(* Two workspaces of one backend never share a lock unless they are the same  *)
(* state, whatever characters their names are made of.                        *)
EXTENDS LockTargets, SequenceTheorems, TLAPS

-----------------------------------------------------------------------------
(* Texts *)

LEMMA OneFragment ==
    ASSUME NEW s \in Fragments
    PROVE  <<s>> \in Text /\ Len(<<s>>) = 1 /\ <<s>> # <<>>
  BY DEF Text

LEMMA Fragment ==
    \A s \in Own : <<s>> \in Text /\ Len(<<s>>) = 1 /\ <<s>> # <<>>
  BY OneFragment, FragmentsAssumption

LEMMA Concat ==
    ASSUME NEW s \in Text, NEW t \in Text
    PROVE  /\ s \o t \in Text
           /\ Len(s) \in Nat /\ Len(t) \in Nat /\ Len(s \o t) = Len(s) + Len(t)
  BY ConcatProperties, LenProperties DEF Text

LEMMA NotEmpty == \A s \in Text : s # <<>> => Len(s) > 0
  BY EmptySeq DEF Text

LEMMA CancelFront == \A s, t, v \in Text : s \o t = s \o v => t = v
  BY ConcatSimplifications, Zenon DEF Text

LEMMA CancelBack == \A s, t, v \in Text : s \o v = t \o v => s = t
  BY ConcatSimplifications, Zenon DEF Text

LEMMA SlashIsText ==
    ASSUME NEW a \in Text, NEW b \in Text
    PROVE  /\ Slash(a, b) \in Text
           /\ Len(Slash(a, b)) =
                 Len(a) + Len(b) + (IF a = <<>> \/ b = <<>> THEN 0 ELSE 1)
<1>1. CASE a = <<>> \/ b = <<>>
  BY <1>1, Concat DEF Slash
<1>2. CASE ~(a = <<>> \/ b = <<>>)
  <2>1. <<"/">> \in Text /\ Len(<<"/">>) = 1
    BY Fragment DEF Own
  <2>2. /\ a \o <<"/">> \in Text /\ Len(a \o <<"/">>) = Len(a) + 1
    BY <2>1, Concat
  <2>3. /\ a \o <<"/">> \o b \in Text
        /\ Len(a \o <<"/">> \o b) = Len(a) + 1 + Len(b)
    BY <2>2, Concat
  <2>4. QED
    BY <1>2, <2>3, Concat DEF Slash
<1>3. QED
  BY <1>1, <1>2

\* Behind the same directory, and in front of the same base.
LEMMA SlashCancels ==
    ASSUME NEW a \in Text, NEW b \in Text, NEW c \in Text, b # <<>>, c # <<>>
    PROVE  /\ Slash(a, b) = Slash(a, c) => b = c
           /\ a # <<>> /\ Slash(b, a) = Slash(c, a) => b = c
<1>1. <<"/">> \in Text
  BY Fragment DEF Own
<1>2. Slash(a, b) = Slash(a, c) => b = c
  <2>1. CASE a = <<>>
    BY <2>1, CancelFront DEF Slash
  <2>2. CASE a # <<>>
    <3>1. a \o <<"/">> \in Text
      BY <1>1, Concat
    <3>2. /\ Slash(a, b) = (a \o <<"/">>) \o b
          /\ Slash(a, c) = (a \o <<"/">>) \o c
      BY <2>2 DEF Slash
    <3>3. QED
      BY <3>1, <3>2, CancelFront
  <2>3. QED
    BY <2>1, <2>2
<1>3. ASSUME a # <<>>, Slash(b, a) = Slash(c, a)
      PROVE  b = c
  <2> DEFINE dir(x) == x \o <<"/">>
  <2>1. dir(b) \in Text /\ dir(c) \in Text
    BY <1>1, Concat
  <2>2. dir(b) \o a = dir(c) \o a
    BY <1>3 DEF Slash
  <2>3. dir(b) = dir(c) => b = c
    BY <1>1, CancelBack
  <2> HIDE DEF dir
  <2>4. dir(b) = dir(c)
    BY <2>1, <2>2, CancelBack
  <2>5. QED
    BY <2>3, <2>4
<1>4. QED
  BY <1>2, <1>3

-----------------------------------------------------------------------------
(* The ways to put a workspace into a name *)

Same(v, w) ==
    \/ v = w
    \/ IsDefault(v) /\ IsDefault(w)

\* With a default that stands for no name.
LEMMA OrDefault ==
    ASSUME NEW v \in Text
    PROVE  OrElse(v, Default) \in Text /\ OrElse(v, Default) # <<>>
  BY Fragment DEF OrElse, Default, Own

LEMMA OrDefaultApart ==
    ASSUME NEW v, NEW w, OrElse(v, Default) = OrElse(w, Default)
    PROVE  Same(v, w)
  BY DEF OrElse, Same, IsDefault

LEMMA NestedApart ==
    ASSUME NEW prefix \in Text, NEW key \in Text, key # <<>>,
           NEW v \in Text, NEW w \in Text,
           Nested(prefix, v, key) = Nested(prefix, w, key)
    PROVE  Same(v, w)
<1>1. ASSUME NEW x \in Text, ~IsDefault(x)
      PROVE  /\ x # <<>>
             /\ Slash(prefix, x) \in Text /\ Slash(prefix, x) # <<>>
             /\ Len(Slash(Slash(prefix, x), key)) > Len(Slash(prefix, key))
  <2>1. x # <<>>
    BY <1>1 DEF IsDefault
  <2>2. /\ Len(x) > 0 /\ Len(x) \in Nat /\ Len(prefix) \in Nat
        /\ Len(key) \in Nat /\ Len(<<>>) = 0
    BY <2>1, NotEmpty, Concat
  <2>3. /\ Slash(prefix, x) \in Text
        /\ Len(Slash(prefix, x)) = Len(prefix) + Len(x)
                                     + (IF prefix = <<>> THEN 0 ELSE 1)
    BY <2>1, SlashIsText
  <2>4. Slash(prefix, x) # <<>>
    BY <2>2, <2>3
  <2>5. Len(Slash(Slash(prefix, x), key)) = Len(Slash(prefix, x)) + Len(key) + 1
    BY <2>3, <2>4, SlashIsText
  <2>6. Len(Slash(prefix, key)) = Len(prefix) + Len(key)
                                     + (IF prefix = <<>> THEN 0 ELSE 1)
    BY SlashIsText
  <2>7. QED
    BY <2>1, <2>2, <2>3, <2>4, <2>5, <2>6
<1>2. CASE IsDefault(v) /\ IsDefault(w)
  BY <1>2 DEF Same
<1>3. CASE ~(IsDefault(v) <=> IsDefault(w))
  <2>1. /\ IsDefault(v) => Nested(prefix, v, key) = Slash(prefix, key)
        /\ ~IsDefault(v) =>
              Nested(prefix, v, key) = Slash(Slash(prefix, v), key)
        /\ IsDefault(w) => Nested(prefix, w, key) = Slash(prefix, key)
        /\ ~IsDefault(w) =>
              Nested(prefix, w, key) = Slash(Slash(prefix, w), key)
    BY DEF Nested
  <2>2. \A n \in Nat : ~(n > n)
    OBVIOUS
  <2>3. Len(Slash(prefix, key)) \in Nat
    BY SlashIsText, Concat
  <2>4. QED
    BY <1>1, <1>3, <2>1, <2>2, <2>3
<1>4. CASE ~IsDefault(v) /\ ~IsDefault(w)
  <2>1. Slash(Slash(prefix, v), key) = Slash(Slash(prefix, w), key)
    BY <1>4 DEF Nested
  <2>2. Slash(prefix, v) = Slash(prefix, w)
    BY <1>1, <1>4, <2>1, SlashCancels
  <2>3. v = w
    BY <1>1, <1>4, <2>2, SlashCancels
  <2>4. QED
    BY <2>3 DEF Same
<1>5. QED
  BY <1>2, <1>3, <1>4

LEMMA OCIObjectApart ==
    ASSUME NEW prefix \in Text, prefix # <<>>, NEW key \in Text, key # <<>>,
           NEW v \in Text, NEW w \in Text,
           OCIObject(prefix, v, key) = OCIObject(prefix, w, key)
    PROVE  Same(v, w)
<1>1. ASSUME NEW x \in Text, ~IsDefault(x)
      PROVE  Nested(prefix, x, key) # key
  <2>1. x # <<>>
    BY <1>1 DEF IsDefault
  <2>2. /\ Len(x) > 0 /\ Len(x) \in Nat /\ Len(prefix) \in Nat
        /\ Len(key) \in Nat /\ Len(<<>>) = 0
    BY <2>1, NotEmpty, Concat
  <2>3. /\ Slash(prefix, x) \in Text
        /\ Len(Slash(prefix, x)) = Len(prefix) + Len(x) + 1
    BY <2>1, SlashIsText
  <2>4. Slash(prefix, x) # <<>>
    BY <2>2, <2>3
  <2>5. Len(Slash(Slash(prefix, x), key)) = Len(Slash(prefix, x)) + Len(key) + 1
    BY <2>3, <2>4, SlashIsText
  <2>6. QED
    BY <1>1, <2>2, <2>3, <2>5 DEF Nested
<1>2. QED
  BY <1>1, NestedApart DEF OCIObject, Same

LEMMA SuffixedApart ==
    ASSUME NEW key \in Text, NEW mark \in Own, NEW v \in Text, NEW w \in Text,
           Suffixed(key, mark, v) = Suffixed(key, mark, w)
    PROVE  Same(v, w)
<1>1. <<mark>> \in Text /\ Len(<<mark>>) = 1
  BY Fragment DEF Own
<1>2. key \o <<mark>> \in Text /\ Len(key \o <<mark>>) = Len(key) + 1
  BY <1>1, Concat
<1>3. ASSUME NEW x \in Text
      PROVE  key \o <<mark>> \o x # key
  <2>1. Len(key \o <<mark>> \o x) = Len(key) + 1 + Len(x)
    BY <1>2, Concat
  <2>2. Len(key) \in Nat /\ Len(x) \in Nat
    BY Concat
  <2>3. QED
    BY <2>1, <2>2
<1>4. key \o <<mark>> \o v = key \o <<mark>> \o w => v = w
  BY <1>2, CancelFront
<1>5. QED
  BY <1>3, <1>4 DEF Suffixed, Same

LEMMA S3KeyApart ==
    ASSUME NEW key \in Text, NEW prefix \in Text,
           NEW v \in Text, NEW w \in Text,
           S3Key(key, v, prefix) = S3Key(key, w, prefix)
    PROVE  Same(v, w)
<1> DEFINE front == OrElse(prefix, <<"env:">>) \o <<"/">>
<1>1. front \in Text
  BY Fragment, Concat DEF OrElse, Own
<1> HIDE DEF front
<1>2. <<"/">> \in Text /\ Len(<<"/">>) = 1
  BY Fragment DEF Own
<1>3. ASSUME NEW x \in Text
      PROVE  /\ front \o x \in Text /\ (front \o x) \o <<"/">> \in Text
             /\ ((front \o x) \o <<"/">>) \o key # key
  <2>1. front \o x \in Text
    BY <1>1, Concat
  <2>2. /\ (front \o x) \o <<"/">> \in Text
        /\ Len((front \o x) \o <<"/">>) = Len(front \o x) + 1
        /\ Len(front \o x) \in Nat
    BY <1>2, <2>1, Concat
  <2>3. Len(((front \o x) \o <<"/">>) \o key) = Len(front \o x) + 1 + Len(key)
    BY <2>2, Concat
  <2>4. Len(key) \in Nat
    BY Concat
  <2>5. QED
    BY <2>1, <2>2, <2>3, <2>4
<1>4. ASSUME ((front \o v) \o <<"/">>) \o key = ((front \o w) \o <<"/">>) \o key
      PROVE  v = w
  <2> DEFINE dir(x) == (front \o x) \o <<"/">>
  <2>1. dir(v) \in Text /\ dir(w) \in Text
    BY <1>3
  <2>2. dir(v) \o key = dir(w) \o key
    BY <1>4
  <2>3. dir(v) = dir(w) => front \o v = front \o w
    BY <1>2, <1>3, CancelBack
  <2> HIDE DEF dir
  <2>4. dir(v) = dir(w)
    BY <2>1, <2>2, CancelBack
  <2>5. QED
    BY <1>1, <2>3, <2>4, CancelFront
<1>5. /\ S3Key(key, v, prefix) =
            IF IsDefault(v) THEN key ELSE ((front \o v) \o <<"/">>) \o key
      /\ S3Key(key, w, prefix) =
            IF IsDefault(w) THEN key ELSE ((front \o w) \o <<"/">>) \o key
  BY DEF S3Key, front
<1>6. QED
  BY <1>3, <1>4, <1>5 DEF Same

-----------------------------------------------------------------------------
(* The backends *)

\* One configuration with two workspaces.
Siblings(c, d) ==
    /\ c.type = d.type /\ c.config = d.config /\ c.dir = d.dir
    /\ c.dir \in Text /\ c.workspace \in Text /\ d.workspace \in Text
    /\ \A n : Get(c.config, n) \in Text

Apart(c, d) == Same(c.workspace, d.workspace)

\* What a named lock has.
LEMMA NamedByTwo ==
    ASSUME NEW a, NEW b, NEW name, Named(<<a, b>>, name) # NoTarget
    PROVE  a # <<>> /\ b # <<>> /\ Named(<<a, b>>, name) = name
  BY DEF Named, NoTarget

LEMMA NamedByOne ==
    ASSUME NEW a, NEW name, Named(<<a>>, name) # NoTarget
    PROVE  a # <<>> /\ Named(<<a>>, name) = name
  BY DEF Named, NoTarget

LEMMA NamedByThree ==
    ASSUME NEW a, NEW b, NEW c, NEW name, Named(<<a, b, c>>, name) # NoTarget
    PROVE  /\ a # <<>> /\ b # <<>> /\ c # <<>>
           /\ Named(<<a, b, c>>, name) = name
  BY DEF Named, NoTarget

LEMMA NamedByFour ==
    ASSUME NEW a, NEW b, NEW c, NEW d, NEW name,
           Named(<<a, b, c, d>>, name) # NoTarget
    PROVE  Named(<<a, b, c, d>>, name) = name
  BY DEF Named, NoTarget

\* An attribute with a default that is a text.
LEMMA AttributeText ==
    ASSUME NEW c, NEW d, Siblings(c, d), NEW n, NEW s \in Own
    PROVE  /\ OrElse(Get(c.config, n), <<s>>) \in Text
           /\ OrElse(Get(c.config, n), <<s>>) # <<>>
  BY Fragment DEF Siblings, OrElse

LEMMA NestedIsText ==
    ASSUME NEW prefix \in Text, NEW v \in Text, NEW key \in Text
    PROVE  Nested(prefix, v, key) \in Text
<1>1. Slash(prefix, v) \in Text
  BY SlashIsText
<1>2. QED
  BY <1>1, SlashIsText DEF Nested

LEMMA S3Apart ==
    ASSUME NEW c, NEW d, Siblings(c, d), S3LockTarget(c) # NoTarget,
           S3LockTarget(c) = S3LockTarget(d)
    PROVE  Apart(c, d)
<1> DEFINE bucket == Get(c.config, "bucket")
           key    == Get(c.config, "key")
           prefix == Get(c.config, "workspace_key_prefix")
           name(w) == <<bucket, S3Key(key, w, prefix)>>
<1>1. /\ S3LockTarget(c) = Named(<<bucket, key>>, name(c.workspace))
      /\ S3LockTarget(d) = Named(<<bucket, key>>, name(d.workspace))
  BY DEF S3LockTarget, UsesLockfile, UsesTable, Siblings
<1>2. S3Key(key, c.workspace, prefix) = S3Key(key, d.workspace, prefix)
  <2>1. /\ Named(<<bucket, key>>, name(c.workspace)) # NoTarget
        /\ Named(<<bucket, key>>, name(c.workspace)) =
              Named(<<bucket, key>>, name(d.workspace))
    BY <1>1
  <2>2. name(c.workspace) = name(d.workspace)
    <3> HIDE DEF name, bucket, key
    <3>1. QED
      BY <2>1, NamedByTwo
  <2>3. QED
    BY <2>2
<1>3. QED
  BY <1>2, S3KeyApart DEF Siblings, Apart

LEMMA GCSApart ==
    ASSUME NEW c, NEW d, Siblings(c, d), GCSLockTarget(c) # NoTarget,
           GCSLockTarget(c) = GCSLockTarget(d)
    PROVE  Apart(c, d)
<1> DEFINE bucket == Get(c.config, "bucket")
           prefix == Get(c.config, "prefix")
           object(w) == OrElse(w, Default) \o <<".tflock">>
           name(w) == <<bucket, Slash(prefix, object(w))>>
<1>1. /\ GCSLockTarget(c) = Named(<<bucket>>, name(c.workspace))
      /\ GCSLockTarget(d) = Named(<<bucket>>, name(d.workspace))
  BY DEF GCSLockTarget, Siblings
<1>2. Slash(prefix, object(c.workspace)) = Slash(prefix, object(d.workspace))
  <2>1. /\ Named(<<bucket>>, name(c.workspace)) # NoTarget
        /\ Named(<<bucket>>, name(c.workspace)) =
              Named(<<bucket>>, name(d.workspace))
    BY <1>1
  <2>2. name(c.workspace) = name(d.workspace)
    <3> HIDE DEF name, bucket
    <3>1. QED
      BY <2>1, NamedByOne
  <2>3. QED
    BY <2>2
<1>3. ASSUME NEW w \in Text
      PROVE  object(w) \in Text /\ object(w) # <<>>
  <2>1. <<".tflock">> \in Text /\ Len(<<".tflock">>) = 1 /\ Len(<<>>) = 0
    BY Fragment DEF Own
  <2>2. /\ object(w) \in Text /\ Len(object(w)) = Len(OrElse(w, Default)) + 1
        /\ Len(OrElse(w, Default)) \in Nat
    BY <2>1, OrDefault, Concat
  <2>3. QED
    BY <2>1, <2>2
<1>4. object(c.workspace) = object(d.workspace)
  <2>1. prefix \in Text /\ c.workspace \in Text /\ d.workspace \in Text
    BY DEF Siblings
  <2>2. /\ object(c.workspace) \in Text /\ object(c.workspace) # <<>>
        /\ object(d.workspace) \in Text /\ object(d.workspace) # <<>>
    BY <1>3, <2>1
  <2> HIDE DEF object
  <2>3. QED
    BY <1>2, <2>1, <2>2, SlashCancels
<1>5. OrElse(c.workspace, Default) = OrElse(d.workspace, Default)
  <2>1. <<".tflock">> \in Text
    BY Fragment DEF Own
  <2>2. QED
    BY <1>4, <2>1, OrDefault, CancelBack DEF Siblings
<1>6. QED
  BY <1>5, OrDefaultApart DEF Apart

LEMMA COSApart ==
    ASSUME NEW c, NEW d, Siblings(c, d), COSLockTarget(c) # NoTarget,
           COSLockTarget(c) = COSLockTarget(d)
    PROVE  Apart(c, d)
<1> DEFINE bucket == Get(c.config, "bucket")
           region == Get(c.config, "region")
           prefix == Get(c.config, "prefix")
           key    == OrElse(Get(c.config, "key"), <<"terraform.tfstate">>)
           object(w) == Nested(prefix, w, key)
           name(w) == <<bucket, region, object(w) \o <<".tflock">>>>
<1>1. /\ COSLockTarget(c) = Named(<<bucket, region>>, name(c.workspace))
      /\ COSLockTarget(d) = Named(<<bucket, region>>, name(d.workspace))
  BY DEF COSLockTarget, Siblings
<1>2. object(c.workspace) \o <<".tflock">>
        = object(d.workspace) \o <<".tflock">>
  <2>1. /\ Named(<<bucket, region>>, name(c.workspace)) # NoTarget
        /\ Named(<<bucket, region>>, name(c.workspace)) =
              Named(<<bucket, region>>, name(d.workspace))
    BY <1>1
  <2>2. name(c.workspace) = name(d.workspace)
    <3> HIDE DEF name, bucket, region
    <3>1. QED
      BY <2>1, NamedByTwo
  <2>3. QED
    BY <2>2
<1>3. key \in Text /\ key # <<>> /\ prefix \in Text
  BY AttributeText DEF Siblings, Own
<1>4. object(c.workspace) \in Text /\ object(d.workspace) \in Text
  BY <1>3, NestedIsText DEF Siblings
<1>5. object(c.workspace) = object(d.workspace)
  <2>1. <<".tflock">> \in Text
    BY Fragment DEF Own
  <2> HIDE DEF object
  <2>2. QED
    BY <1>2, <1>4, <2>1, CancelBack
<1>6. QED
  BY <1>3, <1>5, NestedApart DEF Siblings, Apart

LEMMA OCIApart ==
    ASSUME NEW c, NEW d, Siblings(c, d), OCILockTarget(c) # NoTarget,
           OCILockTarget(c) = OCILockTarget(d)
    PROVE  Apart(c, d)
<1> DEFINE bucket    == Get(c.config, "bucket")
           namespace == Get(c.config, "namespace")
           key    == OrElse(Get(c.config, "key"), <<"terraform.tfstate">>)
           prefix == OrElse(Get(c.config, "workspace_key_prefix"),
                            <<"tf-state-env">>)
           object(w) == OCIObject(prefix, w, key)
           name(w) == <<bucket, namespace, object(w) \o <<".lock">>>>
<1>1. /\ OCILockTarget(c) = Named(<<bucket, namespace>>, name(c.workspace))
      /\ OCILockTarget(d) = Named(<<bucket, namespace>>, name(d.workspace))
  BY DEF OCILockTarget, Siblings
<1>2. object(c.workspace) \o <<".lock">> = object(d.workspace) \o <<".lock">>
  <2>1. /\ Named(<<bucket, namespace>>, name(c.workspace)) # NoTarget
        /\ Named(<<bucket, namespace>>, name(c.workspace)) =
              Named(<<bucket, namespace>>, name(d.workspace))
    BY <1>1
  <2>2. name(c.workspace) = name(d.workspace)
    <3> HIDE DEF name, bucket, namespace
    <3>1. QED
      BY <2>1, NamedByTwo
  <2>3. QED
    BY <2>2
<1>3. key \in Text /\ key # <<>> /\ prefix \in Text /\ prefix # <<>>
  BY AttributeText DEF Siblings, Own
<1>4. object(c.workspace) \in Text /\ object(d.workspace) \in Text
  BY <1>3, NestedIsText DEF Siblings, OCIObject
<1>5. object(c.workspace) = object(d.workspace)
  <2>1. <<".lock">> \in Text
    BY Fragment DEF Own
  <2> HIDE DEF object
  <2>2. QED
    BY <1>2, <1>4, <2>1, CancelBack
<1>6. QED
  BY <1>3, <1>5, OCIObjectApart DEF Siblings, Apart

LEMMA OSSApart ==
    ASSUME NEW c, NEW d, Siblings(c, d), OSSLockTarget(c) # NoTarget,
           OSSLockTarget(c) = OSSLockTarget(d)
    PROVE  Apart(c, d)
<1> DEFINE table    == Get(c.config, "tablestore_table")
           bucket   == Get(c.config, "bucket")
           instance == Get(c.config, "tablestore_instance_name")
           endpoint == Get(c.config, "tablestore_endpoint")
           prefix   == OrElse(Get(c.config, "prefix"), <<"env:">>)
           key      == OrElse(Get(c.config, "key"), <<"terraform.tfstate">>)
           front    == bucket \o <<"/">>
           object(w) == Nested(prefix, w, key)
           name(w)  == <<table, instance, endpoint, front \o object(w)>>
<1>1. /\ OSSLockTarget(c) =
            Named(<<table, bucket, instance, endpoint>>, name(c.workspace))
      /\ OSSLockTarget(d) =
            Named(<<table, bucket, instance, endpoint>>, name(d.workspace))
  BY DEF OSSLockTarget, Siblings
<1>2. front \o object(c.workspace) = front \o object(d.workspace)
  <2>1. /\ Named(<<table, bucket, instance, endpoint>>, name(c.workspace))
              # NoTarget
        /\ Named(<<table, bucket, instance, endpoint>>, name(c.workspace)) =
              Named(<<table, bucket, instance, endpoint>>, name(d.workspace))
    BY <1>1
  <2>2. name(c.workspace) = name(d.workspace)
    <3> HIDE DEF name, table, bucket, instance, endpoint
    <3>1. QED
      BY <2>1, NamedByFour
  <2>3. QED
    BY <2>2
<1>3. key \in Text /\ key # <<>> /\ prefix \in Text /\ bucket \in Text
  BY AttributeText DEF Siblings, Own
<1>4. object(c.workspace) \in Text /\ object(d.workspace) \in Text
  BY <1>3, NestedIsText DEF Siblings
<1>5. object(c.workspace) = object(d.workspace)
  <2>1. front \in Text
    BY <1>3, Fragment, Concat DEF Own
  <2> HIDE DEF object, front
  <2>2. QED
    BY <1>2, <1>4, <2>1, CancelFront
<1>6. QED
  BY <1>3, <1>5, NestedApart DEF Siblings, Apart

LEMMA ConsulApart ==
    ASSUME NEW c, NEW d, Siblings(c, d), ConsulLockTarget(c) # NoTarget,
           ConsulLockTarget(c) = ConsulLockTarget(d)
    PROVE  Apart(c, d)
<1> DEFINE path == Get(c.config, "path")
           object(w) == Suffixed(path, "-env:", w)
           name(w) == <<object(w) \o <<"/.lockinfo">>>>
<1>1. /\ ConsulLockTarget(c) = Named(<<path>>, name(c.workspace))
      /\ ConsulLockTarget(d) = Named(<<path>>, name(d.workspace))
  BY DEF ConsulLockTarget, Siblings
<1>2. object(c.workspace) \o <<"/.lockinfo">>
        = object(d.workspace) \o <<"/.lockinfo">>
  <2>1. /\ Named(<<path>>, name(c.workspace)) # NoTarget
        /\ Named(<<path>>, name(c.workspace)) =
              Named(<<path>>, name(d.workspace))
    BY <1>1
  <2>2. name(c.workspace) = name(d.workspace)
    <3> HIDE DEF name, path
    <3>1. QED
      BY <2>1, NamedByOne
  <2>3. QED
    BY <2>2
<1>3. path \in Text /\ "-env:" \in Own
  BY DEF Siblings, Own
<1>4. ASSUME NEW w \in Text
      PROVE  object(w) \in Text
  BY <1>3, Fragment, Concat DEF Suffixed
<1>5. object(c.workspace) = object(d.workspace)
  <2>1. <<"/.lockinfo">> \in Text
    BY Fragment DEF Own
  <2>2. object(c.workspace) \in Text /\ object(d.workspace) \in Text
    BY <1>4 DEF Siblings
  <2> HIDE DEF object
  <2>3. QED
    BY <1>2, <2>1, <2>2, CancelBack
<1>6. QED
  BY <1>3, <1>5, SuffixedApart DEF Siblings, Apart

LEMMA AzurermApart ==
    ASSUME NEW c, NEW d, Siblings(c, d), AzurermLockTarget(c) # NoTarget,
           AzurermLockTarget(c) = AzurermLockTarget(d)
    PROVE  Apart(c, d)
<1> DEFINE account   == Get(c.config, "storage_account_name")
           container == Get(c.config, "container_name")
           key       == Get(c.config, "key")
           name(w)   == <<account, container, Suffixed(key, "env:", w)>>
<1>1. /\ AzurermLockTarget(c) =
            Named(<<account, container, key>>, name(c.workspace))
      /\ AzurermLockTarget(d) =
            Named(<<account, container, key>>, name(d.workspace))
  BY DEF AzurermLockTarget, Siblings
<1>2. Suffixed(key, "env:", c.workspace) = Suffixed(key, "env:", d.workspace)
  <2>1. /\ Named(<<account, container, key>>, name(c.workspace)) # NoTarget
        /\ Named(<<account, container, key>>, name(c.workspace)) =
              Named(<<account, container, key>>, name(d.workspace))
    BY <1>1
  <2>2. name(c.workspace) = name(d.workspace)
    <3> HIDE DEF name, account, container, key
    <3>1. QED
      BY <2>1, NamedByThree
  <2>3. QED
    BY <2>2
<1>3. key \in Text /\ "env:" \in Own
  BY DEF Siblings, Own
<1>4. QED
  BY <1>2, <1>3, SuffixedApart DEF Siblings, Apart

LEMMA KubernetesApart ==
    ASSUME NEW c, NEW d, Siblings(c, d), KubernetesLockTarget(c) # NoTarget,
           KubernetesLockTarget(c) = KubernetesLockTarget(d)
    PROVE  Apart(c, d)
<1> DEFINE namespace == OrElse(Get(c.config, "namespace"), Default)
           suffix    == Get(c.config, "secret_suffix")
           front(w)  == <<"lock-tfstate-">> \o OrElse(w, Default)
           name(w)   == <<namespace, (front(w) \o <<"-">>) \o suffix>>
<1>1. /\ KubernetesLockTarget(c) = Named(<<suffix>>, name(c.workspace))
      /\ KubernetesLockTarget(d) = Named(<<suffix>>, name(d.workspace))
  BY DEF KubernetesLockTarget, Siblings
<1>2. (front(c.workspace) \o <<"-">>) \o suffix
        = (front(d.workspace) \o <<"-">>) \o suffix
  <2>1. /\ Named(<<suffix>>, name(c.workspace)) # NoTarget
        /\ Named(<<suffix>>, name(c.workspace)) =
              Named(<<suffix>>, name(d.workspace))
    BY <1>1
  <2>2. name(c.workspace) = name(d.workspace)
    <3> HIDE DEF name, suffix
    <3>1. QED
      BY <2>1, NamedByOne
  <2>3. QED
    BY <2>2
<1>3. /\ <<"lock-tfstate-">> \in Text /\ <<"-">> \in Text /\ suffix \in Text
  BY Fragment DEF Own, Siblings
<1>4. ASSUME NEW w \in Text
      PROVE  front(w) \in Text /\ front(w) \o <<"-">> \in Text
  BY <1>3, OrDefault, Concat
<1>5. front(c.workspace) = front(d.workspace)
  <2>1. /\ front(c.workspace) \in Text /\ front(d.workspace) \in Text
        /\ front(c.workspace) \o <<"-">> \in Text
        /\ front(d.workspace) \o <<"-">> \in Text
    BY <1>4 DEF Siblings
  <2> HIDE DEF front
  <2>2. front(c.workspace) \o <<"-">> = front(d.workspace) \o <<"-">>
    <3> DEFINE dash(w) == front(w) \o <<"-">>
    <3>1. /\ dash(c.workspace) \in Text /\ dash(d.workspace) \in Text
          /\ dash(c.workspace) \o suffix = dash(d.workspace) \o suffix
      BY <1>2, <2>1
    <3>2. dash(c.workspace) = dash(d.workspace)
      <4> HIDE DEF dash, suffix
      <4>1. QED
        BY <1>3, <3>1, CancelBack
    <3>3. QED
      BY <3>2
  <2>3. QED
    BY <1>3, <2>1, <2>2, CancelBack
<1>6. OrElse(c.workspace, Default) = OrElse(d.workspace, Default)
  BY <1>3, <1>5, OrDefault, CancelFront DEF Siblings
<1>7. QED
  BY <1>6, OrDefaultApart DEF Apart

LEMMA PGApart ==
    ASSUME NEW c, NEW d, NEW env, Siblings(c, d),
           PGLockTarget(c, env) # NoTarget,
           PGLockTarget(c, env) = PGLockTarget(d, env)
    PROVE  Apart(c, d)
<1> DEFINE conn == OrElse(Get(c.config, "conn_str"), Get(env, "PG_CONN_STR"))
           schema == OrElse(Get(c.config, "schema_name"),
                            Get(env, "PG_SCHEMA_NAME"))
           name(w) == <<conn, OrElse(schema, <<"terraform_remote_state">>),
                        OrElse(w, Default)>>
<1>1. /\ PGLockTarget(c, env) = Named(<<conn>>, name(c.workspace))
      /\ PGLockTarget(d, env) = Named(<<conn>>, name(d.workspace))
  BY DEF PGLockTarget, Siblings
<1>2. OrElse(c.workspace, Default) = OrElse(d.workspace, Default)
  <2>1. /\ Named(<<conn>>, name(c.workspace)) # NoTarget
        /\ Named(<<conn>>, name(c.workspace)) =
              Named(<<conn>>, name(d.workspace))
    BY <1>1
  <2>2. name(c.workspace) = name(d.workspace)
    <3> HIDE DEF name, conn
    <3>1. QED
      BY <2>1, NamedByOne
  <2>3. QED
    BY <2>2
<1>3. QED
  BY <1>2, OrDefaultApart DEF Apart

LEMMA LocalApart ==
    ASSUME NEW c, NEW d, Siblings(c, d), LocalLockTarget(c) = LocalLockTarget(d)
    PROVE  Apart(c, d)
<1> DEFINE dir  == Get(c.config, "path: dir")
           base == OrElse(Get(c.config, "path: base"), <<"terraform.tfstate">>)
           root == IF IsAbs(dir) THEN dir ELSE Slash(c.dir, dir)
           all  == Slash(root, <<"terraform.tfstate.d">>)
           path(w) == IF IsDefault(w) THEN Slash(root, base)
                      ELSE Slash(Slash(all, w), base)
<1>1. path(c.workspace) = path(d.workspace)
  BY DEF LocalLockTarget, Siblings
<1>2. /\ base \in Text /\ base # <<>> /\ root \in Text
      /\ <<"terraform.tfstate.d">> \in Text /\ <<"terraform.tfstate.d">> # <<>>
      /\ Len(<<"terraform.tfstate.d">>) = 1 /\ Len(<<>>) = 0
  BY AttributeText, Fragment, SlashIsText DEF Siblings, Own
<1> HIDE DEF base, root
<1>3. /\ all \in Text /\ all # <<>> /\ Len(root) \in Nat
      /\ Len(all) = Len(root) + 1 + (IF root = <<>> THEN 0 ELSE 1)
  <2>1. /\ all \in Text
        /\ Len(all) = IF root = <<>> THEN Len(root) + 1 ELSE Len(root) + 2
    <3> DEFINE d0 == <<"terraform.tfstate.d">>
    <3>1. d0 \in Text /\ d0 # <<>> /\ Len(d0) = 1 /\ root \in Text
          /\ Len(<<>>) = 0
      BY <1>2
    <3> HIDE DEF d0
    <3>2. /\ Slash(root, d0) \in Text
          /\ Len(Slash(root, d0)) =
               Len(root) + Len(d0)
                 + (IF root = <<>> \/ d0 = <<>> THEN 0 ELSE 1)
      BY <3>1, SlashIsText
    <3>3. Len(root) \in Nat
      BY <3>1, Concat
    <3>4. /\ Slash(root, d0) \in Text
          /\ Len(Slash(root, d0)) =
               IF root = <<>> THEN Len(root) + 1 ELSE Len(root) + 2
      BY <3>1, <3>2, <3>3
    <3>5. QED
      BY <3>4 DEF d0
  <2>2. Len(root) \in Nat
    BY <1>2, Concat
  <2>3. QED
    BY <1>2, <2>1, <2>2
<1> HIDE DEF all
<1>4. ASSUME NEW w \in Text, ~IsDefault(w)
      PROVE  /\ w # <<>> /\ Slash(all, w) \in Text /\ Slash(all, w) # <<>>
             /\ Slash(Slash(all, w), base) # Slash(root, base)
  <2>1. w # <<>> /\ Len(w) \in Nat /\ Len(base) \in Nat
    BY <1>2, <1>4, Concat DEF IsDefault
  <2>2. Slash(all, w) \in Text /\ Len(Slash(all, w)) = Len(all) + Len(w) + 1
    BY <1>3, <2>1, SlashIsText
  <2>3. Slash(all, w) # <<>>
    BY <1>2, <1>3, <2>1, <2>2
  <2>4. Len(Slash(Slash(all, w), base)) = Len(Slash(all, w)) + Len(base) + 1
    BY <1>2, <2>2, <2>3, SlashIsText
  <2>5. Len(Slash(root, base)) = Len(root) + Len(base)
                                   + (IF root = <<>> THEN 0 ELSE 1)
    BY <1>2, SlashIsText
  <2>6. QED
    BY <1>3, <2>1, <2>2, <2>3, <2>4, <2>5
<1>5. ASSUME ~IsDefault(c.workspace), ~IsDefault(d.workspace)
      PROVE  c.workspace = d.workspace
  <2>1. Slash(Slash(all, c.workspace), base)
          = Slash(Slash(all, d.workspace), base)
    BY <1>1, <1>5
  <2>2. Slash(all, c.workspace) = Slash(all, d.workspace)
    BY <1>2, <1>4, <1>5, <2>1, SlashCancels DEF Siblings
  <2>3. QED
    BY <1>3, <1>4, <1>5, <2>2, SlashCancels DEF Siblings
<1>6. QED
  BY <1>1, <1>4, <1>5 DEF Siblings, Apart, Same

LEMMA TFEApart ==
    ASSUME NEW c, NEW d, NEW env, Siblings(c, d),
           TFELockTarget(c, env) # NoTarget,
           TFELockTarget(c, env) = TFELockTarget(d, env),
           c.type \in {"remote", "cloud"}
    PROVE  SameState(c, c.workspace, d.workspace)
<1> DEFINE prefix == Get(c.config, "workspaces: prefix")
<1>1. TFEWorkspaceName(c) # <<>> /\ TFEWorkspaceName(d) = TFEWorkspaceName(c)
  <2> DEFINE org == Get(c.config, "organization")
             host == OrElse(Get(c.config, "hostname"), <<"app.terraform.io">>)
             name(x) == <<host, org, TFEWorkspaceName(x)>>
  <2>1. /\ TFELockTarget(c, env) =
              Named(<<org, TFEWorkspaceName(c), TFEToken(c, env)>>, name(c))
        /\ TFELockTarget(d, env) =
              Named(<<org, TFEWorkspaceName(d), TFEToken(d, env)>>, name(d))
    BY DEF TFELockTarget, Siblings
  <2>2. /\ Named(<<org, TFEWorkspaceName(c), TFEToken(c, env)>>, name(c))
              # NoTarget
        /\ Named(<<org, TFEWorkspaceName(c), TFEToken(c, env)>>, name(c)) =
              Named(<<org, TFEWorkspaceName(d), TFEToken(d, env)>>, name(d))
    BY <2>1
  <2>3. name(c) = name(d) /\ TFEWorkspaceName(c) # <<>>
    <3> HIDE DEF name, org, host
    <3>1. TFEWorkspaceName(c) # <<>>
      BY <2>2, NamedByThree
    <3>2. Named(<<org, TFEWorkspaceName(c), TFEToken(c, env)>>, name(c))
            = name(c)
      BY <2>2, NamedByThree
    <3>3. Named(<<org, TFEWorkspaceName(d), TFEToken(d, env)>>, name(d))
            = name(d)
      BY <2>2, NamedByThree
    <3>4. QED
      BY <2>2, <3>1, <3>2, <3>3
  <2>4. QED
    BY <2>3
<1>2. CASE Get(c.config, "workspaces: name") # <<>>
  BY <1>2 DEF SameState
<1>3. CASE Get(c.config, "workspaces: name") = <<>>
  <2>1. c.type = "remote"
    BY <1>1, <1>3 DEF TFEWorkspaceName
  <2>2. /\ TFEWorkspaceName(c) \in {c.workspace, prefix \o c.workspace}
        /\ TFEWorkspaceName(d) \in {d.workspace, prefix \o d.workspace}
    BY <1>1, <1>3 DEF TFEWorkspaceName, Siblings
  <2>3. prefix \o c.workspace = prefix \o d.workspace
           => c.workspace = d.workspace
    BY CancelFront DEF Siblings
  <2>4. QED
    BY <1>1, <2>1, <2>2, <2>3 DEF SameState
<1>4. QED
  BY <1>2, <1>3

\* All of them.
LEMMA LocksApart ==
    ASSUME NEW c, NEW d, NEW env, Siblings(c, d), LockTarget(c, env) # NoTarget,
           LockTarget(c, env) = LockTarget(d, env)
    PROVE  SameState(c, c.workspace, d.workspace)
<1>1. Apart(c, d) => SameState(c, c.workspace, d.workspace)
  BY DEF Apart, Same, SameState
<1>2. c.type = d.type
  BY DEF Siblings
<1>3. CASE c.type = "s3"
  BY <1>1, <1>2, <1>3, S3Apart DEF LockTarget
<1>4. CASE c.type = "gcs"
  BY <1>1, <1>2, <1>4, GCSApart DEF LockTarget
<1>5. CASE c.type = "cos"
  BY <1>1, <1>2, <1>5, COSApart DEF LockTarget
<1>6. CASE c.type = "oci"
  BY <1>1, <1>2, <1>6, OCIApart DEF LockTarget
<1>7. CASE c.type = "oss"
  BY <1>1, <1>2, <1>7, OSSApart DEF LockTarget
<1>8. CASE c.type = "consul"
  BY <1>1, <1>2, <1>8, ConsulApart DEF LockTarget
<1>9. CASE c.type = "kubernetes"
  BY <1>1, <1>2, <1>9, KubernetesApart DEF LockTarget
<1>10. CASE c.type = "azurerm"
  BY <1>1, <1>2, <1>10, AzurermApart DEF LockTarget
<1>11. CASE c.type \in {"remote", "cloud"}
  BY <1>2, <1>11, TFEApart DEF LockTarget
<1>12. CASE c.type = "local"
  BY <1>1, <1>2, <1>12, LocalApart DEF LockTarget
<1>13. CASE c.type = "pg"
  BY <1>1, <1>2, <1>13, PGApart DEF LockTarget
<1>14. QED
  BY <1>3, <1>4, <1>5, <1>6, <1>7, <1>8, <1>9, <1>10, <1>11, <1>12, <1>13
  DEF LockTarget
=============================================================================
