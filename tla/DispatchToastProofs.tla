------------------------- MODULE DispatchToastProofs -------------------------
(***************************************************************************)
(* Proofs about DispatchToast: for any set of items, any number of         *)
(* dispatches and faults, and any number of messages in transit.           *)
(***************************************************************************)
EXTENDS DispatchToast, SequenceTheorems, TLAPS

USE ToastAssumption

\* Where the messages about an item stand in a channel, and the last of them.
At(i, s) == {k \in 1 .. Len(s) : s[k].item = i}
Final(i, s, k) == k \in At(i, s) /\ \A j \in At(i, s) : j <= k

\* Appending a message, taking the first and cutting the end off move them.
LEMMA AtAppend ==
    ASSUME NEW s \in Seq(Message), NEW m \in Message
    PROVE  /\ Append(s, m) \in Seq(Message)
           /\ \A i : At(i, Append(s, m)) =
                       IF i = m.item THEN At(i, s) \cup {Len(s) + 1} ELSE At(i, s)
           /\ \A k \in 1 .. Len(s) : Append(s, m)[k] = s[k]
           /\ Append(s, m)[Len(s) + 1] = m
  BY DEF At

LEMMA AtTail ==
    ASSUME NEW s \in Seq(Message), s # <<>>
    PROVE  /\ Tail(s) \in Seq(Message) /\ Head(s) = s[1] /\ Head(s) \in Message
           /\ 1 \in 1 .. Len(s)
           /\ \A k \in 1 .. Len(s) : k # 1 => k - 1 \in 1 .. Len(Tail(s)) /\ Tail(s)[k - 1] = s[k]
           /\ \A k \in 1 .. Len(Tail(s)) : k + 1 \in 1 .. Len(s) /\ Tail(s)[k] = s[k + 1]
  BY HeadTailProperties

LEMMA AtPrefix ==
    ASSUME NEW s \in Seq(Message), NEW n \in 0 .. Len(s)
    PROVE  /\ SubSeq(s, 1, n) \in Seq(Message)
           /\ \A i : i \notin ItemsIn(SubSeq(s, n + 1, Len(s)))
                       => At(i, SubSeq(s, 1, n)) = At(i, s)
           /\ \A k \in 1 .. n : SubSeq(s, 1, n)[k] = s[k]
           /\ ItemsIn(SubSeq(s, n + 1, Len(s))) \subseteq Items
<1>0. Len(s) \in Nat /\ \A k \in 1 .. Len(s) : s[k] \in Message
  BY ElementOfSeq
<1>1. /\ SubSeq(s, 1, n) \in Seq(Message) /\ Len(SubSeq(s, 1, n)) = n
      /\ \A k \in 1 .. n : SubSeq(s, 1, n)[k] = s[k]
  <2>1. \A k \in 1 .. n : s[k] \in Message
    BY <1>0
  <2>2. /\ SubSeq(s, 1, n) \in Seq(Message)
        /\ Len(SubSeq(s, 1, n)) = IF 1 <= n THEN n - 1 + 1 ELSE 0
        /\ \A k \in 1 .. n - 1 + 1 : SubSeq(s, 1, n)[k] = s[1 + k - 1]
    BY <1>0, <2>1, SubSeqProperties
  <2> QED BY <1>0, <2>2
<1>2. ASSUME NEW k \in n + 1 .. Len(s)
      PROVE  s[k].item \in ItemsIn(SubSeq(s, n + 1, Len(s)))
  <2>1. \A j \in n + 1 .. Len(s) : s[j] \in Message
    BY <1>0
  <2>2. /\ SubSeq(s, n + 1, Len(s)) \in Seq(Message)
        /\ Len(SubSeq(s, n + 1, Len(s))) = Len(s) - (n + 1) + 1
        /\ \A j \in 1 .. Len(s) - (n + 1) + 1 :
             SubSeq(s, n + 1, Len(s))[j] = s[n + 1 + j - 1]
    BY <1>0, <2>1, SubSeqProperties
  <2>3. k - n \in 1 .. Len(s) - (n + 1) + 1 /\ n + 1 + (k - n) - 1 = k
    BY <1>0
  <2>4. SubSeq(s, n + 1, Len(s))[k - n] = s[k]
    BY <2>2, <2>3
  <2>5. k - n \in DOMAIN SubSeq(s, n + 1, Len(s))
    BY <2>2, <2>3, LenProperties
  <2> QED BY <2>4, <2>5 DEF ItemsIn
<1>3. ASSUME NEW i, i \notin ItemsIn(SubSeq(s, n + 1, Len(s)))
      PROVE  At(i, SubSeq(s, 1, n)) = At(i, s)
  BY <1>0, <1>1, <1>2, <1>3 DEF At
<1>4. ItemsIn(SubSeq(s, n + 1, Len(s))) \subseteq Items
  <2>1. \A j \in n + 1 .. Len(s) : s[j] \in Message
    BY <1>0
  <2>2. SubSeq(s, n + 1, Len(s)) \in Seq(Message)
    BY <1>0, <2>1, SubSeqProperties
  <2>3. \A j \in DOMAIN SubSeq(s, n + 1, Len(s)) : SubSeq(s, n + 1, Len(s))[j] \in Message
    BY <2>2, LenProperties, ElementOfSeq
  <2> QED BY <2>3 DEF ItemsIn, Message
<1> QED BY <1>1, <1>3, <1>4

-----------------------------------------------------------------------------
(* The invariant.                                                          *)

\* What the scheduler last said of an item whose events all arrive: it is the
\* last message under way, or the row shows it already.  A report of progress
\* directly follows the start of its upload.
Speaks(i) ==
    IF At(i, channel) = {}
    THEN rows[i] = "absent" \/ (last[i] # "none" /\ rows[i] = Means(last[i]))
    ELSE \E k \in 1 .. Len(channel) :
           /\ Final(i, channel, k) /\ channel[k].type = last[i]
           /\ last[i] = "upload_progress" =>
                \/ \E j \in At(i, channel) :
                     /\ j < k /\ channel[j].type = "uploading"
                     /\ \A l \in At(i, channel) : l <= j \/ l = k
                \/ At(i, channel) = {k} /\ rows[i] \in {"absent", "processing"}

WordInv == \A i \in Items \ missed : Speaks(i)

\* What the stage of a dispatch says of the last event.
Told(i) ==
    CASE stage[i] = "uploading" ->
           last[i] = IF i \in progress THEN "upload_progress" ELSE "uploading"
      [] stage[i] = "sent" -> last[i] \in {"uploading", "upload_progress"}
      [] OTHER -> last[i] \in {"none", "acked", "failed"} \/ i \in untold

ToastInv == TypeOK /\ WordInv /\ \A i \in Items : Told(i)

\* An event of an item, sent or said to nobody.
LEMMA SendSpeaks ==
    ASSUME TypeOK, WordInv, NEW i \in Items, NEW e \in Events, Send(i, e), rows' = rows,
           e = "upload_progress" => last[i] = "uploading"
    PROVE  WordInv' /\ channel' \in Seq(Message) /\ last' = [last EXCEPT ![i] = e]
           /\ missed' \subseteq Items
<1>0. /\ channel \in Seq(Message) /\ Len(channel) \in Nat /\ missed \subseteq Items
      /\ last' = [last EXCEPT ![i] = e] /\ last \in [Items -> Events \cup {"none"}]
  BY DEF TypeOK, Send
<1>1. CASE ~up
  <2>1. missed' = missed \cup {i} /\ channel' = channel
    BY <1>1 DEF Send
  <2>2. ASSUME NEW j \in Items \ missed' PROVE Speaks(j)'
    BY <1>0, <2>1, <2>2 DEF WordInv, Speaks, Final, At
  <2> QED BY <1>0, <2>1, <2>2 DEF WordInv
<1>2. CASE up
  <2> DEFINE m == [type |-> e, item |-> i]
             n == Len(channel) + 1
  <2>1. /\ channel' = Append(channel, m) /\ m \in Message /\ m.item = i /\ m.type = e
        /\ missed' = IF e = "uploading" THEN missed \ {i} ELSE missed
    BY <1>2 DEF Send, Message
  <2> HIDE DEF m
  <2>2. /\ channel' \in Seq(Message) /\ Len(channel') = n
        /\ \A j : At(j, channel') = IF j = i THEN At(j, channel) \cup {n} ELSE At(j, channel)
        /\ \A k \in 1 .. Len(channel) : channel'[k] = channel[k]
        /\ channel'[n] = m
    <3>1. Len(Append(channel, m)) = n
      BY <1>0, <2>1
    <3> QED BY <1>0, <2>1, <3>1, AtAppend
  <2>3. ASSUME NEW j \in Items \ missed', j # i PROVE Speaks(j)'
    <3>1. Speaks(j) /\ At(j, channel') = At(j, channel) /\ last'[j] = last[j]
      BY <1>0, <2>1, <2>2, <2>3 DEF WordInv
    <3> QED BY <1>0, <2>2, <3>1 DEF Speaks, Final, At
  <2>4. ASSUME i \notin missed' PROVE Speaks(i)'
    <3>1. At(i, channel') = At(i, channel) \cup {n} /\ At(i, channel) \subseteq 1 .. Len(channel)
      BY <2>2 DEF At
    <3>2. Final(i, channel', n) /\ channel'[n].type = last'[i] /\ n \in 1 .. Len(channel')
          /\ last'[i] = e
      <4>1. last'[i] = e /\ channel'[n].type = e
        BY <1>0, <2>1, <2>2
      <4>2. n \in 1 .. Len(channel') /\ \A j \in At(i, channel') : j <= n
        BY <1>0, <2>2, <3>1
      <4> QED BY <3>1, <4>1, <4>2 DEF Final
    <3>3. ASSUME e = "upload_progress"
          PROVE  \/ \E j \in At(i, channel') :
                      /\ j < n /\ channel'[j].type = "uploading"
                      /\ \A l \in At(i, channel') : l <= j \/ l = n
                 \/ At(i, channel') = {n} /\ rows'[i] \in {"absent", "processing"}
      <4>1. i \notin missed /\ Speaks(i) /\ last[i] = "uploading"
        BY <2>1, <2>4, <3>3 DEF WordInv
      <4>2. CASE At(i, channel) = {}
        BY <3>1, <4>1, <4>2 DEF Speaks, Means
      <4>3. CASE At(i, channel) # {}
        <5>1. PICK k \in 1 .. Len(channel) :
                Final(i, channel, k) /\ channel[k].type = "uploading"
          BY <4>1, <4>3 DEF Speaks
        <5>2. k \in At(i, channel') /\ k < n /\ channel'[k].type = "uploading"
          BY <1>0, <2>2, <3>1, <5>1 DEF Final
        <5>3. \A l \in At(i, channel') : l <= k \/ l = n
          BY <3>1, <5>1 DEF Final
        <5> QED BY <5>2, <5>3
      <4> QED BY <4>2, <4>3
    <3>4. At(i, channel') # {}
      BY <3>1
    <3> QED BY <3>2, <3>3, <3>4 DEF Speaks
  <2> QED BY <1>0, <2>1, <2>2, <2>3, <2>4 DEF WordInv
<1> QED BY <1>1, <1>2

\* The tab takes the first message.
LEMMA TakeSpeaks ==
    ASSUME TypeOK, WordInv, OnDispatchEvent
    PROVE  WordInv' /\ channel' \in Seq(Message) /\ rows' \in [Items -> RowStates]
           /\ effectDue' \in BOOLEAN
<1> DEFINE m == channel[1]
<1>0. channel \in Seq(Message) /\ channel # <<>> /\ Len(channel) \in Nat
      /\ channel' = Tail(channel) /\ last' = last /\ missed' = missed
  BY DEF TypeOK, OnDispatchEvent
<1>1. /\ channel' \in Seq(Message) /\ Head(channel) = m /\ m \in Message
      /\ 1 \in 1 .. Len(channel)
      /\ \A k \in 1 .. Len(channel) :
           k # 1 => k - 1 \in 1 .. Len(channel') /\ channel'[k - 1] = channel[k]
      /\ \A k \in 1 .. Len(channel') : k + 1 \in 1 .. Len(channel) /\ channel'[k] = channel[k + 1]
  BY <1>0, AtTail
<1>2. /\ m.item \in Items /\ m.type \in Events
      /\ rows \in [Items -> RowStates] /\ rows' = [rows EXCEPT ![m.item] = RowAfter(m)]
  BY <1>1 DEF TypeOK, Message, OnDispatchEvent
<1>3. RowAfter(m) \in RowStates
  BY <1>2 DEF RowAfter, Events, RowStates
<1>4. effectDue' \in BOOLEAN
  BY DEF OnDispatchEvent, TypeOK
<1>5. \A i, k : k \in At(i, channel) /\ k # 1 => k - 1 \in At(i, channel')
  BY <1>1 DEF At
<1>6. \A i, k : k \in At(i, channel') => k + 1 \in At(i, channel) /\ k \in 1 .. Len(channel')
  BY <1>1 DEF At
<1>7. ASSUME NEW i \in Items \ missed PROVE Speaks(i)'
  <2>0. Speaks(i)
    BY DEF WordInv
  <2>1. CASE At(i, channel) = {}
    <3>1. At(i, channel') = {}
      BY <1>6, <2>1
    <3>2. i # m.item
      BY <1>1, <2>1 DEF At
    <3> QED BY <1>0, <1>2, <2>0, <2>1, <3>1, <3>2 DEF Speaks
  <2>2. CASE At(i, channel) # {}
    <3>1. PICK k \in 1 .. Len(channel) :
            /\ Final(i, channel, k) /\ channel[k].type = last[i]
            /\ last[i] = "upload_progress" =>
                 \/ \E j \in At(i, channel) :
                      /\ j < k /\ channel[j].type = "uploading"
                      /\ \A l \in At(i, channel) : l <= j \/ l = k
                 \/ At(i, channel) = {k} /\ rows[i] \in {"absent", "processing"}
      BY <2>0, <2>2 DEF Speaks
    <3>a. At(i, channel) \subseteq 1 .. Len(channel) /\ At(i, channel') \subseteq 1 .. Len(channel')
      BY DEF At
    <3>2. CASE k = 1
      <4>1. At(i, channel) = {1} /\ At(i, channel') = {}
        BY <1>6, <3>1, <3>2, <3>a DEF Final
      <4>2. i = m.item /\ m.type = last[i]
        BY <3>1, <3>2 DEF Final, At
      <4>3. rows'[i] = RowAfter(m)
        BY <1>2, <4>2
      <4>4. last[i] = "upload_progress" => rows[i] \in {"absent", "processing"}
        BY <3>1, <3>2, <4>1
      <4>5. rows'[i] = "absent" \/ (last[i] # "none" /\ rows'[i] = Means(last[i]))
        BY <1>2, <4>2, <4>3, <4>4 DEF RowAfter, Means, Events
      <4> QED BY <1>0, <4>1, <4>5 DEF Speaks
    <3>3. CASE k # 1
      <4>1. k - 1 \in At(i, channel') /\ k - 1 \in 1 .. Len(channel')
            /\ channel'[k - 1].type = last[i]
        BY <1>1, <1>5, <3>1, <3>3 DEF Final
      <4>2. Final(i, channel', k - 1)
        BY <1>6, <3>1, <3>a, <4>1 DEF Final
      <4>3. ASSUME last[i] = "upload_progress"
            PROVE  \/ \E j \in At(i, channel') :
                        /\ j < k - 1 /\ channel'[j].type = "uploading"
                        /\ \A l \in At(i, channel') : l <= j \/ l = k - 1
                   \/ At(i, channel') = {k - 1} /\ rows'[i] \in {"absent", "processing"}
        <5>1. CASE At(i, channel) = {k}
          <6>1. At(i, channel') = {k - 1}
            BY <1>6, <3>a, <4>1, <5>1
          <6>2. i # m.item
            BY <1>1, <3>3, <5>1 DEF At
          <6>3. rows[i] \in {"absent", "processing"}
            BY <3>1, <4>3, <5>1
          <6> QED BY <1>2, <6>1, <6>2, <6>3
        <5>2. ASSUME NEW j \in At(i, channel), j < k, channel[j].type = "uploading",
                     \A l \in At(i, channel) : l <= j \/ l = k
              PROVE  \/ \E h \in At(i, channel') :
                          /\ h < k - 1 /\ channel'[h].type = "uploading"
                          /\ \A l \in At(i, channel') : l <= h \/ l = k - 1
                     \/ At(i, channel') = {k - 1} /\ rows'[i] \in {"absent", "processing"}
          <6>1. CASE j = 1
            <7>0. i = m.item /\ m.type = "uploading"
              BY <5>2, <6>1 DEF At
            <7>1. rows'[i] = "processing"
              <8>1. RowAfter(m) = "processing"
                BY <7>0 DEF RowAfter
              <8> QED BY <1>2, <7>0, <8>1
            <7>2. At(i, channel') = {k - 1}
              BY <1>6, <3>a, <4>1, <5>2, <6>1
            <7> QED BY <7>1, <7>2
          <6>2. CASE j # 1
            <7>1. j - 1 \in At(i, channel') /\ channel'[j - 1].type = "uploading"
              BY <1>1, <1>5, <3>a, <5>2, <6>2
            <7>2. j - 1 < k - 1
              BY <3>a, <5>2
            <7>3. \A l \in At(i, channel') : l <= j - 1 \/ l = k - 1
              BY <1>6, <3>a, <5>2
            <7> QED BY <7>1, <7>2, <7>3
          <6> QED BY <6>1, <6>2
        <5> QED BY <3>1, <4>3, <5>1, <5>2
      <4> QED BY <1>0, <4>1, <4>2, <4>3 DEF Speaks
    <3> QED BY <3>2, <3>3
  <2> QED BY <2>1, <2>2
<1> QED BY <1>0, <1>1, <1>2, <1>3, <1>4, <1>7 DEF WordInv

\* The tail of the channel is lost, and so are its words.
LEMMA LoseSpeaks ==
    ASSUME TypeOK, WordInv, LoseTail, rows' = rows, last' = last
    PROVE  WordInv' /\ channel' \in Seq(Message) /\ missed' \subseteq Items
<1>0. channel \in Seq(Message) /\ Len(channel) \in Nat /\ missed \subseteq Items
  BY DEF TypeOK
<1>1. PICK n \in 0 .. Len(channel) :
        /\ channel' = SubSeq(channel, 1, n)
        /\ missed' = missed \cup ItemsIn(SubSeq(channel, n + 1, Len(channel)))
  BY DEF LoseTail
<1>2. /\ channel' \in Seq(Message)
      /\ \A i : i \notin ItemsIn(SubSeq(channel, n + 1, Len(channel)))
                  => At(i, channel') = At(i, channel)
      /\ \A k \in 1 .. n : channel'[k] = channel[k]
      /\ ItemsIn(SubSeq(channel, n + 1, Len(channel))) \subseteq Items
  BY <1>0, <1>1, AtPrefix
<1>3. ASSUME NEW i \in Items \ missed' PROVE Speaks(i)'
  <2>1. Speaks(i) /\ At(i, channel') = At(i, channel)
    BY <1>1, <1>2 DEF WordInv
  <2>2. At(i, channel') \subseteq 1 .. Len(channel')
    BY DEF At
  <2>3. Len(channel') = n
    BY <1>0, <1>1
  <2> QED BY <1>2, <2>1, <2>2, <2>3 DEF Speaks, Final
<1> QED BY <1>0, <1>1, <1>2, <1>3 DEF WordInv

-----------------------------------------------------------------------------
(* The steps.                                                              *)

\* What a step does that sends an event of an item, or ends its dispatch without.
Goes(i, to) ==
    /\ stage' = [stage EXCEPT ![i] = to]
    /\ UNCHANGED <<dispatches, progress, up, rows, timer, effectDue, faults>>

\* A step that touches neither the channel nor the rows keeps the words.
LEMMA WordKept ==
    ASSUME WordInv, channel' = channel, last' = last, missed' = missed, rows' = rows
    PROVE  WordInv'
<1>1. ASSUME NEW i \in Items \ missed' PROVE Speaks(i)'
  <2>1. Speaks(i) /\ At(i, channel') = At(i, channel) /\ last'[i] = last[i] /\ rows'[i] = rows[i]
    BY DEF WordInv
  <2> QED BY <2>1 DEF Speaks, Final
<1> QED BY <1>1 DEF WordInv

\* A dispatch that ends with an event.
LEMMA TellInv ==
    ASSUME ToastInv, NEW i \in Items, NEW from \in Stages,
           NEW to \in {"queued", "over"}, NEW e \in {"acked", "failed"}, Tell(i, from, to, e)
    PROVE  ToastInv'
<1>1. Send(i, e) /\ rows' = rows /\ untold' = untold /\ Goes(i, to)
  BY DEF Tell, Goes, toast
<1>2. WordInv' /\ channel' \in Seq(Message) /\ last' = [last EXCEPT ![i] = e]
      /\ missed' \subseteq Items
  BY <1>1, SendSpeaks DEF ToastInv, Events
<1>3. \A j \in Items : Told(j)'
  BY <1>1, <1>2 DEF ToastInv, TypeOK, Told, Goes
<1>4. TypeOK'
  BY <1>1, <1>2 DEF ToastInv, TypeOK, Goes, Stages, Events
<1> QED BY <1>2, <1>3, <1>4 DEF ToastInv

\* A dispatch that ends without one.
LEMMA SilentInv ==
    ASSUME ToastInv, NEW i \in Items, NEW from \in Stages, NEW to \in {"queued", "over"},
           Silently(i, from, to)
    PROVE  ToastInv'
<1>1. /\ UNCHANGED <<channel, last, missed>> /\ rows' = rows
      /\ untold' = untold \cup {i} /\ Goes(i, to)
  BY DEF Silently, Unsent, Goes, toast
<1>2. WordInv'
  BY <1>1, WordKept DEF ToastInv
<1>3. \A j \in Items : Told(j)'
  BY <1>1 DEF ToastInv, TypeOK, Told, Goes
<1>4. TypeOK'
  BY <1>1 DEF ToastInv, TypeOK, Goes, Stages
<1> QED BY <1>2, <1>3, <1>4 DEF ToastInv

\* The start of an upload and its progress.
LEMMA UploadStep ==
    ASSUME ToastInv, NEW i \in Items, BeginUpload(i) \/ UploadProgress(i) PROVE ToastInv'
<1>1. CASE BeginUpload(i)
  <2>1. Send(i, "uploading") /\ rows' = rows /\ "uploading" \in Events
    BY <1>1 DEF BeginUpload, toast, Events
  <2>2. WordInv' /\ channel' \in Seq(Message) /\ last' = [last EXCEPT ![i] = "uploading"]
        /\ missed' \subseteq Items
    BY <2>1, SendSpeaks DEF ToastInv
  <2>3. \A j \in Items : Told(j)'
    BY <1>1, <2>2 DEF ToastInv, TypeOK, Told, BeginUpload
  <2>4. dispatches' \in 0 .. MaxDispatches
    BY <1>1 DEF ToastInv, TypeOK, BeginUpload
  <2>5. TypeOK'
    BY <1>1, <2>1, <2>2, <2>4 DEF ToastInv, TypeOK, BeginUpload, Stages, toast
  <2> QED BY <2>2, <2>3, <2>5 DEF ToastInv
<1>2. CASE UploadProgress(i)
  <2>1. /\ Send(i, "upload_progress") /\ rows' = rows /\ "upload_progress" \in Events
        /\ last[i] = "uploading"
    BY <1>2 DEF UploadProgress, toast, Events, ToastInv, Told
  <2>2. WordInv' /\ channel' \in Seq(Message) /\ last' = [last EXCEPT ![i] = "upload_progress"]
        /\ missed' \subseteq Items
    BY <2>1, SendSpeaks DEF ToastInv
  <2>3. \A j \in Items : Told(j)'
    BY <1>2, <2>2 DEF ToastInv, TypeOK, Told, UploadProgress
  <2>4. TypeOK'
    BY <1>2, <2>1, <2>2 DEF ToastInv, TypeOK, UploadProgress, toast
  <2> QED BY <2>2, <2>3, <2>4 DEF ToastInv
<1> QED BY <1>1, <1>2

\* The ends of an upload and of a watch.
LEMMA EndStep ==
    ASSUME ToastInv, NEW i \in Items, UploadEnds(i) \/ WatchEnds(i) PROVE ToastInv'
<1>1. /\ {"uploading", "sent", "queued", "over"} \subseteq Stages
      /\ {"acked", "failed"} \subseteq Events
  BY DEF Stages, Events
<1>2. CASE UploadRefused(i) \/ DispatchFailed(i) \/ WatchAcked(i) \/ WatchGaveUp(i)
  BY <1>1, <1>2, TellInv DEF UploadRefused, DispatchFailed, WatchAcked, WatchGaveUp
<1>3. CASE StartDeferred(i) \/ DispatchRaised(i) \/ WatchReverted(i) \/ WatchLeft(i)
  BY <1>1, <1>3, SilentInv DEF StartDeferred, DispatchRaised, WatchReverted, WatchLeft
<1>4. CASE StartSent(i)
  <2>1. WordInv'
    BY <1>4 DEF StartSent, Unsent, toast, ToastInv, WordInv, Speaks, Final, At
  <2>2. \A j \in Items : Told(j)'
    BY <1>4 DEF StartSent, Unsent, ToastInv, TypeOK, Told
  <2>3. TypeOK'
    BY <1>1, <1>4 DEF StartSent, Unsent, toast, ToastInv, TypeOK
  <2> QED BY <2>1, <2>2, <2>3 DEF ToastInv
<1> QED BY <1>2, <1>3, <1>4 DEF UploadEnds, WatchEnds

\* The socket and the backend.
LEMMA FaultStep ==
    ASSUME ToastInv, SocketDrops \/ SocketReconnects \/ Crash PROVE ToastInv'
<1>1. CASE SocketReconnects
  BY <1>1 DEF SocketReconnects, backend, toast, ToastInv, TypeOK, WordInv, Speaks, Final, At,
     Told
<1>2. CASE SocketDrops \/ Crash
  <2>1. LoseTail /\ rows' = rows /\ last' = last
    BY <1>2 DEF SocketDrops, Crash, toast
  <2>2. WordInv' /\ channel' \in Seq(Message) /\ missed' \subseteq Items
    BY <2>1, LoseSpeaks DEF ToastInv
  <2>3. faults' \in 0 .. MaxFaults
    BY <1>2 DEF SocketDrops, Crash, ToastInv, TypeOK
  <2>4. CASE SocketDrops
    <3>1. \A j \in Items : Told(j)'
      BY <2>1, <2>4 DEF SocketDrops, backend, ToastInv, Told
    <3>2. TypeOK'
      BY <2>1, <2>2, <2>3, <2>4 DEF SocketDrops, backend, toast, ToastInv, TypeOK
    <3> QED BY <2>2, <3>1, <3>2 DEF ToastInv
  <2>5. CASE Crash
    <3>1. stage' \in [Items -> Stages]
          /\ \A j \in Items : /\ stage'[j] \notin {"uploading", "sent"}
                              /\ stage[j] \notin {"uploading", "sent"} => stage'[j] = stage[j]
      BY <2>5 DEF Crash, ToastInv, TypeOK, Stages
    <3>2. \A j \in Items : Told(j)'
      BY <2>1, <2>5, <3>1 DEF Crash, ToastInv, TypeOK, Told
    <3>3. TypeOK'
      BY <2>1, <2>2, <2>3, <2>5, <3>1 DEF Crash, toast, ToastInv, TypeOK
    <3> QED BY <2>2, <3>2, <3>3 DEF ToastInv
  <2> QED BY <1>2, <2>4, <2>5
<1> QED BY <1>1, <1>2

\* The tab: an event, an effect, another toast, the timer, the user.
LEMMA TabStep ==
    ASSUME ToastInv,
           OnDispatchEvent \/ AutoDismissEffect \/ OtherToastChanges \/ TimerFires \/ DismissToast
    PROVE  ToastInv'
<1>1. CASE OnDispatchEvent
  <2>1. WordInv' /\ channel' \in Seq(Message) /\ rows' \in [Items -> RowStates]
        /\ effectDue' \in BOOLEAN
    BY <1>1, TakeSpeaks DEF ToastInv
  <2>2. (\A j \in Items : Told(j)') /\ TypeOK'
    BY <1>1, <2>1 DEF OnDispatchEvent, backend, ToastInv, TypeOK, Told
  <2> QED BY <2>1, <2>2 DEF ToastInv
<1>2. CASE AutoDismissEffect \/ OtherToastChanges
  <2>1. WordInv'
    BY <1>2, WordKept DEF AutoDismissEffect, OtherToastChanges, ToastInv
  <2>2. (\A j \in Items : Told(j)') /\ TypeOK'
    BY <1>2 DEF AutoDismissEffect, OtherToastChanges, backend, ToastInv, TypeOK, Told
  <2> QED BY <2>1, <2>2 DEF ToastInv
<1>3. CASE TimerFires \/ DismissToast
  <2>1. /\ rows' = NoToast /\ rows' \in [Items -> RowStates]
        /\ UNCHANGED <<backend, up, channel, last, untold, missed, faults>>
        /\ timer' = FALSE /\ effectDue' = TRUE
    BY <1>3 DEF TimerFires, DismissToast, NoToast, RowStates
  <2>2. WordInv'
    BY <2>1 DEF ToastInv, WordInv, Speaks, Final, At, NoToast
  <2>3. (\A j \in Items : Told(j)') /\ TypeOK'
    BY <2>1 DEF backend, ToastInv, TypeOK, Told
  <2> QED BY <2>2, <2>3 DEF ToastInv
<1> QED BY <1>1, <1>2, <1>3

\* The invariant holds whatever the scheduler, the network and the user do.
LEMMA ToastInvHolds == Spec => []ToastInv
<1>1. Init => ToastInv
  <2> SUFFICES ASSUME Init PROVE ToastInv
    OBVIOUS
  <2>1. TypeOK
    <3>1. channel \in Seq(Message)
      BY EmptySeq DEF Init
    <3>2. dispatches \in 0 .. MaxDispatches /\ faults \in 0 .. MaxFaults
      BY DEF Init
    <3> QED BY <3>1, <3>2 DEF Init, TypeOK, NoToast, RowStates, Stages
  <2>2. WordInv
    BY DEF Init, WordInv, Speaks, At, NoToast
  <2>3. \A i \in Items : Told(i)
    BY DEF Init, Told
  <2> QED BY <2>1, <2>2, <2>3 DEF ToastInv
<1>2. ASSUME ToastInv, [Next]_vars PROVE ToastInv'
  <2>1. CASE Next
    BY <1>2, <2>1, UploadStep, EndStep, FaultStep, TabStep DEF Next
  <2>2. CASE UNCHANGED vars
    <3>1. WordInv'
      BY <1>2, <2>2, WordKept DEF vars, toast, ToastInv
    <3>2. (\A j \in Items : Told(j)') /\ TypeOK'
      BY <1>2, <2>2 DEF vars, backend, toast, ToastInv, TypeOK, Told
    <3> QED BY <3>1, <3>2 DEF ToastInv
  <2> QED BY <1>2, <2>1, <2>2
<1> QED BY <1>1, <1>2, PTL DEF Spec

\* Every variable of the toast and of the dispatches keeps its type.
THEOREM ToastTypes == Spec => []TypeOK
  BY ToastInvHolds, PTL DEF ToastInv

\* A row whose events have all been handled.
LEMMA SettledWord ==
    ASSUME ToastInv, NEW i \in Items, ~InTransit(i), i \notin missed, rows[i] # "absent"
    PROVE  last[i] # "none" /\ rows[i] = Means(last[i])
<1>1. At(i, channel) = {}
  BY LenProperties DEF ToastInv, TypeOK, InTransit, ItemsIn, At
<1> QED BY <1>1 DEF ToastInv, WordInv, Speaks

\* When an item's events have been handled, its row shows the last of them.
THEOREM ToastLastWord == Spec => []RowShowsLastWord
<1>1. ToastInv => RowShowsLastWord
  BY SettledWord DEF RowShowsLastWord
<1> QED BY <1>1, ToastInvHolds, PTL

\* A row that spins belongs to a dispatch that is going on, or to one whose end
\* was not told or was lost with the socket.
THEOREM ToastSpins == Spec => []SpinsForAReason
<1>1. ASSUME ToastInv, NEW i \in Items, rows[i] = "processing", ~InTransit(i), i \notin missed
      PROVE  stage[i] \in {"uploading", "sent"} \/ i \in untold
  <2>1. last[i] # "none" /\ Means(last[i]) = "processing"
    BY <1>1, SettledWord
  <2>2. last[i] \notin {"none", "acked", "failed"}
    BY <2>1 DEF Means
  <2>3. Told(i)
    BY <1>1 DEF ToastInv
  <2> QED BY <2>2, <2>3 DEF Told
<1>2. ToastInv => SpinsForAReason
  BY <1>1 DEF SpinsForAReason
<1> QED BY <1>2, ToastInvHolds, PTL

=============================================================================
