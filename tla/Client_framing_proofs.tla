------------------------ MODULE Client_framing_proofs ------------------------
(***************************************************************************)
(* When a response can always be built, a peer that keeps the connection   *)
(* can tell where every response ends, but for the known exceptions.       *)
(***************************************************************************)
EXTENDS Client_proofs

-----------------------------------------------------------------------------
(* HEAD. *)

\* virtspace answers HEAD with the body of the document, so that is left out here.
HeadsRead ==
    "oom" \notin MayHappen /\ \A t \in Targets : <<"HEAD", t>> \notin Docs

\* resp.head is set for every HEAD that the file filter gets to see.
HeadInv ==
    /\ resp.head => "request" \in done /\ Asked.method = "HEAD" /\ "file" \in Begun
    /\ "request" \in done =>
          /\ req.method = Asked.method
          /\ req.target \in Slashed => Asked.target = req.target
          /\ "virtspace" \in opened => Asked.method # "HEAD"
          /\ "autoindex" \in opened => Asked.target \in Slashed
          /\ Asked.method = "HEAD" /\ Asked.target \notin Slashed /\ resp.ka =>
                 IF "file" \in Begun THEN resp.head ELSE resp.code = 0 /\ ~resp.err

-----------------------------------------------------------------------------
(* What is known of the response at every filter. *)

\* The file filter still has a part of the file to read.
Reading == file.state = 2 /\ "file" \notin done

StageInv ==
    /\ "request" \notin done => resp = NoResp /\ file.state = 0
    /\ resp.code = 0 => resp.len = NoLen /\ ~resp.err /\ ("response" \in done \/ ~resp.done)
    /\ "index" \in opened \ done => resp.code = 0
    /\ "file" \in opened \ done /\ file.state # 2 => resp.code = 0
    /\ "error" \in opened \ done => resp.err
    /\ file.state # 0 => "file" \in opened
    /\ file.state = 2 => ~resp.head /\ ~resp.err /\ resp.len # NoLen
    /\ "transfer" \in Begun \/ i > AtFile => "file" \in done \/ file.state = 2
    /\ "response" \in Begun => "transfer" \in Begun
    /\ Reading => ~resp.done /\ i >= AtFile
    /\ "transfer" \in opened => resp.len # NoLen
    /\ "transfer" \in done \ opened => ~resp.ka

-----------------------------------------------------------------------------
(* Body data on its way. *)

\* Units the file filter will still read.
Left == IF Reading THEN file.left ELSE 0

Last == wire[Len(wire)]

\* Where there is nothing on its way.
FlowInv ==
    /\ back \/ i = 1 \/ (Reading /\ i = AtFile) => input = 0
    /\ iov # NoIov => i = AtSend /\ input = 0 /\ "send" \notin done /\ "response" \in done
    /\ "send" \in done => i = AtLog /\ input = 0 /\ resp.done /\ (resp.resized => Last.resized)
    /\ "transfer" \in opened \cap done => contLen = 0

\* Before transfer has begun, the length is what is on its way.
LengthInv ==
    /\ "transfer" \notin Begun /\ resp.len = NoLen => input = 0
    /\ "transfer" \notin Begun /\ resp.len # NoLen =>
          /\ i > 2
          /\ (resp.err => "error" \in done) /\ ~resp.head /\ ~resp.resized =>
                 resp.len = Left + input

\* From then on the length is what is still to come through transfer and what is behind it.
Before == Left + (IF i <= AtTransfer THEN input ELSE 0)
After ==
    (IF i > AtTransfer THEN input ELSE 0) + iov.body + (IF HeaderSent THEN Last.body ELSE 0)

BodyInv ==
    /\ "transfer" \in opened /\ ~resp.head /\ ~resp.resized =>
           contLen = Before /\ resp.len = contLen + After
    /\ "response" \in done /\ resp.head =>
           resp.done /\ input = 0 /\ iov.body = 0 /\ (HeaderSent => Last.body = 0)

\* What the peer has of the responses.
Fit(r, w) == Excused(r, w) \/ (w.len # NoLen /\ w.body = Expected(r, w))

WireInv ==
    /\ HeaderSent => /\ Last.len = resp.len /\ Last.code = resp.code
                     /\ Last.resized => resp.resized
    /\ \A n \in 1 .. Len(wire) - (IF HeaderSent THEN 1 ELSE 0) : Fit(taken[n], wire[n])


FrameInv == HeadInv /\ StageInv /\ FlowInv /\ LengthInv /\ BodyInv /\ WireInv

\* What the proofs of the other modules have established.
Grounds == TypeInv /\ CloseInv /\ AlignInv

-----------------------------------------------------------------------------
(* The chain, seen from one filter. *)

\* Which filters are still ahead, and which are behind, at the end of the chain.
LEMMA Ahead ==
    ASSUME TypeInv
    PROVE  /\ "request" \notin done => i <= 2 /\ Begun \subseteq {"receive", "request"}
           /\ "autoindex" \notin done =>
                 {"file", "error", "transfer", "response", "send"} \cap Begun = {}
           /\ "error" \notin done =>
                 i <= AtError /\ {"transfer", "response", "send"} \cap Begun = {}
           /\ "response" \notin done => i <= AtResponse /\ "send" \notin Begun
           /\ "send" \notin done => i <= AtSend
           /\ i > AtFile => "file" \in Begun
           /\ i > AtTransfer => "transfer" \in Begun
           /\ i >= AtSend => "response" \in done
           /\ i > AtError => "error" \in done
           /\ back /\ i > 1 => "send" \in opened /\ "response" \in done /\ "error" \in done
           /\ 0 <= V /\ V <= 1 /\ i >= 1 /\ i <= AtLog
<1>1. i \in 1 .. AtLog /\ opened \subseteq FilterSet /\ done \subseteq FilterSet
  BY DEF TypeInv, ChainTypes
<1>2. \A k \in 1 .. AtLog : Filters[k] \in Once /\ Filters[k] \notin done =>
          /\ i <= k
          /\ \A j \in k + 1 .. AtLog : Filters[j] \notin Begun
  BY DEF TypeInv, ChainInv, InOrder
<1>3. /\ 2 \in 1 .. AtLog /\ Filters[2] = "request"
      /\ AtAutoindex \in 1 .. AtLog /\ Filters[AtAutoindex] = "autoindex"
      /\ AtFile \in 1 .. AtLog /\ Filters[AtFile] = "file"
      /\ AtError \in 1 .. AtLog /\ Filters[AtError] = "error"
      /\ AtTransfer \in 1 .. AtLog /\ Filters[AtTransfer] = "transfer"
      /\ AtResponse \in 1 .. AtLog /\ Filters[AtResponse] = "response"
      /\ AtSend \in 1 .. AtLog /\ Filters[AtSend] = "send"
      /\ AtAutoindex = 4 + V /\ AtFile = 5 + V /\ AtError = 6 + V /\ AtTransfer = 7 + V
      /\ AtResponse = 8 + V /\ AtSend = 9 + V /\ AtLog = 10 + V /\ V \in {0, 1}
  BY Places DEF AtLog, AtAutoindex, AtFile, AtError, AtTransfer, AtResponse, AtSend, PlacesOf
<1>4. "request" \notin done => i <= 2 /\ Begun \subseteq {"receive", "request"}
  BY <1>2, <1>3, RequestBehind DEF Once
<1>5. "autoindex" \notin done =>
          {"file", "error", "transfer", "response", "send"} \cap Begun = {}
  <2>. SUFFICES ASSUME "autoindex" \notin done
                PROVE  \A k \in AtAutoindex + 1 .. AtLog : Filters[k] \notin Begun
    BY <1>3
  <2>. QED  BY <1>2, <1>3 DEF Once
<1>6. "error" \notin done => i <= AtError /\ {"transfer", "response", "send"} \cap Begun = {}
  <2>. SUFFICES ASSUME "error" \notin done
                PROVE  i <= AtError /\ \A k \in AtError + 1 .. AtLog : Filters[k] \notin Begun
    BY <1>3
  <2>. QED  BY <1>2, <1>3 DEF Once
<1>7. "response" \notin done => i <= AtResponse /\ "send" \notin Begun
  <2>. SUFFICES ASSUME "response" \notin done
                PROVE  i <= AtResponse /\ \A k \in AtResponse + 1 .. AtLog : Filters[k] \notin Begun
    BY <1>3
  <2>. QED  BY <1>2, <1>3 DEF Once
<1>8. "send" \notin done => i <= AtSend
  BY <1>2, <1>3 DEF Once
<1>9. /\ i > AtFile => "file" \in Begun
      /\ i > AtTransfer => "transfer" \in Begun
  BY <1>1, <1>3 DEF TypeInv, ChainInv, Reached
<1>10. back /\ i > 1 => "send" \in opened
  BY DEF TypeInv, ChainInv, TurnsBack
<1>. QED  BY <1>1, <1>3, <1>4, <1>5, <1>6, <1>7, <1>8, <1>9, <1>10 DEF Begun

\* Where a filter stands, so that it can be told from the others by numbers.
LEMMA Stands ==
    ASSUME TypeInv
    PROVE  /\ Filters[i] = "request" <=> i = 2
           /\ Filters[i] = "virtspace" <=> V = 1 /\ i = 3
           /\ Filters[i] = "index" <=> i = 3 + V
           /\ Filters[i] = "autoindex" <=> i = 4 + V
           /\ Filters[i] = "file" <=> i = 5 + V
           /\ Filters[i] = "error" <=> i = 6 + V
           /\ Filters[i] = "transfer" <=> i = 7 + V
           /\ Filters[i] = "response" <=> i = 8 + V
           /\ Filters[i] = "send" <=> i = 9 + V
           /\ Filters[i] = "accesslog" <=> i = 10 + V
           /\ Filters[i] = "receive" <=> i = 1
           /\ V \in {0, 1} /\ i \in Nat /\ Len(Filters) = 10 + V
BY Places DEF TypeInv, ChainTypes, PlacesOf, AtIndex, AtAutoindex, AtFile, AtError, AtTransfer,
   AtResponse, AtSend, AtLog

\* The chain walks on, opens a filter that needs nothing, waits, or ends.
Walk ==
    /\ UNCHANGED <<respVars, wire, taken, req, done>>
    /\ opened \subseteq opened'
    /\ opened' \subseteq opened \cup {"receive", "request", "response", "send", "accesslog"}
    /\ "response" \in opened' \ opened => i > AtTransfer
    /\ \/ i' = i /\ back' = back /\ input' = input
       \/ Filters[i] \in done /\ ~back /\ i # AtLog /\ i' = i + 1 /\ ~back' /\ input' = input
       \/ Filters[i] \in done /\ back /\ i > 1 /\ i' = i - 1 /\ back' /\ input' = 0
       \/ i \in {1, 2} /\ i' \in {1, 2} /\ input' = 0 /\ (i = 1 \/ "request" \notin done)

\* Every other step does more.
LEMMA FrameStep ==
    ASSUME "oom" \notin MayHappen, TypeInv, [Next]_vars
    PROVE  \/ Walk
           \/ PassEnd \/ AccesslogWritten \/ RequestParsed
           \/ VirtspaceOpen \/ VirtspaceProcess \/ IndexOpen \/ IndexFound \/ IndexNotFound
           \/ AutoindexOpen \/ AutoindexListed \/ AutoindexFailed
           \/ FileOpen \/ FileOpened \/ FileInfo \/ FileRead \/ FileResized
           \/ ErrorOpen \/ ErrorProcess \/ TransferOpen \/ TransferProcess \/ ResponseProcess
           \/ SendAll \/ SendWait
<1>0. /\ "receive" \notin done /\ (resp.done => i > 2)
      /\ i \in Nat /\ i >= 1
  BY Ahead DEF TypeInv, ChainInv, TurnsBack, ChainTypes
<1>1. CASE PassDone
  <2>1. Filters[i] \in done /\ i # 1
    BY <1>0, <1>1, Stands DEF PassDone
  <2>2. ~back => i # AtLog
    BY <1>1, Stands DEF PassDone, AtLog
  <2>. QED  BY <1>0, <1>1, <2>1, <2>2 DEF PassDone, Forward, Backward, Walk, reqVars, pastVars
<1>2. CASE OpenPlain
  BY <1>2 DEF OpenPlain, OpenOk, Walk, reqVars, pastVars
<1>3. CASE ReceivePass \/ ReceiveData
  <2>1. i = 1
    BY <1>3, Stands DEF ReceivePass, ReceiveData, Receiving, Processing
  <2>2. /\ UNCHANGED <<respVars, wire, taken, req, opened>>
        /\ Forward({}, 0)
    <3>1. CASE ReceivePass
      <4>1. ~resp.done
        BY <1>0, <2>1
      <4>2. Forward({}, 0)
        BY <3>1, <4>1 DEF ReceivePass
      <4>. QED  BY <3>1, <4>2 DEF ReceivePass, Forward, reqVars, pastVars
    <3>2. CASE ReceiveData
      BY <3>2 DEF ReceiveData, Forward, pastVars
    <3>. QED  BY <1>3, <3>1, <3>2
  <2>. QED  BY <2>1, <2>2 DEF Forward, Walk
<1>4. CASE RequestIncomplete
  <2>1. i = 2 /\ "request" \notin done
    BY <1>4, Stands DEF RequestIncomplete, Processing
  <2>. QED  BY <1>4, <2>1 DEF RequestIncomplete, Destroy, DestroyHolding, Backward, Walk, pastVars
<1>5. CASE \/ ReceiveWait \/ ReceiveEnd \/ ReceiveNoMemory \/ FileCall \/ CallFails \/ SendFails
           \/ AccesslogCall \/ Expired \/ Rest \/ UNCHANGED vars
  BY <1>5 DEF ReceiveWait, ReceiveEnd, ReceiveNoMemory, FileCall, CallFails, SendFails,
     AccesslogCall, Expired, Rest, vars, Suspend, Destroy, DestroyHolding, Walk, reqVars,
     pastVars, chainVars
<1>6. CASE ResponseOpen \/ AccesslogOpen
  <2>1. ResponseOpen => i = 8 + V
    BY Stands DEF ResponseOpen, Opening
  <2>. QED  BY <1>6, <2>1, Stands DEF ResponseOpen, AccesslogOpen, OpenOk, OutOfMemory, Walk,
              reqVars, pastVars, AtTransfer
<1>7. ~IndexNoMemory
  BY DEF IndexNoMemory, OutOfMemory
<1>. QED  BY <1>1, <1>2, <1>3, <1>4, <1>5, <1>6, <1>7 DEF Next, Chain

\* Before transfer has begun, nothing of the response is on its way to the peer.
LEMMA EarlyFacts ==
    ASSUME Grounds, FrameInv, "transfer" \notin Begun
    PROVE  /\ "response" \notin Begun /\ "send" \notin Begun /\ iov = NoIov /\ ~HeaderSent
           /\ i <= AtTransfer /\ ~(back /\ i > 1)
<1>1. "response" \notin Begun
  BY DEF FrameInv, StageInv
<1>2. ~(back /\ i > 1) /\ i <= AtTransfer
  BY <1>1, Ahead, Stands DEF Grounds, Begun, AtTransfer
<1>3. "send" \notin Begun
  BY <1>1, Ahead DEF Grounds, Begun
<1>4. iov = NoIov
  BY <1>1 DEF FrameInv, FlowInv, Begun
<1>. QED  BY <1>1, <1>2, <1>3, <1>4 DEF HeaderSent, Begun

\* A step there leaves alone what concerns the filters after it.
LEMMA EarlyKept ==
    ASSUME Grounds, FrameInv, "transfer" \notin Begun,
           opened' \cap {"transfer", "response", "send"} =
               opened \cap {"transfer", "response", "send"},
           done' \cap {"transfer", "response", "send"} =
               done \cap {"transfer", "response", "send"},
           iov' = iov, wire' = wire, Len(taken') >= Len(wire),
           \A n \in 1 .. Len(wire) : taken'[n] = taken[n],
           back' \/ i' = 1 \/ (Reading' /\ i' = AtFile) => input' = 0
    PROVE  FlowInv' /\ BodyInv' /\ WireInv' /\ "transfer" \notin Begun'
<1>1. "transfer" \notin Begun' /\ "response" \notin Begun' /\ "send" \notin Begun'
  BY EarlyFacts DEF Begun
<1>2. iov' = NoIov /\ ~HeaderSent /\ ~HeaderSent'
  BY <1>1, EarlyFacts DEF HeaderSent, Begun
<1>3. FlowInv'
  <2>1. AtFile' = AtFile /\ AtSend' = AtSend /\ AtLog' = AtLog
    BY DEF AtFile, AtSend, AtLog, V
  <2>. QED  BY <1>1, <1>2, <2>1 DEF FlowInv, Begun
<1>4. BodyInv'
  BY <1>1, <1>2 DEF BodyInv, Begun
<1>5. WireInv'
  <2>1. \A n \in 1 .. Len(wire) : Fit(taken[n], wire[n])
    BY <1>2 DEF FrameInv, WireInv, Grounds, TypeInv, DataTypes
  <2>2. \A n \in 1 .. Len(wire') : Fit(taken'[n], wire'[n])
    BY <2>1
  <2>3. wire' \in Seq(Response)
    BY DEF Grounds, TypeInv, DataTypes
  <2>. QED  BY <1>2, <2>2, <2>3 DEF WireInv
<1>. QED  BY <1>1, <1>3, <1>4, <1>5

\* A step that only walks.
LEMMA WalkKept ==
    ASSUME Grounds, FrameInv, Walk
    PROVE  FrameInv'
<1>0. /\ UNCHANGED <<resp, file, contLen, iov, wire, taken, req, done>>
      /\ opened \subseteq opened'
      /\ opened' \subseteq opened \cup {"receive", "request", "response", "send", "accesslog"}
      /\ "response" \in opened' \ opened => i > 7 + V
      /\ Asked' = Asked /\ Last' = Last /\ (HeaderSent' <=> HeaderSent)
      /\ Left' = Left /\ (Reading' <=> Reading)
  BY DEF Walk, respVars, Asked, Last, HeaderSent, Left, Reading, AtTransfer
<1>1. /\ "virtspace" \in opened' <=> "virtspace" \in opened
      /\ "index" \in opened' <=> "index" \in opened
      /\ "autoindex" \in opened' <=> "autoindex" \in opened
      /\ "file" \in opened' <=> "file" \in opened
      /\ "error" \in opened' <=> "error" \in opened
      /\ "transfer" \in opened' <=> "transfer" \in opened
  BY <1>0
<1>2. /\ "file" \in Begun' <=> "file" \in Begun
      /\ "transfer" \in Begun' <=> "transfer" \in Begun
  BY <1>0, <1>1 DEF Begun
<1>3. /\ AtFile = 5 + V /\ AtTransfer = 7 + V /\ AtSend = 9 + V /\ AtLog = 10 + V
      /\ AtFile' = AtFile /\ AtTransfer' = AtTransfer /\ AtSend' = AtSend /\ AtLog' = AtLog
      /\ V \in {0, 1} /\ i \in 1 .. 10 + V /\ input \in Nat
      /\ iov \in [hdr : BOOLEAN, body : Nat] /\ V' = V
  BY Places DEF AtFile, AtTransfer, AtSend, AtLog, Grounds, TypeInv, ChainTypes, DataTypes, V
<1>4. /\ \/ i' = i /\ (back' <=> back) /\ input' = input
         \/ Filters[i] \in done /\ ~back /\ i # AtLog /\ i' = i + 1 /\ ~back' /\ input' = input
         \/ Filters[i] \in done /\ back /\ i > 1 /\ i' = i - 1 /\ back' /\ input' = 0
         \/ i \in {1, 2} /\ i' \in {1, 2} /\ input' = 0 /\ (i = 1 \/ "request" \notin done)
      /\ input' \in Nat
  BY <1>3 DEF Walk
<1>5. /\ i = 5 + V <=> Filters[i] = "file"
      /\ i = 7 + V <=> Filters[i] = "transfer"
      /\ i = 9 + V <=> Filters[i] = "send"
      /\ i = 10 + V => Filters[i] = "accesslog"
  BY Stands DEF Grounds
<1>6. HeadInv'
  BY <1>0, <1>1, <1>2 DEF FrameInv, HeadInv
<1>7. StageInv'
  <2>1. "transfer" \in Begun \/ i' > AtFile => "file" \in done \/ file.state = 2
    BY <1>3, <1>4, <1>5 DEF FrameInv, StageInv
  <2>2. Reading => i' >= AtFile
    <3>. SUFFICES ASSUME Reading PROVE i' >= AtFile
      OBVIOUS
    <3>1. i >= AtFile /\ "file" \notin done
      BY DEF FrameInv, StageInv, Reading
    <3>. QED  BY <1>3, <1>4, <1>5, <3>1
  <2>3. "response" \in Begun' => "transfer" \in Begun
    BY <1>0, <1>3, Ahead DEF FrameInv, StageInv, Grounds, Begun
  <2>. QED  BY <1>0, <1>1, <1>2, <1>3, <2>1, <2>2, <2>3 DEF FrameInv, StageInv
<1>8. FlowInv'
  <2>1. back' \/ i' = 1 \/ (Reading /\ i' = AtFile) => input' = 0
    <3>1. Reading => i >= AtFile /\ "file" \notin done
      BY DEF FrameInv, StageInv, Reading
    <3>2. back \/ i = 1 \/ (Reading /\ i = AtFile) => input = 0
      BY DEF FrameInv, FlowInv
    <3>. QED  BY <1>3, <1>4, <1>5, <3>1, <3>2
  <2>2. iov # NoIov => i' = AtSend /\ input' = 0 /\ "send" \notin done /\ "response" \in done
    BY <1>3, <1>4, <1>5 DEF FrameInv, FlowInv
  <2>3. "send" \in done => i' = AtLog /\ input' = 0 /\ resp.done /\ (resp.resized => Last.resized)
    <3>. SUFFICES ASSUME "send" \in done PROVE i' = AtLog /\ input' = 0
      BY DEF FrameInv, FlowInv
    <3>1. i = AtLog /\ input = 0 /\ ~back /\ "request" \in done
      <4>1. i = AtLog /\ input = 0 /\ resp.done
        BY DEF FrameInv, FlowInv
      <4>. QED  BY <1>3, <4>1, Ahead DEF Grounds, TypeInv, ChainInv, TurnsBack
    <3>. QED  BY <1>3, <1>4, <3>1
  <2>. QED  BY <1>0, <1>1, <1>2, <1>3, <2>1, <2>2, <2>3 DEF FrameInv, FlowInv
<1>9. LengthInv'
  <2>. SUFFICES ASSUME "transfer" \notin Begun PROVE LengthInv'
    BY <1>2 DEF LengthInv
  <2>1. ~(back /\ i > 1)
    BY EarlyFacts
  <2>2. CASE resp.len = NoLen
    <3>1. input = 0
      BY <2>2 DEF FrameInv, LengthInv
    <3>. QED  BY <1>0, <1>4, <2>2, <3>1 DEF LengthInv
  <2>3. CASE resp.len # NoLen
    <3>1. i > 2
      BY <2>3 DEF FrameInv, LengthInv
    <3>2. i' > 2 /\ input' = input
      BY <1>3, <1>4, <2>1, <3>1
    <3>. QED  BY <1>0, <1>2, <2>3, <3>2 DEF FrameInv, LengthInv
  <2>. QED  BY <2>2, <2>3
<1>10. BodyInv'
  <2>1. ASSUME "transfer" \in opened, ~resp.head, ~resp.resized
        PROVE  contLen = Before' /\ resp.len = contLen + After'
    <3>1. contLen = Before /\ resp.len = contLen + After
      BY <2>1 DEF FrameInv, BodyInv
    <3>2. "request" \in done
      BY <2>1, Ahead DEF Grounds, Begun
    <3>3. \/ input' = input /\ (i <= 7 + V <=> i' <= 7 + V)
          \/ input' = 0 /\ input = 0
      <4>1. back \/ i = 1 => input = 0
        BY DEF FrameInv, FlowInv
      <4>2. CASE i' = i + 1 /\ i = 7 + V
        <5>1. "transfer" \in done
          BY <1>3, <1>4, <1>5, <4>2
        <5>2. contLen = 0
          BY <2>1, <5>1 DEF FrameInv, FlowInv
        <5>3. Left \in Nat
          BY DEF Left, Grounds, TypeInv, DataTypes
        <5>4. input = 0
          BY <1>3, <3>1, <4>2, <5>2, <5>3 DEF Before
        <5>. QED  BY <1>4, <4>2, <5>4
      <4>3. CASE ~(i' = i + 1 /\ i = 7 + V)
        BY <1>3, <1>4, <3>2, <4>1, <4>3
      <4>. QED  BY <4>2, <4>3
    <3>4. Before' = Before
      BY <1>0, <1>3, <3>3 DEF Before
    <3>5. After' = After
      <4>1. (IF i' > AtTransfer THEN input' ELSE 0) = (IF i > AtTransfer THEN input ELSE 0)
        BY <1>3, <1>4, <3>3
      <4>. QED  BY <1>0, <1>3, <4>1 DEF After
    <3>. QED  BY <1>0, <3>1, <3>4, <3>5
  <2>2. "response" \in done /\ resp.head => input' = 0
    BY <1>4 DEF FrameInv, BodyInv
  <2>. QED  BY <1>0, <1>1, <2>1, <2>2 DEF FrameInv, BodyInv
<1>11. WireInv'
  BY <1>0 DEF FrameInv, WireInv
<1>. QED  BY <1>6, <1>7, <1>8, <1>9, <1>10, <1>11 DEF FrameInv

-----------------------------------------------------------------------------
(* The filters that decide the answer. *)

\* Everything has its type, and every filter its number.
LEMMA Typed ==
    ASSUME Grounds
    PROVE  /\ resp \in Resp /\ req \in Request /\ input \in Nat /\ contLen \in Nat
           /\ file \in [state : 0 .. 2, left : Nat] /\ iov \in [hdr : BOOLEAN, body : Nat]
           /\ wire \in Seq(Response) /\ taken \in Seq(Requests)
           /\ i \in 1 .. 10 + V /\ V \in {0, 1} /\ V' = V
           /\ AtFile = 5 + V /\ AtError = 6 + V /\ AtTransfer = 7 + V /\ AtResponse = 8 + V
           /\ AtSend = 9 + V /\ AtLog = 10 + V
           /\ AtFile' = 5 + V /\ AtError' = 6 + V /\ AtTransfer' = 7 + V
           /\ AtResponse' = 8 + V /\ AtSend' = 9 + V /\ AtLog' = 10 + V
BY Places DEF Grounds, TypeInv, ChainTypes, DataTypes, AtFile, AtError, AtTransfer, AtResponse,
   AtSend, AtLog, V

\* Where the filters stand, by number.
LEMMA Spots ==
    ASSUME Grounds
    PROVE  /\ i \in 1 .. 10 + V /\ V \in {0, 1} /\ V' = V
           /\ AtFile = 5 + V /\ AtFile' = 5 + V
           /\ AtTransfer = 7 + V /\ AtTransfer' = 7 + V
BY Typed

\* The request filter.
LEMMA ParsedKept ==
    ASSUME "oom" \notin MayHappen, Grounds, FrameInv, RequestParsed
    PROVE  FrameInv'
<1>1. /\ i = 2 /\ "request" \notin done /\ buf # <<>>
      /\ opened' = opened /\ done' = done \cup {"request"}
      /\ i' = 3 /\ back' = FALSE /\ input' = 0
      /\ req' = Head(buf) /\ taken' = Append(taken, Head(buf))
      /\ UNCHANGED <<file, contLen, iov, wire>>
  BY Stands DEF RequestParsed, Processing, Forward, pastVars, Grounds
<1>2. Head(buf) \in Request /\ taken \in Seq(Requests) /\ Head(buf) \in Requests
  BY <1>1, ClientAssumption DEF Grounds, TypeInv, DataTypes
<1>3. Asked' = req' /\ Len(taken') = Len(taken) + 1
      /\ \A n \in 1 .. Len(taken) : taken'[n] = taken[n]
  BY <1>1, <1>2 DEF Asked
<1>4. Begun \subseteq {"receive", "request"}
  BY <1>1, Ahead DEF Grounds
<1>5. resp = NoResp /\ file.state = 0 /\ NoResp \in Resp
  BY <1>1, Typed DEF FrameInv, StageInv
<1>6. \/ /\ resp'.err /\ resp'.code = 400 /\ ~resp'.ka
      \/ ~resp'.err /\ resp'.code = 0
  <2>1. CASE resp' = Status(resp, 400)
    BY <1>5, <2>1, StatusFields DEF Statuses, NoResp
  <2>2. CASE resp' = [resp EXCEPT !.ka = req'.ka]
    BY <1>5, <2>2 DEF NoResp
  <2>. QED  BY <2>1, <2>2 DEF RequestParsed, OutOfMemory
<1>7. resp'.len = NoLen /\ ~resp'.done /\ ~resp'.head
  <2>1. CASE resp' = Status(resp, 400)
    BY <1>5, <2>1, StatusFields DEF Statuses, NoResp
  <2>2. CASE resp' = [resp EXCEPT !.ka = req'.ka]
    BY <1>5, <2>2 DEF NoResp
  <2>. QED  BY <2>1, <2>2 DEF RequestParsed, OutOfMemory
<1>8. FlowInv' /\ BodyInv' /\ WireInv' /\ "transfer" \notin Begun'
  <2>1. Len(wire) = Len(taken)
    <3>1. Len(wire) = Len(taken) - 0
      BY <1>1 DEF Grounds, AlignInv
    <3>. QED  BY <1>2, <3>1
  <2>. QED  BY <1>1, <1>2, <1>3, <1>4, <2>1, EarlyKept DEF Begun
<1>9. HeadInv'
  BY <1>1, <1>3, <1>4, <1>6, <1>7 DEF HeadInv, Begun
<1>10. StageInv'
  <2>1. {"index", "file", "error", "transfer"} \cap opened' = {} /\ "file" \notin done'
    BY <1>1, <1>4 DEF Begun
  <2>2. "response" \notin Begun' /\ "transfer" \notin Begun'
    BY <1>1, <1>4 DEF Begun
  <2>3. ~(i' > AtFile') /\ file'.state = 0 /\ "request" \in done'
    BY <1>1, <1>5, Typed
  <2>. QED  BY <1>6, <1>7, <2>1, <2>2, <2>3 DEF StageInv, Begun, Reading
<1>11. LengthInv'
  BY <1>1, <1>7 DEF LengthInv
<1>. QED  BY <1>8, <1>9, <1>10, <1>11 DEF FrameInv

\* The open functions that look at the response and leave it alone.
LEMMA OpensKept ==
    ASSUME HeadsRead, Grounds, FrameInv,
           VirtspaceOpen \/ IndexOpen \/ AutoindexOpen \/ ErrorOpen
    PROVE  FrameInv'
<1>1. PICK f \in {"virtspace", "index", "autoindex", "error"} :
          /\ Filters[i] = f /\ f \notin Begun
          /\ OpenOk(f) \/ OpenSkip(f)
          /\ f = "virtspace" => VirtspaceOpen
          /\ f = "index" => IndexOpen
          /\ f = "autoindex" => AutoindexOpen
          /\ f = "error" => ErrorOpen
  BY DEF VirtspaceOpen, IndexOpen, AutoindexOpen, ErrorOpen, Opening, Begun
<1>2. /\ UNCHANGED <<resp, file, contLen, iov, wire, taken, req>>
      /\ Asked' = Asked /\ Left' = Left /\ (Reading' <=> Reading)
      /\ UNCHANGED <<i, back, input>>
  <2>1. /\ UNCHANGED <<resp, file, contLen, iov, wire, taken, req>>
    BY DEF VirtspaceOpen, IndexOpen, AutoindexOpen, ErrorOpen, reqVars, respVars, pastVars
  <2>2. UNCHANGED <<i, back, input>> /\ ("file" \in done' <=> "file" \in done)
    BY <1>1 DEF OpenOk, OpenSkip
  <2>. QED  BY <2>1, <2>2 DEF Asked, Left, Reading
<1>3. /\ "transfer" \notin Begun /\ "request" \in done /\ i > 2
      /\ Asked \in Request
  <2>1. "error" \notin done
    BY <1>1, Order, Ahead, Stands DEF Grounds, Begun
  <2>2. i > 2
    BY <1>1, Stands DEF Grounds
  <2>3. "request" \in done
    BY <2>2, Ahead, Typed DEF Grounds
  <2>. QED  BY <2>1, <2>2, <2>3, Ahead, AskedType DEF Grounds
<1>4. /\ f \in {"virtspace", "index", "autoindex", "error"}
      /\ \/ opened' = opened \cup {f} /\ done' = done /\ OpenOk(f)
         \/ opened' = opened /\ done' = done \cup {f} /\ OpenSkip(f)
      /\ opened' # opened => OpenOk(f)
  BY <1>1 DEF OpenOk, OpenSkip
<1>5. FlowInv' /\ BodyInv' /\ WireInv' /\ "transfer" \notin Begun'
  <2>1. back \/ i = 1 \/ (Reading /\ i = AtFile) => input = 0
    BY DEF FrameInv, FlowInv
  <2>2. Len(taken) >= Len(wire)
    BY Typed DEF Grounds, AlignInv
  <2>3. AtFile' = AtFile
    BY Typed
  <2>. QED  BY <1>2, <1>3, <1>4, <2>1, <2>2, <2>3, EarlyKept
<1>6. HeadInv'
  <2>1. f = "virtspace" /\ opened' # opened => Asked.method # "HEAD"
    BY <1>1, <1>3, <1>4, Typed DEF VirtspaceOpen, OpenOk, OpenSkip, Begun, HeadsRead, FrameInv,
       HeadInv, Request
  <2>2. f = "autoindex" /\ opened' # opened => Asked.target \in Slashed
    BY <1>1, <1>3, <1>4 DEF AutoindexOpen, OpenOk, OpenSkip, Begun, FrameInv, HeadInv
  <2>3. "request" \in done' /\ ("file" \in Begun' <=> "file" \in Begun)
    BY <1>3, <1>4 DEF Begun
  <2>4. /\ "virtspace" \in opened' => Asked.method # "HEAD"
        /\ "autoindex" \in opened' => Asked.target \in Slashed
    BY <1>3, <1>4, <2>1, <2>2 DEF FrameInv, HeadInv
  <2>. QED  BY <1>2, <1>3, <2>3, <2>4 DEF FrameInv, HeadInv
<1>7. StageInv'
  <2>1. f = "index" /\ opened' # opened => resp.code = 0
    BY <1>1, <1>4 DEF IndexOpen, OpenOk, OpenSkip, Begun
  <2>2. f = "error" /\ opened' # opened => resp.err
    BY <1>1, <1>4 DEF ErrorOpen, OpenOk, OpenSkip, Begun
  <2>3. /\ "index" \in opened' \ done' => resp.code = 0
        /\ "error" \in opened' \ done' => resp.err
    BY <1>1, <1>4, <2>1, <2>2 DEF FrameInv, StageInv, Begun
  <2>4. /\ "request" \in done' /\ ("file" \in opened' <=> "file" \in opened)
        /\ "file" \in done' <=> "file" \in done
        /\ "response" \in done' <=> "response" \in done
        /\ "response" \in Begun' <=> "response" \in Begun
    BY <1>3, <1>4 DEF Begun
  <2>. QED  BY <1>2, <1>3, <1>5, <2>3, <2>4, Typed DEF FrameInv, StageInv, Begun
<1>8. LengthInv'
  <2>1. "error" \in done' /\ "error" \notin done => ~resp.err
    BY <1>1, <1>4 DEF ErrorOpen, OpenOk, OpenSkip, Begun
  <2>. QED  BY <1>2, <1>3, <1>4, <2>1 DEF FrameInv, LengthInv
<1>. QED  BY <1>5, <1>6, <1>7, <1>8 DEF FrameInv

\* A filter before transfer has run: what remains to be shown of the response it leaves.
LEMMA AnswerKept ==
    ASSUME Grounds, FrameInv, NEW f \in {"virtspace", "index", "autoindex", "error"},
           NEW n \in Nat, Processing(f, "run"), Forward({f}, n),
           UNCHANGED <<file, contLen, iov, wire, taken>>,
           resp'.code = 0 => resp'.len = NoLen /\ ~resp'.err /\ ~resp'.done,
           resp'.len = NoLen => n = 0,
           (resp'.err => f = "error") /\ resp'.len # NoLen => resp'.len = n,
           HeadInv'
    PROVE  FrameInv'
<1>1. /\ Filters[i] = f /\ f \in opened /\ f \notin done
      /\ opened' = opened /\ done' = done \cup {f}
      /\ i' = i + 1 /\ back' = FALSE /\ input' = n /\ Asked' = Asked
  BY DEF Processing, Forward, Asked
<1>2. /\ "transfer" \notin Begun /\ "request" \in done /\ i > 2 /\ "response" \notin Begun
      /\ "send" \notin Begun
  <2>1. "error" \notin done
    BY <1>1, Order, Ahead, Stands DEF Grounds, Begun
  <2>2. i > 2
    BY <1>1, Stands DEF Grounds
  <2>. QED  BY <2>1, <2>2, Ahead, Typed DEF Grounds
<1>3. /\ f # "error" => "file" \notin Begun /\ "error" \notin Begun /\ i' <= AtFile'
      /\ f = "error" => i > AtFile /\ resp.err
      /\ f = "virtspace" => "index" \notin Begun
      /\ f \in {"autoindex", "error"} => "index" \in done
  <2>1. f = "virtspace" => V = 1
    BY <1>1, Stands DEF Grounds
  <2>2. f # "error" => "autoindex" \notin done \/ f = "autoindex"
    BY <1>1, <2>1, Order DEF Grounds, Begun
  <2>3. f # "error" => "file" \notin Begun /\ "error" \notin Begun
    BY <1>1, <2>2, Ahead DEF Grounds
  <2>4. f = "error" => "autoindex" \in done /\ "index" \in done
    BY <1>1, Order, Ahead DEF Grounds, Begun
  <2>5. f = "error" => resp.err
    BY <1>1 DEF FrameInv, StageInv
  <2>6. (f # "error" => i' <= AtFile') /\ (f = "error" => i > AtFile)
    BY <1>1, Stands, Spots DEF Grounds
  <2>7. /\ f = "virtspace" => "index" \notin Begun
        /\ f = "autoindex" => "index" \in done
    BY <1>1, <2>1, Order DEF Grounds
  <2>. QED  BY <2>3, <2>4, <2>5, <2>6, <2>7
<1>4. file.state # 2 /\ ~Reading /\ ~Reading' /\ (i > AtFile => "file" \in done) /\ Left' = 0
  <2>1. file.state # 2 /\ (i > AtFile => "file" \in done)
    BY <1>3 DEF FrameInv, StageInv, Begun
  <2>. QED  BY <2>1 DEF Reading, Left
<1>5. FlowInv' /\ BodyInv' /\ WireInv' /\ "transfer" \notin Begun'
  <2>1. Len(taken) >= Len(wire)
    BY Typed DEF Grounds, AlignInv
  <2>2. i' # 1
    BY <1>1, <1>2, Typed
  <2>. QED  BY <1>1, <1>2, <1>4, <2>1, <2>2, EarlyKept
<1>6. StageInv'
  <2>1. /\ "index" \notin opened' \ done'
        /\ "file" \notin opened' \ done'
        /\ "error" \notin opened' \ done'
        /\ "request" \in done' /\ "response" \notin Begun'
    BY <1>1, <1>2, <1>3, <1>4 DEF Begun
  <2>2. i' > AtFile' => "file" \in done'
    BY <1>1, <1>3, <1>4, Typed
  <2>3. file'.state # 0 => "file" \in opened'
    BY <1>1 DEF FrameInv, StageInv
  <2>. QED  BY <1>4, <1>5, <2>1, <2>2, <2>3 DEF StageInv, Begun
<1>7. LengthInv'
  <2>1. i' > 2
    BY <1>1, <1>2, Typed
  <2>2. (resp'.err => "error" \in done') => (resp'.err => f = "error")
    BY <1>1, <1>3 DEF Begun
  <2>. QED  BY <1>1, <1>4, <2>1, <2>2 DEF LengthInv
<1>. QED  BY <1>5, <1>6, <1>7 DEF FrameInv

\* A HEAD for something else than a directory finds no answer before the file filter.
LEMMA HeadKept ==
    ASSUME Grounds, FrameInv, "request" \in done, "request" \in done',
           opened' = opened, done \subseteq done',
           UNCHANGED taken, req'.method = req.method,
           req'.target \in Slashed => req'.target = req.target,
           "file" \in done' => "file" \in Begun,
           resp'.head = resp.head, resp'.ka => resp.ka,
           "virtspace" \in opened \/ "autoindex" \in opened \/ "file" \in Begun \/
               (resp'.code = resp.code /\ (resp'.err <=> resp.err))
    PROVE  HeadInv'
<1>1. Asked' = Asked /\ ("file" \in Begun' <=> "file" \in Begun)
  BY DEF Asked, Begun
<1>2. HeadInv
  BY DEF FrameInv
<1>. QED  BY <1>1, <1>2 DEF HeadInv

\* The index filter.
LEMMA IndexKept ==
    ASSUME Grounds, FrameInv, IndexFound \/ IndexNotFound
    PROVE  FrameInv'
<1>1. /\ Processing("index", "run") /\ Forward({"index"}, 0)
      /\ UNCHANGED <<resp, file, contLen, iov, wire, taken>>
      /\ req'.method = req.method /\ (req'.target \in Slashed => req'.target = req.target)
  <2>1. req \in Request
    BY Typed
  <2>. QED  BY <2>1 DEF IndexFound, IndexNotFound, respVars, reqVars, pastVars, Slashed, Request
<1>2. resp.code = 0 /\ "request" \in done
  BY <1>1, Order DEF Processing, FrameInv, StageInv, Grounds
<1>3. resp.len = NoLen /\ ~resp.err /\ ~resp.done
  <2>1. "response" \notin done
    BY <1>1, Order, Ahead DEF Processing, Grounds, Begun
  <2>. QED  BY <1>2, <2>1 DEF FrameInv, StageInv
<1>4. HeadInv'
  <2>1. opened' = opened /\ done \subseteq done' /\ "request" \in done'
        /\ ("file" \in done' => "file" \in Begun)
    BY <1>1, <1>2 DEF Forward, Begun
  <2>. QED  BY <1>1, <1>2, <2>1, HeadKept
<1>. QED  BY <1>1, <1>2, <1>3, <1>4, AnswerKept

\* The filters that send a document of their own, or none.
LEMMA DocumentKept ==
    ASSUME "oom" \notin MayHappen, Grounds, FrameInv,
           VirtspaceProcess \/ AutoindexListed \/ AutoindexFailed \/ ErrorProcess
    PROVE  FrameInv'
<1>1. resp \in Resp /\ {403, 404} \subseteq Statuses
  BY Typed DEF Statuses
<1>2. /\ UNCHANGED <<file, contLen, iov, wire, taken, req>>
      /\ resp'.head = resp.head /\ (resp'.ka => resp.ka)
  <2>1. CASE VirtspaceProcess
    BY <1>1, <2>1 DEF VirtspaceProcess, reqVars, pastVars, Resp
  <2>2. CASE AutoindexListed
    BY <1>1, <2>2 DEF AutoindexListed, reqVars, pastVars, Resp
  <2>3. CASE AutoindexFailed
    <3>1. resp' = Status(resp, 404) \/ resp' = Status(resp, 403)
      BY <2>3 DEF AutoindexFailed, OutOfMemory
    <3>2. resp'.head = resp.head /\ (resp'.ka => resp.ka)
      BY <1>1, <3>1, StatusFields
    <3>. QED  BY <2>3, <3>2 DEF AutoindexFailed, reqVars, pastVars
  <2>4. CASE ErrorProcess
    BY <1>1, <2>4 DEF ErrorProcess, reqVars, pastVars, Resp
  <2>. QED  BY <2>1, <2>2, <2>3, <2>4
<1>3. ASSUME NEW f \in {"virtspace", "autoindex", "error"}, Processing(f, "run"),
             NEW n, Forward({f}, n)
      PROVE  "request" \in done /\ HeadInv'
  <2>1. i > 2
    BY <1>3, Stands DEF Grounds, Processing
  <2>2. "request" \in done
    BY <2>1, Ahead, Typed DEF Grounds
  <2>3. f = "error" => "file" \in Begun
    BY <1>3, Ahead, Stands, Typed DEF Grounds, Processing
  <2>4. /\ opened' = opened /\ done \subseteq done' /\ "request" \in done'
        /\ "file" \in done' => "file" \in Begun
        /\ "virtspace" \in opened \/ "autoindex" \in opened \/ "file" \in Begun
    BY <1>3, <2>2, <2>3 DEF Processing, Forward, Begun
  <2>. QED  BY <1>2, <2>2, <2>4, HeadKept
<1>4. CASE VirtspaceProcess \/ AutoindexListed \/ ErrorProcess
  <2>1. PICK f \in {"virtspace", "autoindex", "error"}, n \in Nat :
            /\ Processing(f, "run") /\ Forward({f}, n)
            /\ resp'.len = n
            /\ resp'.code = 200 \/ (f = "error" /\ resp'.code = resp.code)
    <3>1. CASE VirtspaceProcess
      BY <1>1, <3>1 DEF VirtspaceProcess, Resp
    <3>2. CASE AutoindexListed
      BY <1>1, <3>2 DEF AutoindexListed, Resp
    <3>3. CASE ErrorProcess
      BY <1>1, <3>3 DEF ErrorProcess, Resp
    <3>. QED  BY <1>4, <3>1, <3>2, <3>3
  <2>2. resp'.code # 0
    BY <2>1 DEF Processing, FrameInv, StageInv
  <2>. QED  BY <1>2, <1>3, <2>1, <2>2, AnswerKept DEF NoLen
<1>5. CASE AutoindexFailed
  <2>1. Processing("autoindex", "run") /\ Forward({"autoindex"}, 0)
    BY <1>5 DEF AutoindexFailed
  <2>2. resp'.err /\ resp'.code # 0
    BY <1>1, <1>5, StatusFields DEF AutoindexFailed, OutOfMemory
  <2>. QED  BY <1>2, <1>3, <2>1, <2>2, AnswerKept DEF NoLen
<1>. QED  BY <1>4, <1>5

-----------------------------------------------------------------------------
(* The file filter. *)

\* Where the file filter stands, and what comes after it as long as it reads no file.
LEMMA FileSite ==
    ASSUME Grounds, FrameInv, Filters[i] = "file"
    PROVE  /\ i = AtFile /\ i = 5 + V /\ i > 2 /\ "request" \in done
           /\ "file" \notin done /\ file.state # 2 =>
                 /\ "transfer" \notin Begun /\ "response" \notin Begun
                 /\ ~back /\ ~Reading /\ Left = 0
                 /\ Len(taken) >= Len(wire)
<1>1. i = AtFile /\ i = 5 + V /\ i > 2
  BY Stands, Typed DEF Grounds
<1>2. "request" \in done
  BY <1>1, Ahead, Typed DEF Grounds
<1>3. ASSUME "file" \notin done, file.state # 2
      PROVE  /\ "transfer" \notin Begun /\ "response" \notin Begun
             /\ ~back /\ ~Reading /\ Left = 0
             /\ Len(taken) >= Len(wire)
  <2>1. "transfer" \notin Begun
    BY <1>3 DEF FrameInv, StageInv
  <2>2. Len(taken) >= Len(wire)
    BY Typed DEF Grounds, AlignInv
  <2>. QED  BY <1>1, <1>3, <2>1, <2>2, EarlyFacts DEF Reading, Left
<1>. QED  BY <1>1, <1>2, <1>3

\* A file call has given the answer.
LEMMA FileAnswered ==
    ASSUME Grounds, FrameInv, Filters[i] = "file", "file" \in opened, "file" \notin done,
           file.state # 2, Forward({"file"}, 0),
           UNCHANGED <<file, contLen, iov, wire, taken, req>>,
           resp'.code # 0, resp'.head = resp.head, resp'.ka => resp.ka,
           resp'.len = NoLen \/ resp'.head
    PROVE  FrameInv'
<1>1. /\ i = AtFile /\ i = 5 + V /\ i > 2 /\ "request" \in done
      /\ "transfer" \notin Begun /\ "response" \notin Begun /\ ~Reading
      /\ Len(taken) >= Len(wire)
  BY FileSite
<1>2. opened' = opened /\ done' = done \cup {"file"} /\ i' = i + 1 /\ ~back' /\ input' = 0
  BY DEF Forward
<1>3. ~Reading' /\ i' # 1
  BY <1>1, <1>2, Typed DEF Reading
<1>4. FlowInv' /\ BodyInv' /\ WireInv' /\ "transfer" \notin Begun'
  BY <1>1, <1>2, <1>3, EarlyKept
<1>5. HeadInv'
  BY <1>1, <1>2, HeadKept DEF Begun
<1>6. StageInv'
  <2>1. /\ "request" \in done' /\ "file" \in done' /\ "response" \notin Begun'
        /\ "index" \notin opened' \ done' /\ "error" \notin opened' \ done'
    <3>1. "index" \in done
      BY Order DEF Grounds
    <3>2. "error" \notin opened \ done
      BY DEF FrameInv, StageInv
    <3>. QED  BY <1>1, <1>2, <3>1, <3>2 DEF Begun
  <2>2. "file" \in opened' /\ file'.state # 2
    BY <1>2
  <2>. QED  BY <1>3, <1>4, <2>1, <2>2 DEF StageInv, Begun
<1>7. LengthInv'
  <2>1. i' > 2
    BY <1>1, <1>2, Typed
  <2>2. input' = 0 /\ (resp'.len = NoLen \/ resp'.head)
    BY <1>2
  <2>. QED  BY <2>1, <2>2 DEF LengthInv
<1>. QED  BY <1>4, <1>5, <1>6, <1>7 DEF FrameInv

\* The file filter is opened, or passed over.
LEMMA FileOpenKept ==
    ASSUME "oom" \notin MayHappen, Grounds, FrameInv, FileOpen
    PROVE  FrameInv'
<1>. DEFINE skipped == resp.err \/ resp.code # 0
            r == [resp EXCEPT !.head = req.method = "HEAD"]
<1>1. /\ Filters[i] = "file" /\ "file" \notin Begun
      /\ UNCHANGED <<i, back, input, file, contLen, iov, wire, taken, req>>
      /\ \/ opened' = opened /\ done' = done \cup {"file"}
         \/ opened' = opened \cup {"file"} /\ done' = done /\ ~skipped
      /\ \/ skipped /\ resp' = resp
         \/ /\ ~skipped /\ req.method = "POST"
            /\ resp' = Status(resp, 405) /\ "file" \in done'
         \/ ~skipped /\ req.method # "POST" /\ resp' = r
  BY DEF FileOpen, Opening, OpenOk, OpenSkip, OutOfMemory, reqVars, pastVars, Begun
<1>2. file.state = 0
  BY <1>1 DEF FrameInv, StageInv, Begun
<1>3. /\ i = AtFile /\ i = 5 + V /\ i > 2 /\ "request" \in done
      /\ "transfer" \notin Begun /\ "response" \notin Begun /\ ~Reading /\ ~back
      /\ Len(taken) >= Len(wire)
  BY <1>1, <1>2, FileSite DEF Begun
<1>4. /\ ~skipped => resp.code = 0 /\ ~resp.err /\ resp.len = NoLen /\ ~resp.done /\ input = 0
      /\ ~resp.head
  BY <1>1, <1>3 DEF FrameInv, StageInv, LengthInv, HeadInv, Begun
<1>5. /\ resp \in Resp /\ 405 \in Statuses
  BY Typed DEF Statuses
<1>6. /\ r.code = resp.code /\ (r.err <=> resp.err) /\ r.len = resp.len /\ (r.ka <=> resp.ka)
      /\ (r.done <=> resp.done) /\ (r.head <=> req.method = "HEAD")
  BY <1>5 DEF Resp
<1>. HIDE DEF skipped, r
<1>7. resp'.ka => resp.ka
  BY <1>1, <1>5, <1>6, StatusFields
<1>8. /\ resp'.len = resp.len
      /\ skipped => resp' = resp
      /\ ~skipped /\ resp'.code = 0 => ~resp'.err /\ ~resp'.done
      /\ ~skipped /\ resp'.code # 0 => "file" \in done'
  BY <1>1, <1>4, <1>5, <1>6, StatusFields
<1>9. FlowInv' /\ BodyInv' /\ WireInv' /\ "transfer" \notin Begun'
  <2>1. ~Reading' /\ ~back' /\ i' # 1
    BY <1>1, <1>2, <1>3, Typed DEF Reading
  <2>. QED  BY <1>1, <1>3, <2>1, EarlyKept
<1>10. HeadInv'
  <2>1. HeadInv /\ Asked' = Asked /\ "file" \in Begun'
    BY <1>1 DEF FrameInv, Asked, Begun
  <2>2. "request" \in done' /\ "request" \in done
    BY <1>1, <1>3
  <2>3. /\ "virtspace" \in opened' <=> "virtspace" \in opened
        /\ "autoindex" \in opened' <=> "autoindex" \in opened
    BY <1>1
  <2>4. req.method = Asked.method /\ req' = req
    BY <1>1, <2>1, <2>2 DEF HeadInv
  <2>5. resp'.head => Asked.method = "HEAD"
    BY <1>1, <1>4, <1>5, <1>6, <2>4, StatusFields
  <2>6. Asked.method = "HEAD" /\ Asked.target \notin Slashed /\ resp'.ka => resp'.head
    <3>. SUFFICES ASSUME Asked.method = "HEAD", Asked.target \notin Slashed, resp'.ka
                  PROVE  resp'.head
      OBVIOUS
    <3>1. resp.code = 0 /\ ~resp.err
      BY <1>1, <1>7, <2>1, <2>2 DEF HeadInv
    <3>. QED  BY <1>1, <1>6, <2>4, <3>1 DEF skipped
  <2>. QED  BY <2>1, <2>2, <2>3, <2>4, <2>5, <2>6 DEF HeadInv
<1>11. StageInv'
  <2>1. /\ "request" \in done' /\ "response" \notin Begun' /\ file'.state = 0
        /\ "index" \notin opened' \ done'
        /\ "file" \in opened' \ done' => resp'.code = 0
        /\ "error" \in opened' \ done' => "error" \in opened \ done
    <3>1. "index" \in done
      BY <1>1, Order DEF Grounds
    <3>2. resp'.code # 0 => skipped \/ "file" \in done'
      BY <1>8
    <3>3. "file" \in opened' \ done' => ~skipped
      BY <1>1 DEF Begun
    <3>. QED  BY <1>1, <1>2, <1>3, <3>1, <3>2, <3>3 DEF Begun
  <2>2. resp'.code = 0 => resp'.len = NoLen /\ ~resp'.err /\ ~resp'.done
    <3>1. CASE skipped
      <4>1. "response" \notin done
        BY <1>3 DEF Begun
      <4>. QED  BY <1>8, <3>1, <4>1 DEF FrameInv, StageInv
    <3>2. CASE ~skipped
      BY <1>4, <1>8, <3>2
    <3>. QED  BY <3>1, <3>2
  <2>3. "error" \in opened' \ done' => resp'.err
    <3>1. "error" \in opened \ done => resp.err
      BY DEF FrameInv, StageInv
    <3>2. resp.err => skipped
      BY DEF skipped
    <3>. QED  BY <1>8, <2>1, <3>1, <3>2
  <2>4. ~(i' > AtFile') /\ ~Reading'
    BY <1>1, <1>3, <2>1, Typed DEF Reading
  <2>. QED  BY <1>9, <2>1, <2>2, <2>3, <2>4 DEF StageInv, Begun
<1>12. LengthInv'
  <2>1. resp'.len # NoLen => resp' = resp
    BY <1>4, <1>8
  <2>2. ~Reading' /\ Left = 0 /\ Left' = 0
    BY <1>1, <1>2, <1>3 DEF Reading, Left
  <2>3. "error" \in done' <=> "error" \in done
    BY <1>1
  <2>4. i' = i /\ i > 2 /\ input' = input
    BY <1>1, <1>3
  <2>. QED  BY <1>3, <1>8, <2>1, <2>2, <2>3, <2>4 DEF FrameInv, LengthInv
<1>. QED  BY <1>9, <1>10, <1>11, <1>12 DEF FrameInv

\* A file call has done its part, and the file filter makes the next.
LEMMA FileGoesOn ==
    ASSUME Grounds, FrameInv, Filters[i] = "file", "file" \in opened, "file" \notin done,
           file.state # 2,
           UNCHANGED <<i, back, opened, done, input, contLen, iov, wire, taken, req>>,
           \/ resp' = resp /\ file'.state # 2
           \/ /\ file'.state = 2 /\ ~resp.head /\ file'.left \in Nat
              /\ resp'.code # 0 /\ resp'.len = file'.left
              /\ resp'.head = resp.head /\ resp'.err = resp.err /\ resp'.done = resp.done
              /\ resp'.ka = resp.ka
    PROVE  FrameInv'
<1>1. /\ i = AtFile /\ i = 5 + V /\ i > 2 /\ "request" \in done
      /\ "transfer" \notin Begun /\ "response" \notin Begun /\ ~Reading /\ ~back /\ Left = 0
      /\ Len(taken) >= Len(wire) /\ "index" \in done
  BY FileSite, Order DEF Grounds
<1>2. /\ resp.code = 0 /\ ~resp.err /\ resp.len = NoLen /\ ~resp.done /\ input = 0
      /\ resp'.head = resp.head
  BY <1>1 DEF FrameInv, StageInv, LengthInv, Begun
<1>3. FlowInv' /\ BodyInv' /\ WireInv' /\ "transfer" \notin Begun'
  <2>1. input' = 0
    BY <1>2
  <2>. QED  BY <1>1, <2>1, EarlyKept
<1>4. HeadInv'
  <2>1. HeadInv /\ Asked' = Asked /\ "file" \in Begun /\ (Begun' = Begun) /\ resp'.ka = resp.ka
    BY DEF FrameInv, Asked, Begun
  <2>. QED  BY <1>1, <1>2, <2>1 DEF HeadInv
<1>5. StageInv'
  <2>1. /\ ~(i' > AtFile') /\ i' >= AtFile' /\ "response" \notin Begun'
        /\ "error" \notin opened' \ done'
    <3>1. "error" \notin opened \ done
      BY <1>2 DEF FrameInv, StageInv
    <3>. QED  BY <1>1, <3>1, Typed DEF Begun
  <2>2. CASE resp' = resp /\ file'.state # 2
    BY <1>1, <1>2, <1>3, <2>1, <2>2 DEF StageInv, Reading, Begun
  <2>3. CASE resp' # resp \/ file'.state = 2
    <3>1. resp'.len # NoLen /\ ~resp'.err /\ ~resp'.done /\ ~resp'.head
      BY <1>2, <2>3 DEF NoLen
    <3>. QED  BY <1>1, <1>3, <2>1, <2>3, <3>1 DEF StageInv, Reading, Begun
  <2>. QED  BY <2>2, <2>3
<1>6. LengthInv'
  <2>1. CASE resp' = resp /\ file'.state # 2
    BY <1>1, <1>2, <2>1 DEF LengthInv
  <2>2. CASE resp' # resp \/ file'.state = 2
    <3>1. Left' = file'.left /\ input' = 0 /\ i' > 2
      BY <1>1, <1>2, <2>2 DEF Left, Reading
    <3>2. resp'.len = Left' + input' /\ resp'.len # NoLen
      BY <2>2, <3>1 DEF NoLen
    <3>. QED  BY <3>1, <3>2 DEF LengthInv
  <2>. QED  BY <2>1, <2>2
<1>. QED  BY <1>3, <1>4, <1>5, <1>6 DEF FrameInv

\* The file is opened, and looked at.
LEMMA FileCallsKept ==
    ASSUME "oom" \notin MayHappen, Grounds, FrameInv, FileOpened \/ FileInfo
    PROVE  FrameInv'
<1>1. /\ Filters[i] = "file" /\ "file" \in opened /\ "file" \notin done /\ file.state # 2
      /\ UNCHANGED <<contLen, iov, wire, taken, req>>
  <2>1. CASE FileOpened
    BY <2>1 DEF FileOpened, CallReturns, Processing, reqVars, pastVars
  <2>2. CASE FileInfo
    <3>1. CallReturns("file") /\ file.state = 1 /\ UNCHANGED <<reqVars, contLen, iov, pastVars>>
      BY <2>2 DEF FileInfo
    <3>. QED  BY <3>1 DEF CallReturns, Processing, reqVars, pastVars
  <2>. QED  BY <2>1, <2>2
<1>2. /\ resp.code = 0 /\ resp.len = NoLen /\ {301, 304, 403, 404, 500} \subseteq Statuses
      /\ resp \in Resp /\ file \in [state : 0 .. 2, left : Nat]
  BY <1>1, Typed DEF FrameInv, StageInv, Statuses
<1>3. ASSUME NEW c \in {301, 304, 403, 404, 500}, FileDone(Status(resp, c))
      PROVE  FrameInv'
  <2>1. /\ resp'.code # 0 /\ resp'.len = NoLen /\ resp'.head = resp.head /\ (resp'.ka => resp.ka)
        /\ Forward({"file"}, 0) /\ UNCHANGED file
    <3>1. resp' = Status(resp, c) /\ c \in Statuses /\ c # 0
      BY <1>2, <1>3 DEF FileDone
    <3>2. /\ resp'.code # 0 /\ resp'.len = NoLen /\ resp'.head = resp.head
          /\ resp'.ka => resp.ka
      BY <1>2, <3>1 DEF Status, Resp
    <3>. QED  BY <1>3, <3>2 DEF FileDone
  <2>. QED  BY <1>1, <2>1, FileAnswered
<1>4. CASE FileOpened
  <2>1. CASE /\ file' = [file EXCEPT !.state = 1] /\ NextCall /\ UNCHANGED resp
    BY <1>1, <1>2, <2>1, FileGoesOn DEF NextCall
  <2>. QED  BY <1>3, <1>4, <2>1 DEF FileOpened
<1>5. CASE FileInfo
  <2>1. ASSUME NEW n \in 0 .. MaxSize, resp.head,
               FileDone([resp EXCEPT !.code = 200, !.len = n, !.done = TRUE])
        PROVE  FrameInv'
    <3>1. /\ resp'.code = 200 /\ resp'.head = resp.head /\ resp'.ka = resp.ka
          /\ Forward({"file"}, 0) /\ UNCHANGED file
      <4>1. resp' = [resp EXCEPT !.code = 200, !.len = n, !.done = TRUE]
        BY <2>1 DEF FileDone
      <4>2. resp'.code = 200 /\ resp'.head = resp.head /\ resp'.ka = resp.ka
        BY <1>2, <4>1 DEF Resp
      <4>. QED  BY <2>1, <4>2 DEF FileDone
    <3>. QED  BY <1>1, <2>1, <3>1, FileAnswered
  <2>2. ASSUME NEW n \in 0 .. MaxSize, ~resp.head,
               resp' = [resp EXCEPT !.code = 200, !.len = n],
               NextCall, file' = [state |-> 2, left |-> n]
        PROVE  FrameInv'
    <3>1. /\ resp'.code = 200 /\ resp'.len = n /\ resp'.head = resp.head /\ resp'.ka = resp.ka
          /\ resp'.err = resp.err /\ resp'.done = resp.done
          /\ file'.state = 2 /\ file'.left = n /\ n \in Nat
      BY <1>2, <2>2 DEF Resp
    <3>. QED  BY <1>1, <2>2, <3>1, FileGoesOn DEF NextCall
  <2>3. QED
    <3>1. ~OutOfMemory
      BY DEF OutOfMemory
    <3>2. \/ Redirected \/ NotModified \/ FileDone(Status(resp, 403))
          \/ \E n \in 0 .. MaxSize :
                IF resp.head
                THEN FileDone([resp EXCEPT !.code = 200, !.len = n, !.done = TRUE])
                ELSE /\ resp' = [resp EXCEPT !.code = 200, !.len = n]
                     /\ NextCall /\ file' = [state |-> 2, left |-> n]
      BY <1>5, <3>1, Zenon DEF FileInfo
    <3>3. Redirected => FileDone(Status(resp, 301))
      BY DEF Redirected
    <3>4. NotModified => FileDone(Status(resp, 304))
      BY DEF NotModified
    <3>5. CASE Redirected \/ NotModified \/ FileDone(Status(resp, 403))
      BY <1>3, <3>3, <3>4, <3>5
    <3>. QED  BY <2>1, <2>2, <3>2, <3>5
<1>. QED  BY <1>4, <1>5

\* The file filter reads.
LEMMA FileReadKept ==
    ASSUME Grounds, FrameInv, FileRead
    PROVE  FrameInv'
<1>1. /\ Filters[i] = "file" /\ "file" \in opened /\ "file" \notin done /\ file.state = 2
      /\ UNCHANGED <<contLen, iov, wire, taken, req>>
      /\ i' = i + 1 /\ ~back' /\ opened' = opened
  BY DEF FileRead, FileDone, Forward, CallReturns, Processing, reqVars, pastVars
<1>2. /\ i = AtFile /\ i = 5 + V /\ i > 2 /\ "request" \in done /\ "index" \in done
      /\ Reading /\ Left = file.left
  BY <1>1, FileSite, Order DEF Grounds, Reading, Left
<1>3. /\ resp \in Resp /\ file \in [state : 0 .. 2, left : Nat]
  BY Typed
<1>4. /\ resp.len # NoLen /\ resp.code # 0 /\ ~resp.head /\ ~resp.err /\ ~resp.done
      /\ input = 0 /\ iov = NoIov /\ "send" \notin done
  BY <1>2, <1>3, Typed DEF FrameInv, StageInv, FlowInv, Reading
<1>5. /\ resp'.code = resp.code /\ resp'.len = resp.len /\ (resp'.err <=> resp.err)
      /\ (resp'.head <=> resp.head) /\ (resp'.ka <=> resp.ka)
      /\ (resp'.resized <=> resp.resized)
      /\ resp'.done => "file" \in done'
      /\ file'.state = 2 /\ Left' + input' = Left /\ (input' = 0 \/ ~resp'.done)
      /\ done' = done \/ done' = done \cup {"file"}
  <2>1. CASE file.left = 0
    <3>1. /\ resp' = [resp EXCEPT !.done = TRUE] /\ done' = done \cup {"file"}
          /\ input' = 0 /\ file' = file
      BY <2>1 DEF FileRead, FileDone, Forward
    <3>. QED  BY <1>1, <1>2, <1>3, <2>1, <3>1 DEF Resp, Left, Reading
  <2>2. CASE file.left # 0
    <3>1. /\ resp' = resp /\ done' = done /\ input' = 1 /\ file' = [file EXCEPT !.left = @ - 1]
      BY <2>2 DEF FileRead, Forward
    <3>2. file'.state = 2 /\ file'.left = file.left - 1 /\ Left' = file'.left
      BY <1>1, <1>3, <3>1 DEF Left, Reading
    <3>. QED  BY <1>2, <1>3, <1>4, <3>1, <3>2
  <2>. QED  BY <2>1, <2>2
<1>6. /\ "file" \in Begun /\ "file" \in Begun' /\ Asked' = Asked /\ Last' = Last
      /\ HeaderSent' = HeaderSent
      /\ \A g \in FilterSet \ {"file"} : g \in done' <=> g \in done
      /\ "transfer" \in Begun' <=> "transfer" \in Begun
      /\ "response" \in Begun' <=> "response" \in Begun
      /\ "response" \in done' <=> "response" \in done
      /\ "transfer" \in done' <=> "transfer" \in done
      /\ "error" \in done' <=> "error" \in done
      /\ "send" \in done' <=> "send" \in done
      /\ "request" \in done' <=> "request" \in done
      /\ "index" \in done' <=> "index" \in done
  BY <1>1, <1>5 DEF Begun, Asked, Last, HeaderSent
<1>7. HeadInv'
  BY <1>1, <1>5, <1>6 DEF FrameInv, HeadInv
<1>8. StageInv'
  <2>1. i' >= AtFile'
    BY <1>1, <1>2, Typed
  <2>. QED  BY <1>1, <1>2, <1>4, <1>5, <1>6, <2>1 DEF FrameInv, StageInv, Reading, Begun
<1>9. FlowInv'
  <2>1. i' # 1 /\ i' # AtFile'
    BY <1>1, <1>2, Typed
  <2>. QED  BY <1>1, <1>4, <1>6, <2>1 DEF FrameInv, FlowInv
<1>10. LengthInv'
  <2>1. i' > 2
    BY <1>1, <1>2, Typed
  <2>2. Left' + input' = Left + input
    BY <1>2, <1>3, <1>4, <1>5
  <2>. QED  BY <1>4, <1>5, <1>6, <2>1, <2>2 DEF FrameInv, LengthInv
<1>11. BodyInv'
  <2>1. ~(i > AtTransfer) /\ ~(i' > AtTransfer') /\ i <= AtTransfer /\ i' <= AtTransfer'
    BY <1>1, <1>2, Spots
  <2>2. Before' = Before
    BY <1>2, <1>3, <1>4, <1>5, <2>1 DEF Before
  <2>3. After' = After
    BY <1>1, <1>6, <2>1 DEF After
  <2>. QED  BY <1>1, <1>4, <1>5, <1>6, <2>2, <2>3 DEF FrameInv, BodyInv
<1>12. WireInv'
  BY <1>1, <1>5, <1>6 DEF FrameInv, WireInv
<1>. QED  BY <1>7, <1>8, <1>9, <1>10, <1>11, <1>12 DEF FrameInv

\* The file is written to, or truncated.
LEMMA FileResizedKept ==
    ASSUME Grounds, FrameInv, FileResized
    PROVE  FrameInv'
<1>1. /\ UNCHANGED <<i, back, opened, done, input, contLen, iov, wire, taken, req>>
      /\ file.state = 2 /\ "file" \notin done /\ resp' = [resp EXCEPT !.resized = TRUE]
      /\ file'.state = 2
  BY Typed DEF FileResized, chainVars, reqVars, pastVars
<1>2. /\ resp'.code = resp.code /\ resp'.len = resp.len /\ resp'.err = resp.err
      /\ resp'.head = resp.head /\ resp'.ka = resp.ka /\ resp'.done = resp.done
      /\ resp'.resized
  BY <1>1, Typed DEF Resp
<1>3. /\ Reading /\ Reading' /\ ~resp.done /\ "request" \in done /\ ~resp.head
      /\ Asked' = Asked /\ Last' = Last /\ HeaderSent' = HeaderSent /\ Begun' = Begun
  BY <1>1 DEF FrameInv, StageInv, Reading, Asked, Last, HeaderSent, Begun
<1>4. HeadInv'
  BY <1>1, <1>2, <1>3 DEF FrameInv, HeadInv
<1>5. StageInv'
  BY <1>1, <1>2, <1>3, Typed DEF FrameInv, StageInv
<1>6. FlowInv'
  BY <1>1, <1>2, <1>3, Typed DEF FrameInv, FlowInv
<1>7. LengthInv'
  BY <1>1, <1>2, <1>3 DEF FrameInv, LengthInv
<1>8. BodyInv'
  BY <1>1, <1>2, <1>3 DEF FrameInv, BodyInv
<1>9. WireInv'
  BY <1>1, <1>2, <1>3 DEF FrameInv, WireInv
<1>. QED  BY <1>4, <1>5, <1>6, <1>7, <1>8, <1>9 DEF FrameInv

-----------------------------------------------------------------------------
(* transfer and response. *)

\* The transfer filter looks for a length.
LEMMA TransferOpenKept ==
    ASSUME Grounds, FrameInv, TransferOpen
    PROVE  FrameInv'
<1>1. /\ i = AtTransfer /\ i = 7 + V /\ i > 2 /\ "transfer" \notin Begun
      /\ UNCHANGED <<i, back, input, file, iov, wire, taken, req>>
  BY Stands, Spots DEF TransferOpen, Opening, Begun, reqVars, pastVars, OpenOk, OpenSkip, Grounds
<1>2. /\ "response" \notin Begun /\ "send" \notin Begun /\ iov = NoIov /\ ~HeaderSent
  BY <1>1, EarlyFacts
<1>3. "error" \in done /\ "request" \in done /\ "file" \in Begun
  BY <1>1, Ahead, Typed DEF Grounds
<1>4. CASE resp.len = NoLen
  <2>1. /\ opened' = opened /\ done' = done \cup {"transfer"} /\ contLen' = contLen
        /\ resp' = [resp EXCEPT !.ka = FALSE]
    BY <1>4 DEF TransferOpen, OpenSkip
  <2>2. /\ resp'.code = resp.code /\ resp'.len = resp.len /\ (resp'.err <=> resp.err)
        /\ (resp'.head <=> resp.head) /\ ~resp'.ka /\ (resp'.done <=> resp.done)
    BY <2>1, Typed DEF Resp
  <2>3. /\ "response" \notin Begun' /\ "send" \notin Begun' /\ ~HeaderSent' /\ iov' = NoIov
        /\ "transfer" \in Begun' /\ "transfer" \notin opened' /\ Asked' = Asked
        /\ "file" \in Begun' /\ (Reading' <=> Reading) /\ "error" \in done'
        /\ "request" \in done' /\ ("file" \in done' <=> "file" \in done)
        /\ ("index" \in done' <=> "index" \in done)
    BY <1>1, <1>2, <1>3, <2>1 DEF Begun, HeaderSent, Asked, Reading
  <2>4. HeadInv'
    BY <1>1, <1>3, <2>1, <2>2, <2>3 DEF FrameInv, HeadInv
  <2>5. StageInv'
    <3>1. "file" \in done \/ file.state = 2
      BY <1>1, Typed DEF FrameInv, StageInv
    <3>2. i >= AtFile'
      BY <1>1, Typed
    <3>. QED  BY <1>1, <1>2, <1>3, <2>1, <2>2, <2>3, <3>1, <3>2 DEF FrameInv, StageInv, Begun
  <2>6. FlowInv'
    <3>1. i' # 1 /\ i' # AtFile'
      BY <1>1, Typed
    <3>. QED  BY <1>1, <2>1, <2>3, <3>1 DEF FrameInv, FlowInv, Begun
  <2>7. LengthInv' /\ BodyInv'
    BY <2>3 DEF LengthInv, BodyInv, Begun
  <2>8. WireInv'
    BY <1>1, <1>2, <2>3 DEF FrameInv, WireInv
  <2>. QED  BY <2>4, <2>5, <2>6, <2>7, <2>8 DEF FrameInv
<1>5. CASE resp.len # NoLen
  <2>1. /\ opened' = opened \cup {"transfer"} /\ done' = done /\ resp' = resp
        /\ contLen' = resp.len
    BY <1>5 DEF TransferOpen, OpenOk
  <2>2. /\ "response" \notin Begun' /\ "send" \notin Begun' /\ ~HeaderSent' /\ iov' = NoIov
        /\ "transfer" \in Begun' /\ "transfer" \notin done' /\ Asked' = Asked
        /\ "file" \in Begun' /\ (Reading' <=> Reading) /\ Left' = Left
    BY <1>1, <1>2, <1>3, <2>1 DEF Begun, HeaderSent, Asked, Reading, Left
  <2>3. HeadInv'
    BY <1>1, <1>3, <2>1, <2>2 DEF FrameInv, HeadInv
  <2>4. StageInv'
    <3>1. "file" \in done \/ file.state = 2
      BY <1>1, Typed DEF FrameInv, StageInv
    <3>2. i >= AtFile'
      BY <1>1, Typed
    <3>. QED  BY <1>1, <1>2, <1>3, <1>5, <2>1, <2>2, <3>1, <3>2 DEF FrameInv, StageInv, Begun
  <2>5. FlowInv'
    <3>1. i' # 1 /\ i' # AtFile'
      BY <1>1, Typed
    <3>. QED  BY <1>1, <2>1, <2>2, <3>1 DEF FrameInv, FlowInv, Begun
  <2>6. LengthInv'
    BY <2>2 DEF LengthInv
  <2>7. BodyInv'
    <3>1. ~resp.head /\ ~resp.resized => resp.len = Left + input
      BY <1>1, <1>3, <1>5 DEF FrameInv, LengthInv
    <3>2. Before' = Left + input /\ After' = 0
      <4>1. i' <= AtTransfer' /\ ~(i' > AtTransfer')
        BY <1>1, Typed
      <4>2. iov'.body = 0
        BY <2>2 DEF NoIov
      <4>. QED  BY <1>1, <2>2, <4>1, <4>2 DEF Before, After
    <3>3. resp.len = contLen' + After'
      BY <1>5, <2>1, <3>2, Typed DEF Resp, Lengths
    <3>4. "response" \notin done'
      BY <2>2 DEF Begun
    <3>. QED  BY <2>1, <3>1, <3>2, <3>3, <3>4 DEF BodyInv
  <2>8. WireInv'
    BY <1>1, <1>2, <2>2 DEF FrameInv, WireInv
  <2>. QED  BY <2>3, <2>4, <2>5, <2>6, <2>7, <2>8 DEF FrameInv
<1>. QED  BY <1>4, <1>5

\* Once its header is sent, the response is the last the peer has.
LEMMA HeaderLast ==
    ASSUME Grounds, HeaderSent
    PROVE  /\ Last \in Response /\ wire # <<>> /\ Len(wire) = Len(taken)
           /\ Len(wire) \in 1 .. Len(wire) /\ Asked = taken[Len(wire)] /\ Asked \in Request
<1>1. "request" \in done
  BY RequestBehind DEF Grounds, HeaderSent, Begun
<1>2. wire \in Seq(Response) /\ taken \in Seq(Requests) /\ taken # <<>>
  BY <1>1 DEF Grounds, TypeInv, DataTypes, AlignInv
<1>3. Len(wire) = Len(taken)
  BY <1>1, <1>2 DEF Grounds, AlignInv
<1>. QED  BY <1>1, <1>2, <1>3, AskedType DEF Last, Asked, Grounds

\* The transfer filter counts what goes by.
LEMMA TransferKept ==
    ASSUME Grounds, FrameInv, TransferProcess
    PROVE  FrameInv'
<1>. DEFINE n == IF input < contLen THEN input ELSE contLen
<1>1. /\ i = AtTransfer /\ i = 7 + V /\ i > 2 /\ "transfer" \in opened /\ "transfer" \notin done
      /\ UNCHANGED <<file, iov, wire, taken, req, resp>>
      /\ \/ back /\ Backward /\ contLen' = contLen
         \/ /\ ~back /\ contLen' = contLen - n
            /\ Forward(IF contLen' = 0 THEN {"transfer"} ELSE {}, n)
  BY Stands, Spots DEF TransferProcess, Processing, reqVars, pastVars, Grounds
<1>2. /\ i >= AtFile' /\ "request" \in done
      /\ \/ i' = i + 1 /\ ~back' /\ input' = n /\ contLen' = contLen - n
            /\ opened' = opened
            /\ \/ done' = done
               \/ done' = done \cup {"transfer"} /\ contLen' = 0
         \/ i' = i - 1 /\ back' /\ input' = 0 /\ input = 0 /\ contLen' = contLen
            /\ opened' = opened /\ done' = done
  <2>1. i >= AtFile' /\ "request" \in done /\ i # 1
    BY <1>1, Ahead, Typed DEF Grounds
  <2>2. back => input = 0
    BY DEF FrameInv, FlowInv
  <2>3. CASE back
    BY <1>1, <2>1, <2>2, <2>3 DEF Backward
  <2>4. CASE ~back
    BY <1>1, <2>1, <2>4 DEF Forward
  <2>. QED  BY <2>3, <2>4
<1>3. /\ "send" \notin done /\ iov = NoIov
  BY <1>1, Typed DEF FrameInv, FlowInv
<1>4. /\ "request" \in done' <=> "request" \in done
      /\ "index" \in done' <=> "index" \in done
      /\ "file" \in done' <=> "file" \in done
      /\ "error" \in done' <=> "error" \in done
      /\ "response" \in done' <=> "response" \in done
      /\ "send" \in done' <=> "send" \in done
      /\ opened' = opened /\ Asked' = Asked /\ Last' = Last
      /\ HeaderSent' <=> HeaderSent
      /\ Reading' <=> Reading
      /\ Left' = Left
  BY <1>1, <1>2 DEF Asked, Last, HeaderSent, Reading, Left
<1>5. "transfer" \in Begun' /\ (Begun' = Begun)
  BY <1>1, <1>2 DEF Begun
<1>. HIDE DEF n
<1>6. HeadInv'
  BY <1>1, <1>4, <1>5 DEF FrameInv, HeadInv
<1>7. StageInv'
  <2>1. "file" \in done \/ file.state = 2
    BY <1>1, Typed DEF FrameInv, StageInv
  <2>2. i' >= AtFile'
    BY <1>1, <1>2, Typed
  <2>. QED  BY <1>1, <1>2, <1>4, <1>5, <2>1, <2>2 DEF FrameInv, StageInv
<1>8. FlowInv'
  <2>1. i' # 1 /\ i' # AtFile'
    BY <1>1, <1>2, Typed
  <2>2. "transfer" \in done' => contLen' = 0
    BY <1>1, <1>2
  <2>. QED  BY <1>1, <1>2, <1>3, <1>4, <2>1, <2>2 DEF FrameInv, FlowInv
<1>9. LengthInv'
  BY <1>5 DEF LengthInv
<1>10. BodyInv'
  <2>0. input \in Nat /\ contLen \in Nat /\ Left \in Nat /\ AtTransfer' = 7 + V /\ V \in Nat
    BY Typed DEF Left
  <2>1. ASSUME ~resp.head, ~resp.resized
        PROVE  contLen' = Before' /\ resp.len = contLen' + After'
    <3>1. contLen = Before /\ resp.len = contLen + After
      BY <1>1, <2>1 DEF FrameInv, BodyInv
    <3>. DEFINE rest == IF HeaderSent THEN Last.body ELSE 0
    <3>2. rest \in Nat
      BY <1>3, HeaderLast, Typed DEF Response
    <3>3. iov.body = 0 /\ iov'.body = 0 /\ (IF HeaderSent' THEN Last'.body ELSE 0) = rest
      BY <1>1, <1>3, <1>4 DEF NoIov
    <3>4. Before = Left + input /\ After = 0 + rest
      <4>1. i <= AtTransfer /\ ~(i > AtTransfer)
        BY <1>1, Typed
      <4>. QED  BY <2>0, <3>2, <3>3, <4>1 DEF Before, After
    <3>. HIDE DEF rest
    <3>5. CASE back'
      <4>1. /\ i' <= AtTransfer' /\ ~(i' > AtTransfer')
            /\ input' = 0 /\ input = 0 /\ contLen' = contLen
        BY <1>1, <1>2, <2>0, <3>5
      <4>2. Before' = Left + 0 /\ After' = 0 + rest
        BY <1>4, <3>2, <3>3, <4>1 DEF Before, After
      <4>. QED  BY <2>0, <3>1, <3>4, <4>1, <4>2
    <3>6. CASE ~back'
      <4>1. ~(i' <= AtTransfer') /\ i' > AtTransfer' /\ input' = n /\ contLen' = contLen - n
        BY <1>1, <1>2, <2>0, <3>6
      <4>2. n = input
        BY <2>0, <3>1, <3>4 DEF n
      <4>3. Before' = Left + 0 /\ After' = input + rest
        BY <1>4, <2>0, <3>2, <3>3, <4>1, <4>2 DEF Before, After
      <4>4. resp' = resp
        BY <1>1
      <4>. QED  BY <2>0, <3>1, <3>2, <3>4, <4>1, <4>2, <4>3
    <3>. QED  BY <3>5, <3>6
  <2>2. "response" \in done /\ resp.head => input' = 0
    BY <1>2, <2>0 DEF FrameInv, BodyInv, n
  <2>. QED  BY <1>1, <1>4, <2>1, <2>2 DEF FrameInv, BodyInv
<1>11. WireInv'
  BY <1>1, <1>4 DEF FrameInv, WireInv
<1>. QED  BY <1>6, <1>7, <1>8, <1>9, <1>10, <1>11 DEF FrameInv

\* The response filter makes the header, and keeps a body from HEAD.
LEMMA ResponseKept ==
    ASSUME Grounds, FrameInv, ResponseProcess
    PROVE  FrameInv'
<1>1. /\ i = AtResponse /\ i = 8 + V /\ "response" \in opened /\ "response" \notin done
      /\ UNCHANGED <<opened, file, contLen, wire, taken, req>>
      /\ i' = i + 1 /\ ~back' /\ input' = 0 /\ done' = done \cup {"response"}
      /\ iov' = [hdr |-> TRUE, body |-> IF resp.head THEN 0 ELSE input]
      /\ resp' = IF resp.head THEN [resp EXCEPT !.done = TRUE] ELSE resp
  BY Stands, Typed DEF ResponseProcess, Processing, Forward, reqVars, pastVars, Grounds
<1>2. /\ "transfer" \in Begun /\ "request" \in done /\ "send" \notin done
  BY <1>1, Ahead, Typed DEF Grounds, Begun
<1>3. /\ resp'.code = resp.code /\ resp'.len = resp.len /\ (resp'.err <=> resp.err)
      /\ (resp'.head <=> resp.head) /\ (resp'.ka <=> resp.ka)
      /\ (resp'.resized <=> resp.resized) /\ (resp'.done <=> resp.done \/ resp.head)
  BY <1>1, Typed DEF Resp
<1>4. /\ ~HeaderSent /\ ~HeaderSent' /\ iov = NoIov /\ Begun' = Begun
      /\ Asked' = Asked /\ Last' = Last /\ (Reading' <=> Reading) /\ Left' = Left
      /\ iov'.hdr /\ iov'.body = (IF resp.head THEN 0 ELSE input)
  BY <1>1, Typed DEF FrameInv, FlowInv, HeaderSent, Begun, Asked, Last, Reading, Left
<1>5. /\ "request" \in done' <=> "request" \in done
      /\ "index" \in done' <=> "index" \in done
      /\ "file" \in done' <=> "file" \in done
      /\ "error" \in done' <=> "error" \in done
      /\ "transfer" \in done' <=> "transfer" \in done
      /\ "send" \in done' <=> "send" \in done
      /\ "response" \in done'
  BY <1>1
<1>6. HeadInv'
  BY <1>1, <1>3, <1>4, <1>5 DEF FrameInv, HeadInv
<1>7. StageInv'
  <2>1. /\ "file" \in done \/ file.state = 2
        /\ Reading => ~resp.head
    BY <1>1, Typed DEF FrameInv, StageInv, Reading
  <2>2. i' >= AtFile'
    BY <1>1, Typed
  <2>. QED  BY <1>1, <1>2, <1>3, <1>4, <1>5, <2>1, <2>2 DEF FrameInv, StageInv
<1>8. FlowInv'
  <2>1. i' # 1 /\ i' # AtFile' /\ i' = AtSend'
    BY <1>1, Typed
  <2>. QED  BY <1>1, <1>2, <1>5, <2>1 DEF FrameInv, FlowInv
<1>9. LengthInv'
  BY <1>2, <1>4 DEF LengthInv
<1>10. BodyInv'
  <2>0. input \in Nat /\ Left \in Nat
    BY Typed DEF Left
  <2>1. ASSUME "transfer" \in opened, ~resp.head, ~resp.resized
        PROVE  contLen = Before' /\ resp.len = contLen + After'
    <3>1. contLen = Before /\ resp.len = contLen + After
      BY <2>1 DEF FrameInv, BodyInv
    <3>2. ~(i <= AtTransfer) /\ i > AtTransfer /\ ~(i' <= AtTransfer') /\ i' > AtTransfer'
      BY <1>1, Typed
    <3>3. Before = Left + 0 /\ Before' = Left + 0
      BY <1>4, <3>2 DEF Before
    <3>4. After = input + 0 + 0
      BY <1>4, <3>2 DEF After, NoIov
    <3>5. After' = 0 + input + 0
      BY <1>1, <1>4, <2>1, <3>2 DEF After
    <3>. QED  BY <2>0, <3>1, <3>3, <3>4, <3>5
  <2>. QED  BY <1>1, <1>3, <1>4, <2>1 DEF BodyInv
<1>11. WireInv'
  BY <1>1, <1>4 DEF FrameInv, WireInv
<1>. QED  BY <1>6, <1>7, <1>8, <1>9, <1>10, <1>11 DEF FrameInv

-----------------------------------------------------------------------------
(* send, and the end of the chain. *)

\* What the peer has of the response after a send.
LEMMA SendLast ==
    ASSUME Grounds, FrameInv, "response" \in done,
           NEW v \in [hdr : BOOLEAN, body : Nat], v.hdr <=> iov.hdr, wire' = Received(v)
    PROVE  /\ Last'.len = resp.len /\ Last'.code = resp.code /\ (Last'.resized <=> resp.resized)
           /\ Last'.body = (IF HeaderSent THEN Last.body ELSE 0) + v.body
           /\ \A n \in 1 .. Len(wire') - 1 : Fit(taken[n], wire'[n])
<1>. DEFINE m == Len(wire')
<1>1. /\ wire' \in Seq(Response) /\ (m = IF v.hdr THEN Len(wire) + 1 ELSE Len(wire))
      /\ \A k \in 1 .. m - 1 : wire'[k] = wire[k]
      /\ m > 0 => /\ wire'[m].code = Continued(v).code /\ wire'[m].len = Continued(v).len
                  /\ wire'[m].body = Continued(v).body + v.body
                  /\ wire'[m].resized <=> (Continued(v).resized \/ resp.resized)
  BY ReceivedFields DEF Grounds
<1>2. Last' = wire'[m] /\ wire \in Seq(Response)
  BY Typed DEF Last
<1>3. CASE iov.hdr
  <2>1. ~HeaderSent /\ m = Len(wire) + 1 /\ m > 0
    BY <1>1, <1>2, <1>3 DEF HeaderSent
  <2>2. Continued(v) = Header
    BY <1>3 DEF Continued
  <2>3. /\ Header.len = resp.len /\ Header.code = resp.code /\ Header.resized = resp.resized
        /\ Header.body = 0
    BY DEF Header
  <2>4. \A n \in 1 .. Len(wire) : Fit(taken[n], wire[n])
    BY <1>2, <2>1 DEF FrameInv, WireInv
  <2>5. \A n \in 1 .. m - 1 : Fit(taken[n], wire'[n])
    BY <1>1, <1>2, <2>1, <2>4
  <2>. QED  BY <1>1, <1>2, <2>1, <2>2, <2>3, <2>5
<1>4. CASE ~iov.hdr
  <2>1. HeaderSent /\ m = Len(wire) /\ m > 0 /\ Last \in Response
    BY <1>1, <1>2, <1>4, HeaderLast DEF HeaderSent
  <2>2. Continued(v) = Last
    BY <1>4 DEF Continued, Last
  <2>3. Last.len = resp.len /\ Last.code = resp.code /\ (Last.resized => resp.resized)
    BY <2>1 DEF FrameInv, WireInv
  <2>4. \A n \in 1 .. Len(wire) - 1 : Fit(taken[n], wire[n])
    BY <2>1 DEF FrameInv, WireInv
  <2>5. \A n \in 1 .. m - 1 : Fit(taken[n], wire'[n])
    BY <1>1, <1>2, <2>1, <2>4
  <2>. QED  BY <1>1, <1>2, <2>1, <2>2, <2>3, <2>5
<1>. QED  BY <1>3, <1>4

\* What the send filter has to send.
LEMMA PendingIs ==
    ASSUME Grounds, FrameInv
    PROVE  /\ Pending \in [hdr : BOOLEAN, body : Nat]
           /\ Pending.hdr <=> iov.hdr
           /\ Pending.body = input + iov.body
           /\ iov.hdr => input = 0
<1>1. iov # NoIov => input = 0
  BY DEF FrameInv, FlowInv
<1>2. CASE input > 0
  BY <1>1, <1>2, Typed DEF Pending, NoIov
<1>3. CASE ~(input > 0)
  BY <1>1, <1>3, Typed DEF Pending
<1>4. iov.hdr => input = 0
  BY <1>1 DEF NoIov
<1>. QED  BY <1>2, <1>3, <1>4

\* A send, whole or in part, or a wait for one.
LEMMA SendKept ==
    ASSUME Grounds, FrameInv, SendAll \/ SendWait
    PROVE  FrameInv'
<1>. DEFINE sofar == IF HeaderSent THEN Last.body ELSE 0
            now == IF HeaderSent' THEN Last'.body ELSE 0
<1>1. /\ i = AtSend /\ i = 9 + V /\ "send" \in opened /\ "send" \notin done
      /\ UNCHANGED <<opened, file, contLen, taken, req, resp>>
      /\ input' = 0
      /\ \/ /\ SendWait /\ i' = i /\ done' = done
         \/ /\ SendAll /\ i' = i + 1 /\ ~back' /\ done' = done \cup {"send"} /\ resp.done
            /\ iov' = NoIov
         \/ /\ SendAll /\ i' = i - 1 /\ done' = done /\ iov' = NoIov
  <2>1. i = 9 + V /\ i = AtSend /\ i # 1 /\ "send" \in opened /\ "send" \notin done
    BY Stands, Typed DEF SendAll, SendWait, Sending, Processing, Grounds
  <2>2. CASE SendAll
    BY <2>1, <2>2 DEF SendAll, Forward, Backward, reqVars
  <2>3. CASE SendWait
    BY <2>1, <2>3 DEF SendWait, reqVars
  <2>. QED  BY <2>1, <2>2, <2>3
<1>2. /\ "transfer" \in Begun /\ "request" \in done /\ "response" \in done
  BY <1>1, Ahead, Typed DEF Grounds, Begun
<1>3. /\ Begun' = Begun /\ Asked' = Asked /\ (Reading' <=> Reading) /\ Left' = Left
      /\ \A f \in FilterSet \ {"send"} : f \in done' <=> f \in done
      /\ "request" \in done' /\ "response" \in done'
      /\ "index" \in done' <=> "index" \in done
      /\ "file" \in done' <=> "file" \in done
      /\ "error" \in done' <=> "error" \in done
      /\ "transfer" \in done' <=> "transfer" \in done
  BY <1>1, <1>2 DEF Begun, Asked, Reading, Left
<1>4. /\ input \in Nat /\ iov \in [hdr : BOOLEAN, body : Nat] /\ sofar \in Nat
  BY Typed, HeaderLast DEF Response
<1>5. \/ /\ wire' = wire /\ iov' = Pending /\ Pending # NoIov
      \/ /\ wire' = Received(Pending) /\ iov' = NoIov
      \/ /\ iov.hdr /\ Pending.body > 0 /\ iov' = [Pending EXCEPT !.hdr = FALSE]
         /\ wire' = Received([Pending EXCEPT !.body = 0])
  BY PendingIs DEF SendAll, SendWait
<1>6. /\ iov'.body + now = input + iov.body + sofar
      /\ iov'.body \in Nat /\ now \in Nat
      /\ HeaderSent' => /\ Last'.len = resp.len /\ Last'.code = resp.code
                        /\ Last'.resized => resp.resized
      /\ \A n \in 1 .. Len(wire') - (IF HeaderSent' THEN 1 ELSE 0) : Fit(taken[n], wire'[n])
      /\ iov' = NoIov => HeaderSent' /\ (resp.resized => Last'.resized)
  <2>1. CASE wire' = wire /\ iov' = Pending /\ Pending # NoIov
    <3>1. (HeaderSent' <=> HeaderSent) /\ Last' = Last /\ iov'.body = input + iov.body
      BY <1>2, <1>3, <2>1, PendingIs DEF HeaderSent, Last
    <3>2. now = sofar /\ wire \in Seq(Response)
      BY <3>1, Typed
    <3>3. WireInv
      BY DEF FrameInv
    <3>. HIDE DEF now, sofar
    <3>. QED  BY <1>4, <2>1, <3>1, <3>2, <3>3 DEF WireInv
  <2>2. CASE wire' = Received(Pending) /\ iov' = NoIov
    <3>1. HeaderSent' /\ iov'.body = 0
      BY <1>3, <2>2 DEF HeaderSent, NoIov
    <3>2. /\ Last'.len = resp.len /\ Last'.code = resp.code /\ (Last'.resized <=> resp.resized)
          /\ Last'.body = sofar + Pending.body
          /\ \A n \in 1 .. Len(wire') - 1 : Fit(taken[n], wire'[n])
      BY <1>2, <2>2, PendingIs, SendLast
    <3>. QED  BY <1>4, <3>1, <3>2, PendingIs
  <2>3. CASE /\ iov.hdr /\ Pending.body > 0 /\ iov' = [Pending EXCEPT !.hdr = FALSE]
             /\ wire' = Received([Pending EXCEPT !.body = 0])
    <3>. DEFINE v == [Pending EXCEPT !.body = 0]
    <3>1. v \in [hdr : BOOLEAN, body : Nat] /\ (v.hdr <=> iov.hdr) /\ v.body = 0
      BY PendingIs
    <3>2. ~iov'.hdr /\ iov'.body = Pending.body /\ HeaderSent' /\ iov' # NoIov
      BY <1>3, <2>3, PendingIs DEF HeaderSent, NoIov
    <3>. HIDE DEF v
    <3>3. /\ Last'.len = resp.len /\ Last'.code = resp.code /\ (Last'.resized <=> resp.resized)
          /\ Last'.body = sofar + v.body
          /\ \A n \in 1 .. Len(wire') - 1 : Fit(taken[n], wire'[n])
      BY <1>2, <2>3, <3>1, SendLast DEF v
    <3>. QED  BY <1>4, <3>1, <3>2, <3>3, PendingIs
  <2>. QED  BY <1>5, <2>1, <2>2, <2>3
<1>7. HeadInv'
  BY <1>1, <1>3 DEF FrameInv, HeadInv
<1>8. StageInv'
  <2>1. /\ "file" \in done \/ file.state = 2
    BY <1>1, Typed DEF FrameInv, StageInv
  <2>2. i' >= AtFile'
    BY <1>1, Typed
  <2>. QED  BY <1>1, <1>2, <1>3, <2>1, <2>2 DEF FrameInv, StageInv
<1>9. FlowInv'
  <2>1. i' # 1 /\ i' # AtFile' /\ (i' = i => i' = AtSend') /\ (i' = i + 1 => i' = AtLog')
    BY <1>1, Typed
  <2>2. "send" \in done' => i' = i + 1 /\ resp.done /\ iov' = NoIov
    BY <1>1
  <2>3. iov' # NoIov => i' = i /\ done' = done
    BY <1>1
  <2>. QED  BY <1>1, <1>3, <1>6, <2>1, <2>2, <2>3 DEF FrameInv, FlowInv
<1>10. LengthInv'
  BY <1>2, <1>3 DEF LengthInv
<1>11. BodyInv'
  <2>1. i > AtTransfer /\ i' > AtTransfer' /\ ~(i <= AtTransfer) /\ ~(i' <= AtTransfer')
    BY <1>1, Typed
  <2>2. Before = Left + 0 /\ Before' = Left + 0
    BY <1>3, <2>1 DEF Before
  <2>3. After = input + iov.body + sofar /\ After' = 0 + iov'.body + now
    BY <1>1, <2>1 DEF After
  <2>4. After' = After
    BY <1>4, <1>6, <2>3
  <2>5. resp.head => resp.done /\ input = 0 /\ iov.body = 0 /\ sofar = 0
    BY <1>2 DEF FrameInv, BodyInv
  <2>6. resp.head => iov'.body = 0 /\ now = 0
    BY <1>6, <2>5
  <2>. QED  BY <1>1, <1>2, <2>2, <2>4, <2>5, <2>6 DEF FrameInv, BodyInv
<1>12. WireInv'
  BY <1>1, <1>6 DEF WireInv
<1>. QED  BY <1>7, <1>8, <1>9, <1>10, <1>11, <1>12 DEF FrameInv

\* When the connection is kept, the peer has had what fits the header.
LEMMA LastFits ==
    ASSUME Grounds, FrameInv, i = AtLog, "send" \in done, resp.ka
    PROVE  HeaderSent /\ Fit(taken[Len(wire)], Last)
<1>1. i = 10 + V /\ V \in {0, 1}
  BY Typed
<1>2. /\ "response" \in done /\ "request" \in done /\ "transfer" \in Begun /\ "file" \in Begun
  BY <1>1, Ahead, Typed DEF Grounds
<1>3. iov = NoIov /\ input = 0 /\ resp.done /\ (resp.resized => Last.resized)
  BY <1>1, Typed DEF FrameInv, FlowInv
<1>4. HeaderSent
  BY <1>2, <1>3 DEF HeaderSent, NoIov
<1>5. Last.len = resp.len /\ Last.code = resp.code
  BY <1>4 DEF FrameInv, WireInv
<1>6. Asked = taken[Len(wire)] /\ Last \in Response /\ Asked \in Request
  BY <1>4, HeaderLast
<1>7. "transfer" \in opened /\ resp.len # NoLen
  BY <1>2 DEF FrameInv, StageInv, Begun
<1>8. ~Reading /\ Left = 0
  BY <1>3 DEF FrameInv, StageInv, Left
<1>9. ~resp.head /\ ~resp.resized => Last.body = resp.len
  <2>. SUFFICES ASSUME ~resp.head, ~resp.resized PROVE Last.body = resp.len
    OBVIOUS
  <2>1. contLen = Before /\ resp.len = contLen + After
    BY <1>7 DEF FrameInv, BodyInv
  <2>2. Before = 0 /\ After = 0 + 0 + Last.body
    <3>1. i > AtTransfer /\ ~(i <= AtTransfer)
      BY <1>1, Typed
    <3>. QED  BY <1>3, <1>4, <1>8, <3>1 DEF Before, After, NoIov
  <2>. QED  BY <1>6, <2>1, <2>2 DEF Response
<1>10. resp.head => Last.body = 0 /\ Asked.method = "HEAD"
  BY <1>2, <1>4 DEF FrameInv, BodyInv, HeadInv
<1>11. Asked.method = "HEAD" /\ Asked.target \notin Slashed => resp.head
  BY <1>2 DEF FrameInv, HeadInv
<1>12. Fit(Asked, Last)
  <2>1. CASE Excused(Asked, Last)
    BY <2>1 DEF Fit
  <2>2. CASE ~Excused(Asked, Last)
    <3>1. ~Last.resized /\ Last.code # 304 /\ (Asked.method = "HEAD" => Asked.target \notin Slashed)
      BY <2>2 DEF Excused
    <3>2. CASE Asked.method = "HEAD"
      BY <1>5, <1>7, <1>10, <1>11, <3>1, <3>2 DEF Fit, Expected
    <3>3. CASE Asked.method # "HEAD"
      BY <1>3, <1>5, <1>7, <1>9, <1>10, <3>1, <3>3 DEF Fit, Expected
    <3>. QED  BY <3>2, <3>3
  <2>. QED  BY <2>1, <2>2
<1>. QED  BY <1>4, <1>6, <1>12

\* The connection ends, or starts again.
LEMMA EndKept ==
    ASSUME Grounds, FrameInv, PassEnd \/ AccesslogWritten
    PROVE  FrameInv'
<1>1. i = AtLog /\ "send" \in done /\ wire' = wire /\ KeepAlive
  BY AtEnd, EndStep DEF Grounds
<1>2. CASE Destroy /\ UNCHANGED <<reqVars, respVars>>
  <2>1. Walk
    BY <1>1, <1>2 DEF Walk, Destroy, DestroyHolding, reqVars
  <2>. QED  BY <2>1, WalkKept
<1>3. CASE Reset /\ resp.ka
  <2>1. /\ i' = 1 /\ back' = FALSE /\ opened' = {} /\ done' = {} /\ input' = 0
        /\ file' = NoFile /\ iov' = NoIov /\ taken' = taken /\ resp' = NoResp
    BY <1>3 DEF Reset, ResetRest
  <2>2. /\ ~HeaderSent' /\ ~Reading' /\ Begun' = {} /\ file'.state = 0
    BY <2>1 DEF HeaderSent, Reading, Begun, NoFile
  <2>3. /\ resp'.code = 0 /\ resp'.len = NoLen /\ ~resp'.err /\ ~resp'.done /\ ~resp'.head
    BY <2>1 DEF NoResp
  <2>4. ~(i' > AtFile')
    BY <2>1, Typed
  <2>5. HeadInv'
    BY <2>1, <2>3 DEF HeadInv
  <2>6. StageInv'
    BY <2>1, <2>2, <2>3, <2>4 DEF StageInv
  <2>7. FlowInv' /\ LengthInv' /\ BodyInv'
    BY <2>1, <2>2, <2>3 DEF FlowInv, LengthInv, BodyInv
  <2>8. WireInv'
    <3>1. /\ HeaderSent /\ Fit(taken[Len(wire)], wire[Len(wire)]) /\ wire \in Seq(Response)
      BY <1>1, <1>3, LastFits, Typed DEF Last
    <3>2. \A n \in 1 .. Len(wire) - 1 : Fit(taken[n], wire[n])
      BY <3>1 DEF FrameInv, WireInv
    <3>3. \A n \in 1 .. Len(wire) : Fit(taken[n], wire[n])
      BY <3>1, <3>2
    <3>. QED  BY <1>1, <2>1, <2>2, <3>1, <3>3 DEF WireInv
  <2>. QED  BY <2>5, <2>6, <2>7, <2>8 DEF FrameInv
<1>4. Reset => resp.ka
  <2>. SUFFICES ASSUME Reset, ~resp.ka PROVE FALSE
    OBVIOUS
  <2>1. Destroy
    BY <1>1 DEF KeepAlive
  <2>. QED  BY <2>1 DEF Reset, ResetRest, Destroy, DestroyHolding
<1>. QED  BY <1>2, <1>3, <1>4, EndStep

-----------------------------------------------------------------------------
(* The theorem. *)

\* The invariant holds at first.
LEMMA FrameInit == Init => FrameInv
<1>. SUFFICES ASSUME Init PROVE FrameInv
  OBVIOUS
<1>1. /\ i = 1 /\ opened = {} /\ done = {} /\ input = 0 /\ resp = NoResp /\ file.state = 0
      /\ iov = NoIov /\ wire = <<>> /\ ~Reading /\ ~HeaderSent /\ Begun = {}
  BY DEF Init, NoFile, Reading, HeaderSent, Begun
<1>2. /\ resp.code = 0 /\ resp.len = NoLen /\ ~resp.err /\ ~resp.done /\ ~resp.head
  BY <1>1 DEF NoResp
<1>3. ~(i > AtFile)
  BY <1>1, Places DEF AtFile
<1>. QED  BY <1>1, <1>2, <1>3 DEF FrameInv, HeadInv, StageInv, FlowInv, LengthInv, BodyInv,
            WireInv

\* Every step keeps it.
LEMMA FrameKept ==
    ASSUME HeadsRead
    PROVE  Grounds /\ FrameInv /\ [Next]_vars => FrameInv'
BY FrameStep, WalkKept, EndKept, ParsedKept, OpensKept, IndexKept, DocumentKept, FileOpenKept,
   FileCallsKept, FileReadKept, FileResizedKept, TransferOpenKept, TransferKept, ResponseKept,
   SendKept DEF HeadsRead, Grounds

(***************************************************************************)
(* Every response that another one follows has a Content-Length and as     *)
(* many units of body as that and the request's method say, so the peer    *)
(* finds the next one -- but for the responses of Excused.  A response     *)
(* that finds no memory has no header, and what follows is counted as the  *)
(* one before it; a virtual document sends its body to HEAD: both are left *)
(* out (see the README).  Failing file calls and resized files are not.    *)
(***************************************************************************)
THEOREM FramingProved ==
    ASSUME HeadsRead
    PROVE  Spec => []FramingExact
<1>1. Grounds /\ FrameInv => FramingExact
  <2>. SUFFICES ASSUME Grounds, FrameInv, NEW n \in 1 .. Len(wire) - 1
                PROVE  Fit(taken[n], wire[n])
    BY DEF FramingExact, Fit
  <2>1. n \in 1 .. Len(wire) - (IF HeaderSent THEN 1 ELSE 0)
    BY Typed
  <2>. QED  BY <2>1 DEF FrameInv, WireInv
<1>2. Spec => []Grounds
  BY AlignAlways DEF HeadsRead, Grounds
<1>. QED  BY <1>1, <1>2, FrameInit, FrameKept, PTL DEF Spec
=============================================================================
