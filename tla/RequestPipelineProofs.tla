----------------------- MODULE RequestPipelineProofs -----------------------
(***************************************************************************)
(* Proofs about RequestPipeline, for every number of middlewares, every    *)
(* set of operations, results and configurations, and all bounds.          *)
(***************************************************************************)
EXTENDS RequestPipeline, TLAPS

---------------------------------------------------------------------------
(* The response, and what every layer leaves of it. *)

Out(r) == r.status # 0 \/ r.hijacked

\* What the recovery layer knows of the wire.
Wired(r) ==
  /\ r.wroteHeader => config.recovery /\ Out(r)
  /\ config.recovery /\ config.direct = {"flush", "hijack"} /\ Out(r) => r.wroteHeader

Sealed(r) ==
  r.author \in {"failure", "recovery"} =>
    /\ r.status \in 400..599
    /\ r.sent \cap ContentTypes \in {{"failure"}, {"problem"}}
    /\ "no-store" \in r.sent

\* A response on its way: nothing of the recovery layer is on it.
Sound(r) ==
  /\ r \in ResponseType
  /\ Wired(r) /\ Sealed(r)
  /\ r.status = 0 => r.author = "nobody"
  /\ r.author # "recovery" /\ "recovery" \notin r.body

LEMMA ConfigFields ==
  ASSUME config \in Configs
  PROVE  /\ config.recovery \in BOOLEAN /\ config.handlerPanics \in BOOLEAN
         /\ config.formatter \in {"sound", "broken", "explosive"}
BY ValuesAssumption DEF ConfigType

LEMMA SetHeaderKeeps ==
  ASSUME NEW r, Sound(r), NEW names \in SUBSET HeaderNames
  PROVE  /\ Sound(SetHeader(r, names))
         /\ SetHeader(r, names).status = r.status /\ SetHeader(r, names).author = r.author
         /\ SetHeader(r, names).hijacked = r.hijacked /\ SetHeader(r, names).body = r.body
         /\ SetHeader(r, names).sent = r.sent /\ SetHeader(r, names).wroteHeader = r.wroteHeader
<1> DEFINE s == SetHeader(r, names)
<1>1. r \in ResponseType
  BY DEF Sound
<1>2. /\ s.status = r.status /\ s.author = r.author /\ s.hijacked = r.hijacked
      /\ s.body = r.body /\ s.sent = r.sent /\ s.wroteHeader = r.wroteHeader
  BY <1>1 DEF SetHeader, ResponseType
<1>3. s \in ResponseType
  BY <1>1 DEF SetHeader, ResponseType
<1> HIDE DEF s
<1>4. Wired(s) /\ Sealed(s)
  BY <1>2 DEF Sound, Wired, Sealed, Out
<1>5. Sound(s)
  BY <1>2, <1>3, <1>4 DEF Sound
<1> QED
  BY <1>2, <1>5 DEF s

\* What net/http does with a status.
LEMMA ServerWriteHeaderKeeps ==
  ASSUME NEW r \in ResponseType, NEW status \in Nat, NEW who \in Authors
  PROVE  LET s == ServerWriteHeader(r, status, who)
         IN /\ s \in ResponseType
            /\ s.hijacked = r.hijacked /\ s.body = r.body /\ s.wroteHeader = r.wroteHeader
            /\ s.header = r.header
            /\ \/ r.hijacked \/ r.status # 0 \/ Interim(status)
               \/ s.status = status /\ s.author = who /\ s.sent = r.header
            /\ r.hijacked \/ r.status # 0 \/ Interim(status) => s = r
BY DEF ServerWriteHeader, ResponseType

\* The body changes nothing else of a response that is out.
LEMMA ServerWriteKeeps ==
  ASSUME NEW r \in ResponseType, NEW who \in Authors, Out(r)
  PROVE  LET s == ServerWrite(r, who)
         IN /\ s \in ResponseType
            /\ s.status = r.status /\ s.author = r.author /\ s.hijacked = r.hijacked
            /\ s.sent = r.sent /\ s.wroteHeader = r.wroteHeader
            /\ s.body \subseteq r.body \cup {who}
<1>1. ServerWriteHeader(r, 200, who) = r
  BY DEF ServerWriteHeader, Out
<1>2. ServerWrite(r, who) = IF RefusesBody(r) THEN r ELSE [r EXCEPT !.body = @ \cup {who}]
  BY <1>1 DEF ServerWrite
<1> QED
  BY <1>2 DEF ResponseType

\* A final status puts the response out.
LEMMA WriteHeaderKeeps ==
  ASSUME config \in Configs, NEW r, Sound(r), NEW status \in Nat, NEW who \in Authors,
         status # 0 \/ Out(r)
  PROVE  LET s == WriteHeader(r, status, who)
         IN /\ s \in ResponseType /\ Wired(s)
            /\ s.body = r.body /\ s.hijacked = r.hijacked
            /\ ~Interim(status) => Out(s) /\ (config.recovery => s.wroteHeader)
            /\ \/ s.status = r.status /\ s.author = r.author /\ s.sent = r.sent
               \/ /\ ~Out(r)
                  /\ s.status = status /\ s.author = who /\ s.sent = r.header
            /\ ~Interim(status) /\ ~Out(r) =>
                 s.status = status /\ s.author = who /\ s.sent = r.header
<1> DEFINE w == ServerWriteHeader(r, status, who)
<1>1. r \in ResponseType /\ Wired(r)
  BY DEF Sound
<1>2. /\ w \in ResponseType
      /\ w.hijacked = r.hijacked /\ w.body = r.body /\ w.wroteHeader = r.wroteHeader
      /\ \/ r.hijacked \/ r.status # 0 \/ Interim(status)
         \/ w.status = status /\ w.author = who /\ w.sent = r.header
      /\ r.hijacked \/ r.status # 0 \/ Interim(status) => w = r
  BY <1>1, ServerWriteHeaderKeeps
<1>3. config.recovery \in BOOLEAN
  BY ConfigFields
<1> HIDE DEF w
<1>4. CASE ~config.recovery
  <2>1. WriteHeader(r, status, who) = w
    BY <1>4 DEF WriteHeader, w
  <2>2. ~w.wroteHeader
    BY <1>1, <1>2, <1>4 DEF Wired
  <2>3. Wired(w)
    BY <1>4, <2>2 DEF Wired
  <2> QED
    BY <1>2, <1>4, <2>1, <2>3 DEF Out
<1>5. CASE config.recovery /\ r.wroteHeader
  <2>1. WriteHeader(r, status, who) = r
    BY <1>5 DEF WriteHeader
  <2>2. Out(r)
    BY <1>1, <1>5 DEF Wired
  <2> QED
    BY <1>1, <1>5, <2>1, <2>2
<1>6. CASE config.recovery /\ ~r.wroteHeader
  <2> DEFINE s == [w EXCEPT !.wroteHeader = ~Interim(status)]
  <2>1. WriteHeader(r, status, who) = s
    BY <1>6 DEF WriteHeader, w
  <2>2. /\ s \in ResponseType /\ s.wroteHeader = ~Interim(status)
        /\ s.status = w.status /\ s.author = w.author /\ s.hijacked = w.hijacked
        /\ s.body = w.body /\ s.sent = w.sent
    <3>1. (~Interim(status)) \in BOOLEAN
      BY DEF Interim
    <3> QED
      BY <1>2, <3>1 DEF ResponseType
  <2> HIDE DEF s
  <2>3. ~Interim(status) => Out(s)
    BY <1>2, <2>2 DEF Out
  <2>4. Wired(s)
    BY <1>1, <1>2, <1>6, <2>2, <2>3 DEF Wired, Out
  <2> QED
    BY <1>2, <2>1, <2>2, <2>3, <2>4 DEF Out
<1> QED
  BY <1>3, <1>4, <1>5, <1>6

Answerers == Authors \ {"failure", "recovery"}

\* User code, the router, the documentation handlers and results: none of them
\* leaves a failure.
LEMMA WriteHeaderSound ==
  ASSUME config \in Configs, NEW r, Sound(r), NEW status \in Nat, NEW who \in Answerers,
         status # 0 \/ Out(r)
  PROVE  Sound(WriteHeader(r, status, who))
<1> DEFINE s == WriteHeader(r, status, who)
<1>1. who \in Authors /\ who \notin {"failure", "recovery"} /\ who # "nobody"
  BY DEF Answerers, Authors
<1>2. /\ s \in ResponseType /\ Wired(s) /\ s.body = r.body
      /\ \/ s.status = r.status /\ s.author = r.author /\ s.sent = r.sent
         \/ ~Out(r) /\ s.status = status /\ s.author = who
  BY <1>1, WriteHeaderKeeps
<1> HIDE DEF s
<1>3. Sealed(s) /\ (s.status = 0 => s.author = "nobody")
  BY <1>1, <1>2 DEF Sound, Sealed, Out
<1> QED
  BY <1>1, <1>2, <1>3 DEF Sound, s

LEMMA WriteSound ==
  ASSUME config \in Configs, NEW r, Sound(r), NEW who \in Answerers
  PROVE  Sound(Write(r, who))
<1> DEFINE w == IF r.wroteHeader THEN r ELSE WriteHeader(r, 200, who)
           s == ServerWrite(w, who)
<1>1. who \in Authors /\ who # "recovery"
  BY DEF Answerers, Authors
<1>3. Sound(w) /\ Out(w)
  <2>1. CASE r.wroteHeader
    BY <2>1 DEF Sound, Wired
  <2>2. CASE ~r.wroteHeader
    <3>1. Sound(WriteHeader(r, 200, who))
      BY WriteHeaderSound
    <3>2. Out(WriteHeader(r, 200, who))
      BY <1>1, WriteHeaderKeeps DEF Interim
    <3> QED
      BY <2>2, <3>1, <3>2
  <2> QED
    BY <2>1, <2>2
<1> HIDE DEF w
<1>4. /\ s \in ResponseType
      /\ s.status = w.status /\ s.author = w.author /\ s.hijacked = w.hijacked
      /\ s.sent = w.sent /\ s.wroteHeader = w.wroteHeader
      /\ s.body \subseteq w.body \cup {who}
  BY <1>1, <1>3, ServerWriteKeeps DEF Sound
<1> HIDE DEF s
<1>5. Wired(s) /\ Sealed(s)
  BY <1>3, <1>4 DEF Sound, Wired, Sealed, Out
<1>6. Sound(s)
  BY <1>1, <1>3, <1>4, <1>5 DEF Sound
<1> QED
  BY <1>6 DEF Write, s, w

LEMMA FlushSound ==
  ASSUME config \in Configs, NEW r, Sound(r)
  PROVE  Sound(Flush(r))
<1>1. "user" \in Answerers /\ "user" \in Authors
  BY DEF Answerers, Authors
<1>2. CASE "flush" \in config.direct
  <2>1. Sound(WriteHeader(r, 200, "user"))
    BY <1>1, WriteHeaderSound
  <2> QED
    BY <1>2, <2>1 DEF Flush
<1>3. CASE "flush" \notin config.direct
  <2> DEFINE s == ServerWriteHeader(r, 200, "user")
  <2>1. /\ s \in ResponseType
        /\ s.hijacked = r.hijacked /\ s.body = r.body /\ s.wroteHeader = r.wroteHeader
        /\ \/ s = r
           \/ s.status = 200 /\ s.author = "user"
    BY <1>1, ServerWriteHeaderKeeps DEF Sound
  <2> HIDE DEF s
  <2>2. Wired(s)
    BY <1>3, <2>1 DEF Sound, Wired, Out
  <2>3. Sound(s)
    BY <2>1, <2>2 DEF Sound, Sealed
  <2> QED
    BY <1>3, <2>3 DEF Flush, s
<1> QED
  BY <1>2, <1>3

LEMMA HijackSound ==
  ASSUME config \in Configs, NEW r, Sound(r)
  PROVE  Sound(Hijack(r))
<1> DEFINE known == r.wroteHeader \/ (config.recovery /\ "hijack" \in config.direct)
           s == [r EXCEPT !.hijacked = TRUE, !.wroteHeader = known]
<1>1. r \in ResponseType /\ known \in BOOLEAN
  BY DEF Sound, ResponseType
<1> HIDE DEF known
<1>2. /\ s \in ResponseType /\ s.hijacked = TRUE /\ s.wroteHeader = known
      /\ s.status = r.status /\ s.author = r.author /\ s.body = r.body /\ s.sent = r.sent
  BY <1>1 DEF ResponseType
<1>3. Hijack(r) = s
  BY DEF Hijack, known
<1> HIDE DEF s
<1>4. Wired(s)
  BY <1>2 DEF Sound, Wired, Out, known
<1>5. Sealed(s)
  BY <1>2 DEF Sound, Sealed
<1> QED
  BY <1>2, <1>3, <1>4, <1>5 DEF Sound

---------------------------------------------------------------------------
(* Failures. *)

LEMMA OutcomeFields ==
  \A r, panics : Outcome(r, panics).response = r /\ Outcome(r, panics).panics = panics
BY DEF Outcome

\* What a failure may leave of a response that was on its way.
Failed(s, r, status, who) ==
  /\ s \in ResponseType /\ Wired(s) /\ Sealed(s) /\ Out(s)
  /\ s.author \in {r.author, who} /\ s.body \subseteq r.body \cup {who}
  /\ s.status = 0 => s.author = "nobody"
  /\ ~Out(r) => s.author = who /\ s.status = status
  /\ Out(r) => s.author = r.author /\ s.status = r.status

LEMMA WritePayloadPanics ==
  ASSUME NEW r, NEW status, NEW type, NEW who, NEW reportPanics,
         NEW o \in WritePayload(r, status, type, who, reportPanics)
  PROVE  o.panics \in {FALSE, reportPanics}
<1> DEFINE w == WriteHeader(SetHeader(r, {type, "no-store"}), status, who)
<1>1. o = Outcome(w, reportPanics) \/ o = Outcome(Write(w, who), FALSE)
  BY Zenon DEF WritePayload, Deliver
<1> HIDE DEF w
<1>2. CASE o = Outcome(w, reportPanics)
  BY <1>2, OutcomeFields, Zenon
<1>3. CASE o = Outcome(Write(w, who), FALSE)
  BY <1>3 DEF Outcome
<1> QED
  BY <1>1, <1>2, <1>3, Zenon

LEMMA WritePayloadFails ==
  ASSUME config \in Configs, NEW r, Sound(r), NEW status \in 400..599,
         NEW type \in {"failure", "problem"}, NEW who \in {"failure", "recovery"},
         NEW reportPanics \in BOOLEAN,
         NEW o \in WritePayload(r, status, type, who, reportPanics)
  PROVE  Failed(o.response, r, status, who)
<1> DEFINE h == SetHeader(r, {type, "no-store"})
           w == WriteHeader(h, status, who)
<1>1. who \in Authors /\ {type, "no-store"} \in SUBSET HeaderNames
  BY DEF Authors, HeaderNames, ContentTypes
<1>2. /\ Sound(h) /\ h.status = r.status /\ h.author = r.author /\ h.hijacked = r.hijacked
      /\ h.body = r.body /\ h.sent = r.sent
  BY <1>1, SetHeaderKeeps
<1>3. h.header \cap ContentTypes = {type} /\ "no-store" \in h.header
  <2>1. {type, "no-store"} \cap ContentTypes = {type}
    BY DEF ContentTypes
  <2>2. h.header = (r.header \ ContentTypes) \cup {type, "no-store"}
    BY <2>1 DEF SetHeader, Sound, ResponseType
  <2> QED
    BY <2>1, <2>2
<1>4. status \in Nat /\ status # 0 /\ ~Interim(status)
  BY DEF Interim
<1> HIDE DEF h
<1>5. /\ w \in ResponseType /\ Wired(w) /\ w.body = h.body /\ Out(w)
      /\ config.recovery => w.wroteHeader
      /\ \/ w.status = h.status /\ w.author = h.author /\ w.sent = h.sent
         \/ ~Out(h) /\ w.status = status /\ w.author = who /\ w.sent = h.header
      /\ ~Out(h) => w.status = status /\ w.author = who
  BY <1>1, <1>2, <1>4, WriteHeaderKeeps
<1> HIDE DEF w
<1>6. Sealed(w) /\ (w.status = 0 => w.author = "nobody")
  BY <1>2, <1>3, <1>4, <1>5 DEF Sound, Sealed
<1>7. Failed(w, r, status, who)
  BY <1>2, <1>5, <1>6 DEF Failed, Out
<1>8. ASSUME ~RefusesBody(w)
      PROVE  Failed(Write(w, who), r, status, who)
  <2> DEFINE s == ServerWrite(w, who)
  <2>1. /\ s \in ResponseType
        /\ s.status = w.status /\ s.author = w.author /\ s.hijacked = w.hijacked
        /\ s.sent = w.sent /\ s.wroteHeader = w.wroteHeader
        /\ s.body \subseteq w.body \cup {who}
    BY <1>1, <1>5, ServerWriteKeeps
  <2>2. Write(w, who) = s
    <3>1. CASE w.wroteHeader
      BY <3>1 DEF Write
    <3>2. CASE ~w.wroteHeader
      <4>1. ~config.recovery
        BY <1>5, <3>2
      <4>2. w.status # 0
        BY <1>5, <1>8 DEF Out, RefusesBody
      <4>3. WriteHeader(w, 200, who) = w
        BY <4>1, <4>2 DEF WriteHeader, ServerWriteHeader
      <4> QED
        BY <3>2, <4>3 DEF Write
    <3> QED
      BY <3>1, <3>2
  <2> HIDE DEF s
  <2>3. Wired(s) /\ Sealed(s) /\ Out(s)
    BY <1>5, <1>6, <2>1 DEF Wired, Sealed, Out
  <2>4. Failed(s, r, status, who)
    BY <1>2, <1>5, <1>6, <2>1, <2>3 DEF Failed, Out
  <2> QED
    BY <2>2, <2>4
<1>9. \/ o = Outcome(w, reportPanics)
      \/ o = Outcome(Write(w, who), FALSE) /\ ~RefusesBody(w)
  BY Zenon DEF WritePayload, Deliver, h, w
<1>10. CASE o = Outcome(w, reportPanics)
  BY <1>7, <1>10, OutcomeFields, Zenon
<1>11. CASE o = Outcome(Write(w, who), FALSE) /\ ~RefusesBody(w)
  BY <1>8, <1>11, OutcomeFields, Zenon
<1> QED
  BY <1>9, <1>10, <1>11, Zenon

\* A resolved failure is written, or its formatter got in the way.
LEMMA WriteResolvedFails ==
  ASSUME config \in Configs, NEW r, Sound(r), NEW status \in Nat,
         NEW who \in {"failure", "recovery"}, NEW reportPanics \in BOOLEAN,
         NEW o \in WriteResolved(r, status, who, reportPanics)
  PROVE  /\ o.response = r \/ \E sent \in 400..599 : Failed(o.response, r, sent, who)
         /\ o.panics \in BOOLEAN
<1>1. CASE config.formatter = "sound"
  <2>1. o \in WritePayload(r, Normalize(status), "failure", who, reportPanics)
    BY <1>1 DEF WriteResolved
  <2>2. PICK sent \in 400..599 : sent = Normalize(status)
    BY DEF Normalize
  <2>3. o \in WritePayload(r, sent, "failure", who, reportPanics)
    BY <2>1, <2>2
  <2>4. Failed(o.response, r, sent, who)
    BY <2>3, WritePayloadFails
  <2>5. o.panics \in BOOLEAN
    <3>1. o.panics \in {FALSE, reportPanics}
      BY <2>3, WritePayloadPanics, Zenon
    <3> QED
      BY <3>1
  <2> QED
    BY <2>4, <2>5
<1>2. CASE config.formatter = "broken"
  <2>1. CASE reportPanics
    <3>1. o \in {Outcome(r, TRUE)}
      BY <1>2, <2>1 DEF WriteResolved
    <3> QED
      BY <3>1, OutcomeFields, Zenon
  <2>2. CASE ~reportPanics
    <3>1. PICK sent \in 400..599 : sent = 500
      OBVIOUS
    <3>2. o \in WritePayload(r, sent, "problem", who, reportPanics)
      BY <1>2, <2>2, <3>1 DEF WriteResolved
    <3>3. Failed(o.response, r, sent, who)
      BY <3>2, WritePayloadFails
    <3>4. o.panics \in {FALSE, reportPanics}
      BY <3>2, WritePayloadPanics, Zenon
    <3> QED
      BY <3>3, <3>4
  <2> QED
    BY <2>1, <2>2
<1>3. CASE config.formatter = "explosive"
  <2>1. o \in {Outcome(r, TRUE)}
    BY <1>3 DEF WriteResolved
  <2> QED
    BY <2>1, OutcomeFields, Zenon
<1> QED
  BY <1>1, <1>2, <1>3, ConfigFields

\* The 500 of the recovery layer goes out, unless its formatter panics.
LEMMA RecoveryAnswers ==
  ASSUME config \in Configs, config.formatter # "explosive", NEW r, Sound(r),
         NEW o \in WriteResolved(r, 500, "recovery", FALSE)
  PROVE  Failed(o.response, r, 500, "recovery") /\ o.panics = FALSE
<1>0. PICK quiet \in BOOLEAN : quiet = FALSE
  OBVIOUS
<1>1. PICK status \in 400..599 : status = 500
  OBVIOUS
<1>2. PICK type \in {"failure", "problem"} : o \in WritePayload(r, status, type, "recovery", quiet)
  <2>1. Normalize(500) = 500
    BY DEF Normalize
  <2>2. CASE config.formatter = "sound"
    BY <1>0, <1>1, <2>1, <2>2, ZenonT(60) DEF WriteResolved
  <2>3. CASE config.formatter = "broken"
    BY <1>0, <1>1, <2>3 DEF WriteResolved
  <2> QED
    BY <2>2, <2>3, ConfigFields
<1>3. Failed(o.response, r, status, "recovery")
  BY <1>2, WritePayloadFails
<1>4. o.panics \in {FALSE, quiet}
  BY <1>2, WritePayloadPanics
<1> QED
  BY <1>0, <1>1, <1>3, <1>4

\* A failure of the framework is a response on its way.
LEMMA FailureSound ==
  ASSUME config \in Configs, NEW r, Sound(r), NEW status \in Nat, NEW reportPanics \in BOOLEAN,
         NEW o \in WriteResolved(r, status, "failure", reportPanics)
  PROVE  Sound(o.response) /\ o.panics \in BOOLEAN
<1>1. /\ o.response = r \/ \E sent \in 400..599 : Failed(o.response, r, sent, "failure")
      /\ o.panics \in BOOLEAN
  BY WriteResolvedFails
<1>2. ASSUME NEW sent \in 400..599, Failed(o.response, r, sent, "failure")
      PROVE  Sound(o.response)
  <2>1. /\ o.response \in ResponseType /\ Wired(o.response) /\ Sealed(o.response)
        /\ o.response.author \in {r.author, "failure"} /\ o.response.body \subseteq r.body \cup {"failure"}
        /\ o.response.status = 0 => o.response.author = "nobody"
    BY <1>2 DEF Failed
  <2>2. r.author # "recovery" /\ "recovery" \notin r.body
    BY DEF Sound
  <2> QED
    BY <2>1, <2>2 DEF Sound
<1> QED
  BY <1>1, <1>2

LEMMA ReplaceResultSound ==
  ASSUME config \in Configs, NEW r, Sound(r), NEW o \in ReplaceResult(r)
  PROVE  Sound(o.response) /\ o.panics \in BOOLEAN
<1>1. CASE config.handlerPanics
  <2>1. o.response = r /\ o.panics = TRUE
    BY <1>1 DEF ReplaceResult, Outcome
  <2> QED
    BY <2>1
<1>2. CASE ~config.handlerPanics
  <2>1. o \in WriteResolved(r, 500, "failure", config.handlerPanics)
    BY <1>2 DEF ReplaceResult
  <2> QED
    BY <2>1, ConfigFields, FailureSound
<1> QED
  BY <1>1, <1>2

\* A result, and what takes its place.
LEMMA WriteResultSound ==
  ASSUME config \in Configs, Sound(response), NEW r \in ResultType, NEW o \in WriteResult(r)
  PROVE  Sound(o.response) /\ o.panics \in BOOLEAN
<1> DEFINE tagged == SetHeader(response, {"result"})
           typed == IF StatusAllowsBody(StatusOf(r)) THEN SetHeader(tagged, {"json"}) ELSE tagged
           ready == IF r.noStore THEN SetHeader(typed, {"no-store"}) ELSE typed
           committed == WriteHeader(ready, StatusOf(r), "result")
<1>1. {"result"} \in SUBSET HeaderNames /\ {"json"} \in SUBSET HeaderNames
        /\ {"no-store"} \in SUBSET HeaderNames
  BY DEF HeaderNames, ContentTypes
<1>2. Sound(tagged)
  BY <1>1, SetHeaderKeeps
<1>3. Sound(typed)
  <2> HIDE DEF tagged
  <2> QED
    BY <1>1, <1>2, SetHeaderKeeps
<1>4. Sound(ready)
  <2> HIDE DEF typed
  <2> QED
    BY <1>1, <1>3, SetHeaderKeeps
<1>5. StatusOf(r) \in Nat /\ StatusOf(r) # 0
  BY DEF StatusOf, ResultType
<1>6. "result" \in Answerers
  BY DEF Answerers, Authors
<1>7. Sound(committed)
  <2> HIDE DEF ready
  <2> QED
    BY <1>4, <1>5, <1>6, WriteHeaderSound
<1>8. Sound(Write(committed, "result"))
  <2> HIDE DEF committed
  <2> QED
    BY <1>6, <1>7, WriteSound
<1>9. \/ o \in ReplaceResult(response) \/ o \in ReplaceResult(tagged)
      \/ o \in WriteResolved(tagged, StatusOf(r), "failure", config.handlerPanics)
      \/ o \in {Outcome(tagged, TRUE), Outcome(committed, FALSE)}
      \/ o \in Deliver(committed, "result", config.handlerPanics)
  <2>1. CASE ~ValidStatus(r)
    BY <2>1 DEF WriteResult
  <2>2. CASE ValidStatus(r) /\ r.payload = "failure"
    BY <2>2 DEF WriteResult
  <2>3. CASE ValidStatus(r) /\ r.payload = "error" /\ Encodes(r)
    BY <2>3 DEF WriteResult
  <2>4. CASE ValidStatus(r) /\ r.payload = "panic" /\ Encodes(r)
    BY <2>4 DEF WriteResult
  <2>5. CASE ValidStatus(r) /\ r.payload = "value" /\ Encodes(r)
    BY <2>5 DEF WriteResult
  <2>6. CASE ValidStatus(r) /\ r.payload # "failure" /\ ~(Encodes(r) /\ r.payload \in {"error", "panic", "value"})
    BY <2>6 DEF WriteResult
  <2> QED
    BY <2>1, <2>2, <2>3, <2>4, <2>5, <2>6
<1> HIDE DEF committed, tagged
<1>10. CASE o \in ReplaceResult(response) \/ o \in ReplaceResult(tagged)
  BY <1>2, <1>10, ReplaceResultSound
<1>11. CASE o \in WriteResolved(tagged, StatusOf(r), "failure", config.handlerPanics)
  BY <1>2, <1>5, <1>11, ConfigFields, FailureSound
<1>12. CASE o \in {Outcome(tagged, TRUE), Outcome(committed, FALSE)}
  <2>1. CASE o = Outcome(tagged, TRUE)
    BY <1>2, <2>1, OutcomeFields
  <2>2. CASE o = Outcome(committed, FALSE)
    BY <1>7, <2>2, OutcomeFields
  <2> QED
    BY <1>12, <2>1, <2>2, Zenon
<1>13. CASE o \in Deliver(committed, "result", config.handlerPanics)
  <2>1. \/ o = Outcome(committed, config.handlerPanics)
        \/ o = Outcome(Write(committed, "result"), FALSE)
    BY <1>13, Zenon DEF Deliver
  <2>2. CASE o = Outcome(committed, config.handlerPanics)
    BY <1>7, <2>2, ConfigFields, OutcomeFields
  <2>3. CASE o = Outcome(Write(committed, "result"), FALSE)
    BY <1>8, <2>3, OutcomeFields
  <2> QED
    BY <2>1, <2>2, <2>3, Zenon
<1> QED
  BY <1>9, <1>10, <1>11, <1>12, <1>13

---------------------------------------------------------------------------
(* The inductive invariant. *)

\* The context of layer l, if it holds a carrier, names the operation and the
\* principal of this pass.
Carried(l) ==
  ctx[l] # "none" =>
    /\ carriers[ctx[l]].operation = operation
    /\ operation.security # "none" => carriers[ctx[l]].principal = principal

\* The gates that are cleared, and what the contexts hold, at every point of a pass.
Guarded ==
  /\ step \in {"authenticate", "authorize"} =>
       /\ operation \in Operations /\ ctx[Router + 1] \in CarrierNames
       /\ carriers[ctx[Router + 1]].operation = operation
  /\ step = "authorize" =>
       /\ operation.security # "none" /\ "authenticated" \in cleared
       /\ operation.security # "legacy" => carriers[ctx[Router + 1]].principal = principal
  /\ level > Router =>
       /\ operation \in Operations
       /\ operation.security # "none" => {"authenticated", "authorized"} \subseteq cleared
       /\ \A l \in (Router + 1) .. level : Carried(l)
  /\ step \in {"validate", "invoke", "write"} => "bound" \in cleared
  /\ step \in {"invoke", "write"} => (operation.validation => "validated" \in cleared)
  /\ level = Endpoint /\ step = "user" => "constraints" \in cleared

\* The writer below recovery has Flush and Hijack itself.
AllDirect == \A c \in Configs : c.direct = {"flush", "hijack"}

\* No formatter panics.
NoneExplosive == \A c \in Configs : c.formatter # "explosive"

Answered ==
  /\ Sealed(response)
  /\ step \notin Ends => Sound(response)
  /\ AllDirect => OneResponse
  /\ NoneExplosive => PanicAnswered

Inductive == TypeOK /\ Guarded /\ Answered

---------------------------------------------------------------------------
(* Layers. *)

LEMMA Levels ==
  /\ Router \in Nat /\ Endpoint \in Nat /\ 1 <= Router /\ Router + 1 <= Endpoint
  /\ Outer \in Nat /\ Outer = Router - 1
  /\ MiddlewareLevels \subseteq 1 .. Endpoint
  /\ \A l \in 1 .. Endpoint : l \in MiddlewareLevels <=> l # Router /\ l # Endpoint
BY ShapeAssumption DEF Router, Endpoint, MiddlewareLevels

\* The layer a step belongs to.
LEMMA Where ==
  ASSUME TypeOK
  PROVE  /\ level \in 0 .. Endpoint
         /\ step \in {"route", "authenticate", "authorize"} <=> level = Router
         /\ step \in {"bind", "validate", "invoke", "write", "constraints"} => level = Endpoint
         /\ step \in {"server"} \cup Ends <=> level = 0
         /\ step = "user" => level > 0 /\ level # Router
         /\ level \in MiddlewareLevels => step = "user"
<1>1. step \in StepsAt(level) /\ level \in 0 .. Endpoint
  BY DEF TypeOK
<1>2. CASE level = 0
  BY <1>1, <1>2, Levels DEF StepsAt, Ends
<1>3. CASE level = Router
  BY <1>1, <1>3, Levels DEF StepsAt, Ends
<1>4. CASE level = Endpoint
  BY <1>1, <1>4, Levels DEF StepsAt, Ends
<1>5. CASE level \notin {0, Router, Endpoint}
  BY <1>1, <1>5, Levels DEF StepsAt, Ends
<1> QED
  BY <1>2, <1>3, <1>4, <1>5

\* Leaving a layer leads to the one that called it, never into the router.
LEMMA LeaveSteps ==
  ASSUME TypeOK, level > 0, Leave
  PROVE  /\ level' \in 0 .. Endpoint /\ step' \in StepsAt(level')
         /\ level' < level /\ level' # Router /\ level' # Endpoint
         /\ step' \in {"user", "server"}
<1>1. level \in 1 .. Endpoint
  BY Levels DEF TypeOK
<1> DEFINE below == Below(level)
<1>2. below \in 0 .. Endpoint /\ below < level /\ below # Router /\ below # Endpoint
  BY <1>1, Levels DEF Below
<1>3. level' = below /\ step' = IF below = 0 THEN "server" ELSE "user"
  BY DEF Leave, Goto
<1> HIDE DEF below
<1>4. step' \in StepsAt(below)
  BY <1>2, <1>3, Levels DEF StepsAt
<1> QED
  BY <1>2, <1>3, <1>4

LEMMA LeaveKeeps ==
  ASSUME TypeOK, Guarded, level > 0, Leave,
         acts' \in 0 .. MaxActs, panicking' \in BOOLEAN, response' \in ResponseType,
         UNCHANGED <<config, nexts, scope, contexts>>
  PROVE  TypeOK' /\ Guarded' /\ step' \notin Ends
<1>1. /\ level' \in 0 .. Endpoint /\ step' \in StepsAt(level')
      /\ level' < level /\ level' # Router /\ level' # Endpoint
      /\ step' \in {"user", "server"}
  BY LeaveSteps
<1>2. TypeOK'
  BY <1>1 DEF TypeOK, StepsAt, scope, contexts
<1>3. level' > Router => level > Router /\ (Router + 1) .. level' \subseteq (Router + 1) .. level
  BY <1>1, Levels DEF TypeOK
<1>4. ASSUME level' > Router
      PROVE  /\ operation \in Operations
             /\ operation.security # "none" => {"authenticated", "authorized"} \subseteq cleared
             /\ \A l \in (Router + 1) .. level' : Carried(l)
  BY <1>3, <1>4 DEF Guarded
<1>5. UNCHANGED <<operation, principal, cleared, ctx, carriers>>
  BY DEF scope, contexts
<1>6. \A l \in (Router + 1) .. level' : Carried(l) => Carried(l)'
  BY <1>5 DEF Carried
<1>7. Guarded'
  BY <1>1, <1>4, <1>5, <1>6 DEF Guarded
<1> QED
  BY <1>1, <1>2, <1>7 DEF Ends

\* A step of a layer that stays where it is.
LEMMA StayKeeps ==
  ASSUME TypeOK, Guarded,
         acts' \in 0 .. MaxActs, panicking' \in BOOLEAN, response' \in ResponseType,
         UNCHANGED <<config, level, step, nexts, scope, contexts>>
  PROVE  TypeOK' /\ Guarded'
<1>1. TypeOK'
  BY DEF TypeOK, StepsAt, scope, contexts
<1>2. Guarded'
  BY DEF Guarded, Carried, scope, contexts
<1> QED
  BY <1>1, <1>2

\* A layer is entered.
LEMMA EnterSteps ==
  ASSUME TypeOK, NEW l \in 1 .. Endpoint, NEW c \in CarrierNames \cup {"none"},
         NEW n \in [MiddlewareLevels -> 0 .. MaxNext], Enter(l, c, n)
  PROVE  /\ level' = l /\ step' \in StepsAt(l)
         /\ step' \in {"route", "user", "bind", "constraints"}
         /\ l = Endpoint => step' # "user"
         /\ ctx' \in [1 .. Endpoint -> CarrierNames \cup {"none"}] /\ ctx'[l] = c
         /\ \A k \in 1 .. Endpoint : k # l => ctx'[k] = ctx[k]
         /\ nexts' \in [MiddlewareLevels -> 0 .. MaxNext]
<1>1. ctx' = [ctx EXCEPT ![l] = c] /\ ctx \in [1 .. Endpoint -> CarrierNames \cup {"none"}]
  BY DEF Enter, TypeOK
<1>2. nexts' \in [MiddlewareLevels -> 0 .. MaxNext]
  BY ShapeAssumption DEF Enter
<1>3. level' = l /\ step' = (CASE l = Router -> "route"
                              [] l = Endpoint -> IF operation.typed THEN "bind" ELSE "constraints"
                              [] OTHER -> "user")
  BY DEF Enter, Goto
<1>4. /\ step' \in {"route", "user", "bind", "constraints"} /\ step' \in StepsAt(l)
      /\ l = Endpoint => step' # "user"
  <2>1. CASE l = Router
    BY <1>3, <2>1, Levels DEF StepsAt
  <2>2. CASE l = Endpoint
    BY <1>3, <2>2, Levels DEF StepsAt
  <2>3. CASE l # Router /\ l # Endpoint
    BY <1>3, <2>3, Levels DEF StepsAt
  <2> QED
    BY <2>1, <2>2, <2>3
<1> QED
  BY <1>1, <1>2, <1>3, <1>4

\* A running request needs only a response that is on its way.
LEMMA RunningAnswered ==
  ASSUME NEW r, Sound(r), response' = r, config' = config, step' \notin Ends
  PROVE  Answered'
<1>1. Sound(response)'
  BY DEF Sound, Wired, Sealed, Out
<1>2. OneResponse' /\ PanicAnswered' /\ Sealed(response)'
  BY <1>1 DEF OneResponse, PanicAnswered, Sound, Ends
<1> QED
  BY <1>1, <1>2 DEF Answered

\* What the invariant says while the request runs.
LEMMA Running ==
  ASSUME Inductive, step \notin Ends
  PROVE  /\ TypeOK /\ Guarded /\ config \in Configs
         /\ Sound(response) /\ response \in ResponseType
BY DEF Inductive, Answered, TypeOK

---------------------------------------------------------------------------
(* Steps of the same shape. *)

\* User code acts on the response, and stays where it is.
LEMMA ActKeeps ==
  ASSUME Inductive, UserRuns, acts' \in 0 .. MaxActs, panicking' \in BOOLEAN,
         NEW r, Sound(r), response' = r,
         UNCHANGED <<config, level, step, nexts, scope, contexts>>
  PROVE  Inductive'
<1>1. step \notin Ends /\ step' \notin Ends
  BY DEF UserRuns, Ends
<1>2. response' \in ResponseType
  BY DEF Sound
<1>3. TypeOK' /\ Guarded'
  BY <1>1, <1>2, Running, StayKeeps
<1>4. Answered'
  BY <1>1, RunningAnswered
<1> QED
  BY <1>3, <1>4 DEF Inductive

\* A layer ends, and leaves its response.
LEMMA ReturnKeeps ==
  ASSUME Inductive, level > 0, Leave, acts' \in 0 .. MaxActs, panicking' \in BOOLEAN,
         NEW r, Sound(r), response' = r,
         UNCHANGED <<config, nexts, scope, contexts>>
  PROVE  Inductive'
<1>1. TypeOK /\ Guarded
  BY DEF Inductive
<1>2. response' \in ResponseType
  BY DEF Sound
<1>3. TypeOK' /\ Guarded' /\ step' \notin Ends
  BY <1>1, <1>2, LeaveKeeps
<1>4. Answered'
  BY <1>3, RunningAnswered
<1> QED
  BY <1>3, <1>4 DEF Inductive

LEMMA AnswerKeeps ==
  ASSUME Inductive, level > 0, NEW outcomes, Answer(outcomes),
         \A o \in outcomes : Sound(o.response) /\ o.panics \in BOOLEAN,
         UNCHANGED <<config, acts, nexts, scope, contexts>>
  PROVE  Inductive'
<1>1. PICK o \in outcomes : response' = o.response /\ panicking' = o.panics
  BY DEF Answer
<1>2. Leave /\ Sound(o.response) /\ panicking' \in BOOLEAN /\ acts' \in 0 .. MaxActs
  BY <1>1 DEF Answer, Inductive, TypeOK
<1> QED
  BY <1>1, <1>2, ReturnKeeps

\* A framework layer answers with a failure.
LEMMA FailKeeps ==
  ASSUME Inductive, level > 0, NEW status \in Nat, Fail(status),
         UNCHANGED <<config, acts, nexts, scope, contexts>>
  PROVE  Inductive'
<1>1. step \notin Ends
  BY Where DEF Inductive
<1>2. config \in Configs /\ Sound(response) /\ config.handlerPanics \in BOOLEAN
  BY <1>1, Running, ConfigFields
<1> DEFINE outcomes == WriteResolved(response, status, "failure", config.handlerPanics)
<1>3. \A o \in outcomes : Sound(o.response) /\ o.panics \in BOOLEAN
  BY <1>2, FailureSound
<1>4. Answer(outcomes)
  BY DEF Fail
<1> HIDE DEF outcomes
<1> QED
  BY <1>3, <1>4, AnswerKeeps

LEMMA SecurityFailureKeeps ==
  ASSUME Inductive, level > 0, NEW status \in Nat, SecurityFailure(status),
         UNCHANGED <<config, acts, nexts, scope, contexts>>
  PROVE  Inductive'
<1>1. step \notin Ends
  BY Where DEF Inductive
<1>2. config \in Configs /\ Sound(response) /\ config.handlerPanics \in BOOLEAN
  BY <1>1, Running, ConfigFields
<1> DEFINE asked == IF Challenged(status) THEN SetHeader(response, {"challenge"}) ELSE response
           outcomes == WriteResolved(asked, status, "failure", config.handlerPanics)
<1>3. Sound(asked)
  <2>1. {"challenge"} \in SUBSET HeaderNames
    BY DEF HeaderNames
  <2> QED
    BY <1>2, <2>1, SetHeaderKeeps
<1>4. Answer(outcomes)
  BY DEF SecurityFailure
<1> HIDE DEF asked
<1>5. \A o \in outcomes : Sound(o.response) /\ o.panics \in BOOLEAN
  BY <1>2, <1>3, FailureSound
<1> HIDE DEF outcomes
<1> QED
  BY <1>4, <1>5, AnswerKeeps

LEMMA PanicKeeps ==
  ASSUME Inductive, level > 0, FrameworkPanics,
         UNCHANGED <<config, acts, nexts, scope, contexts>>
  PROVE  Inductive'
<1>1. step \notin Ends
  BY Where DEF Inductive
<1>2. Sound(response) /\ response' = response /\ panicking' \in BOOLEAN /\ Leave
        /\ acts' \in 0 .. MaxActs
  BY <1>1, Running DEF FrameworkPanics, TypeOK
<1> QED
  BY <1>2, ReturnKeeps

---------------------------------------------------------------------------
(* User code. *)

LEMMA UserKeeps ==
  ASSUME Inductive, User, ~UserNext
  PROVE  Inductive'
<1>1. UserRuns /\ step \notin Ends /\ level > 0
  <2>1. UserRuns
    BY DEF User, UserWriteHeader, UserWrite, UserFlush, UserHijack, UserPanics, UserRecovers,
           UserReturns, Act
  <2> QED
    BY <2>1, Where DEF UserRuns, Ends, Inductive
<1>2. /\ config \in Configs /\ Sound(response) /\ TypeOK
      /\ "user" \in Answerers /\ panicking \in BOOLEAN
  BY <1>1, Running DEF Answerers, Authors, TypeOK
<1>3. Act => acts' \in 0 .. MaxActs
  BY <1>2, ShapeAssumption DEF Act, TypeOK
<1>4. CASE UserWriteHeader
  <2>1. PICK status \in UserStatuses :
          IF ServerPanics(response, status)
          THEN panicking' = TRUE /\ UNCHANGED response
          ELSE response' = WriteHeader(response, status, "user") /\ UNCHANGED panicking
    BY <1>4 DEF UserWriteHeader
  <2>2. CASE ServerPanics(response, status)
    BY <1>1, <1>2, <1>3, <1>4, <2>1, <2>2, ActKeeps DEF UserWriteHeader
  <2>3. CASE ~ServerPanics(response, status)
    <3>1. status \in Nat /\ (status # 0 \/ Out(response))
      BY <2>3, ShapeAssumption DEF ServerPanics, Out
    <3>2. Sound(WriteHeader(response, status, "user"))
      BY <1>2, <3>1, WriteHeaderSound
    <3> QED
      BY <1>1, <1>2, <1>3, <1>4, <2>1, <2>3, <3>2, ActKeeps DEF UserWriteHeader
  <2> QED
    BY <2>2, <2>3
<1>5. CASE UserWrite
  <2>1. Sound(Write(response, "user"))
    BY <1>2, WriteSound
  <2> QED
    BY <1>1, <1>2, <1>3, <1>5, <2>1, ActKeeps DEF UserWrite
<1>6. CASE UserFlush
  <2>1. Sound(Flush(response))
    BY <1>2, FlushSound
  <2> QED
    BY <1>1, <1>2, <1>3, <1>6, <2>1, ActKeeps DEF UserFlush
<1>7. CASE UserHijack
  <2>1. Sound(Hijack(response))
    BY <1>2, HijackSound
  <2> QED
    BY <1>1, <1>2, <1>3, <1>7, <2>1, ActKeeps DEF UserHijack
<1>8. CASE UserPanics
  BY <1>1, <1>2, <1>3, <1>8, ActKeeps DEF UserPanics
<1>9. CASE UserRecovers
  <2>1. acts' \in 0 .. MaxActs
    BY <1>2, <1>9 DEF UserRecovers, TypeOK
  <2> QED
    BY <1>1, <1>2, <1>9, <2>1, ActKeeps DEF UserRecovers
<1>10. CASE UserReturns
  <2>1. acts' \in 0 .. MaxActs
    BY <1>2, <1>10 DEF UserReturns, TypeOK
  <2> QED
    BY <1>1, <1>2, <1>10, <2>1, ReturnKeeps DEF UserReturns
<1> QED
  BY <1>4, <1>5, <1>6, <1>7, <1>8, <1>9, <1>10 DEF User
\* next.ServeHTTP hands on the carrier the middleware has, or none.
LEMMA UserNextKeeps ==
  ASSUME Inductive, UserNext
  PROVE  Inductive'
<1>1. /\ step = "user" /\ level \in MiddlewareLevels /\ nexts[level] < MaxNext
      /\ cleared' = IF level = Outer THEN {} ELSE cleared \ {"bound", "validated", "constraints"}
      /\ UNCHANGED <<config, panicking, acts, operation, principal, result, response, carriers>>
  BY DEF UserNext, UserRuns
<1>2. TypeOK /\ Guarded /\ Sound(response) /\ step \notin Ends
  BY <1>1, Running DEF Ends
<1>3. /\ level \in 1 .. Endpoint /\ level # Router /\ level # Endpoint
      /\ level + 1 \in 1 .. Endpoint
  BY <1>1, Levels
<1> DEFINE n == [nexts EXCEPT ![level] = @ + 1]
<1>4. PICK c \in CarrierNames \cup {"none"} :
        (c = "none" \/ c = ctx[level]) /\ Enter(level + 1, c, n)
  <2>1. PICK fresh \in FreshContexts : Enter(level + 1, IF fresh THEN "none" ELSE ctx[level], n)
    BY DEF UserNext
  <2>2. ctx[level] \in CarrierNames \cup {"none"}
    BY <1>2, <1>3 DEF TypeOK
  <2> QED
    BY <2>1, <2>2
<1>5. n \in [MiddlewareLevels -> 0 .. MaxNext]
  <2>1. nexts[level] + 1 \in 0 .. MaxNext
    BY <1>1, <1>2, ShapeAssumption DEF TypeOK
  <2> QED
    BY <1>2, <2>1 DEF TypeOK
<1> HIDE DEF n
<1>6. /\ level' = level + 1 /\ step' \in StepsAt(level')
      /\ step' \in {"route", "user", "bind", "constraints"}
      /\ level' = Endpoint => step' # "user"
      /\ ctx' \in [1 .. Endpoint -> CarrierNames \cup {"none"}] /\ ctx'[level + 1] = c
      /\ \A k \in 1 .. Endpoint : k # level + 1 => ctx'[k] = ctx[k]
      /\ nexts' \in [MiddlewareLevels -> 0 .. MaxNext]
  BY <1>2, <1>3, <1>4, <1>5, EnterSteps
<1>7. TypeOK'
  BY <1>1, <1>2, <1>3, <1>6 DEF TypeOK, StepsAt
<1>8. ASSUME level' > Router
      PROVE  /\ operation \in Operations
             /\ operation.security # "none" => {"authenticated", "authorized"} \subseteq cleared'
             /\ \A l \in (Router + 1) .. level' : Carried(l)'
  <2>1. level > Router
    BY <1>3, <1>6, <1>8, Levels
  <2>2. /\ operation \in Operations
        /\ operation.security # "none" => {"authenticated", "authorized"} \subseteq cleared
        /\ \A l \in (Router + 1) .. level : Carried(l)
    BY <1>2, <2>1 DEF Guarded
  <2>3. ASSUME NEW l \in (Router + 1) .. level
        PROVE  Carried(l)'
    <3>1. ctx'[l] = ctx[l]
      BY <1>3, <1>6, <2>3, Levels
    <3> QED
      BY <1>1, <2>2, <3>1 DEF Carried
  <2>4. ASSUME NEW l, l = level + 1
        PROVE  Carried(l)'
    <3>1. level \in (Router + 1) .. level
      BY <1>3, <2>1, Levels
    <3>2. Carried(level) /\ ctx'[l] = c
      BY <1>6, <2>2, <2>4, <3>1
    <3> QED
      BY <1>1, <1>4, <3>2 DEF Carried
  <2>5. (Router + 1) .. level' = ((Router + 1) .. level) \cup {level + 1}
    BY <1>3, <1>6, <2>1, Levels
  <2>6. cleared' = cleared \ {"bound", "validated", "constraints"}
    BY <1>1, <1>3, <2>1, ShapeAssumption DEF Router
  <2> QED
    BY <1>1, <2>2, <2>3, <2>4, <2>5, <2>6
<1>9. Guarded'
  BY <1>1, <1>6, <1>8 DEF Guarded
<1>10. Answered'
  BY <1>1, <1>2, <1>6, RunningAnswered DEF Ends
<1> QED
  BY <1>7, <1>9, <1>10 DEF Inductive

---------------------------------------------------------------------------
(* The router and the entry handler. *)

\* At the router no scoped layer runs.
LEMMA AtRouter ==
  ASSUME Inductive, step \in {"route", "authenticate", "authorize"}
  PROVE  /\ TypeOK /\ Guarded /\ Sound(response) /\ config \in Configs
         /\ level = Router /\ level > 0 /\ Router + 1 \in 1 .. Endpoint
<1>1. step \notin Ends
  BY DEF Ends
<1>2. TypeOK /\ Guarded /\ Sound(response) /\ config \in Configs
  BY <1>1, Running
<1> QED
  BY <1>2, Where, Levels

LEMMA MuxAnswersKeeps ==
  ASSUME Inductive, MuxAnswers
  PROVE  Inductive'
<1>1. Sound(response) /\ config \in Configs /\ level > 0 /\ TypeOK
  BY AtRouter DEF MuxAnswers, At
<1>2. PICK status \in {307, 404, 405} : response' = Write(WriteHeader(response, status, "mux"), "mux")
  BY DEF MuxAnswers
<1>3. "mux" \in Answerers
  BY DEF Answerers, Authors
<1>4. Sound(WriteHeader(response, status, "mux"))
  BY <1>1, <1>3, WriteHeaderSound
<1>5. Sound(Write(WriteHeader(response, status, "mux"), "mux"))
  BY <1>1, <1>3, <1>4, WriteSound
<1> QED
  BY <1>1, <1>2, <1>5, ReturnKeeps DEF MuxAnswers, TypeOK

LEMMA ServeDocumentKeeps ==
  ASSUME Inductive, ServeDocument
  PROVE  Inductive'
<1>1. Sound(response) /\ config \in Configs /\ level > 0 /\ TypeOK
  BY AtRouter DEF ServeDocument, At
<1>2. PICK status \in {200, 304, 405} :
        LET committed == WriteHeader(response, status, "document")
        IN response' = committed \/ response' = Write(committed, "document")
  BY DEF ServeDocument
<1>3. "document" \in Answerers
  BY DEF Answerers, Authors
<1>4. Sound(WriteHeader(response, status, "document"))
  BY <1>1, <1>3, WriteHeaderSound
<1>5. Sound(Write(WriteHeader(response, status, "document"), "document"))
  BY <1>1, <1>3, <1>4, WriteSound
<1>6. Sound(response')
  BY <1>2, <1>4, <1>5
<1> QED
  BY <1>1, <1>6, ReturnKeeps DEF ServeDocument, TypeOK

CarrierType == [operation : Operations \cup {NoOperation}, principal : Principals \cup {NoPrincipal}]

LEMMA SelectOperationKeeps ==
  ASSUME Inductive, SelectOperation
  PROVE  Inductive'
<1>1. /\ TypeOK /\ Sound(response) /\ level = Router /\ Router + 1 \in 1 .. Endpoint
      /\ step = "route"
  BY AtRouter DEF SelectOperation, At
<1>2. PICK o \in Operations : operation' = o /\ WithOperationInfo(o)
  BY DEF SelectOperation
<1>3. /\ cleared' = {"selected"} /\ principal' = NoPrincipal /\ level' = Router /\ step' = "authenticate"
      /\ UNCHANGED <<config, panicking, acts, nexts, result, response>>
  BY DEF SelectOperation, Goto
<1>4. /\ ctx' \in [1 .. Endpoint -> CarrierNames \cup {"none"}]
      /\ carriers' \in [CarrierNames -> CarrierType]
      /\ ctx'[Router + 1] \in CarrierNames
      /\ carriers'[ctx'[Router + 1]].operation = o
  <2>1. /\ ctx \in [1 .. Endpoint -> CarrierNames \cup {"none"}]
        /\ carriers \in [CarrierNames -> CarrierType]
        /\ Router \in 1 .. Endpoint
    BY <1>1, Levels DEF TypeOK, CarrierType
  <2>2. CASE ctx[Router] = "none"
    <3> DEFINE new == [operation |-> o, principal |-> NoPrincipal]
    <3>1. new \in CarrierType /\ new.operation = o /\ "operation" \in CarrierNames
      BY DEF CarrierType, CarrierNames
    <3>2. /\ ctx' = [ctx EXCEPT ![Router + 1] = "operation"]
          /\ carriers' = [carriers EXCEPT !["operation"] = new]
      BY <1>2, <2>2 DEF WithOperationInfo
    <3> HIDE DEF new
    <3> QED
      BY <1>1, <2>1, <3>1, <3>2
  <2>3. CASE ctx[Router] # "none"
    <3> DEFINE c == ctx[Router]
               new == [carriers[c] EXCEPT !.operation = o]
    <3>1. c \in CarrierNames /\ carriers[c] \in CarrierType
      BY <2>1, <2>3
    <3>2. new \in CarrierType /\ new.operation = o
      BY <3>1 DEF CarrierType
    <3>3. /\ ctx' = [ctx EXCEPT ![Router + 1] = c]
          /\ carriers' = [carriers EXCEPT ![c] = new]
      BY <1>2, <2>3 DEF WithOperationInfo
    <3> HIDE DEF new, c
    <3> QED
      BY <1>1, <2>1, <3>1, <3>2, <3>3
  <2> QED
    BY <2>2, <2>3
<1>5. TypeOK'
  <2>1. step' \in StepsAt(level') /\ level' \in 0 .. Endpoint
    BY <1>3, Levels DEF StepsAt
  <2>2. cleared' \subseteq Gates
    BY <1>3 DEF Gates
  <2> QED
    BY <1>1, <1>2, <1>3, <1>4, <2>1, <2>2 DEF TypeOK, CarrierType, StepsAt
<1>6. Guarded'
  BY <1>2, <1>3, <1>4, Levels DEF Guarded
<1>7. Answered'
  BY <1>1, <1>3, RunningAnswered DEF Ends
<1> QED
  BY <1>5, <1>6, <1>7 DEF Inductive

\* The principal goes into the carrier of the context the entry handler hands on.
LEMMA WithPrincipalSets ==
  ASSUME TypeOK, ctx[Router + 1] \in CarrierNames,
         NEW p \in Principals \cup {NoPrincipal}, WithPrincipal(p)
  PROVE  /\ carriers' \in [CarrierNames -> CarrierType]
         /\ carriers'[ctx[Router + 1]].principal = p
         /\ carriers'[ctx[Router + 1]].operation = carriers[ctx[Router + 1]].operation
<1> DEFINE c == ctx[Router + 1]
           new == [carriers[c] EXCEPT !.principal = p]
<1>1. carriers \in [CarrierNames -> CarrierType] /\ carriers[c] \in CarrierType
  BY DEF TypeOK, CarrierType
<1>2. new \in CarrierType /\ new.principal = p /\ new.operation = carriers[c].operation
  BY <1>1 DEF CarrierType
<1>3. carriers' = [carriers EXCEPT ![c] = new]
  BY DEF WithPrincipal
<1> HIDE DEF new
<1> QED
  BY <1>1, <1>2, <1>3
LEMMA AuthenticateKeeps ==
  ASSUME Inductive, Authenticate
  PROVE  Inductive'
<1>1. /\ step = "authenticate" /\ operation.security # "none"
      /\ cleared' = cleared \cup {"authenticated"} /\ level' = Router /\ step' = "authorize"
      /\ UNCHANGED <<config, panicking, acts, nexts, operation, result, response, ctx>>
  BY DEF Authenticate, At, Goto
<1>2. /\ TypeOK /\ Guarded /\ Sound(response) /\ level = Router
      /\ operation \in Operations /\ ctx[Router + 1] \in CarrierNames
      /\ carriers[ctx[Router + 1]].operation = operation
  BY <1>1, AtRouter DEF Guarded
<1>3. PICK p \in Principals :
        /\ principal' = p
        /\ IF operation.security = "legacy" THEN UNCHANGED carriers ELSE WithPrincipal(p)
  BY DEF Authenticate
<1>4. /\ carriers' \in [CarrierNames -> CarrierType]
      /\ operation.security # "legacy" => carriers'[ctx[Router + 1]].principal = p
      /\ carriers'[ctx[Router + 1]].operation = operation
  <2>1. CASE operation.security = "legacy"
    BY <1>2, <1>3, <2>1 DEF TypeOK, CarrierType
  <2>2. CASE operation.security # "legacy"
    BY <1>2, <1>3, <2>2, WithPrincipalSets
  <2> QED
    BY <2>1, <2>2
<1>5. TypeOK'
  <2>1. step' \in StepsAt(level') /\ level' \in 0 .. Endpoint /\ cleared' \subseteq Gates
    BY <1>1, <1>2, Levels DEF StepsAt, TypeOK, Gates
  <2> QED
    BY <1>1, <1>2, <1>3, <1>4, <2>1 DEF TypeOK, CarrierType, StepsAt
<1>6. Guarded'
  BY <1>1, <1>2, <1>3, <1>4, Levels DEF Guarded
<1>7. Answered'
  BY <1>1, <1>2, RunningAnswered DEF Ends
<1> QED
  BY <1>5, <1>6, <1>7 DEF Inductive

\* The first layer behind the router is entered with what its contexts must hold.
LEMMA AdmitKeeps ==
  ASSUME Inductive, step \in {"authenticate", "authorize"}, Enter(Router + 1, ctx[Router + 1], nexts),
         cleared' \subseteq Gates, cleared \subseteq cleared',
         carriers' \in [CarrierNames -> CarrierType],
         carriers'[ctx[Router + 1]].operation = operation,
         operation.security # "none" =>
           /\ {"authenticated", "authorized"} \subseteq cleared'
           /\ carriers'[ctx[Router + 1]].principal = principal,
         UNCHANGED <<config, panicking, acts, operation, principal, result, response>>
  PROVE  Inductive'
<1>1. /\ TypeOK /\ Guarded /\ Sound(response) /\ Router + 1 \in 1 .. Endpoint
      /\ operation \in Operations /\ ctx[Router + 1] \in CarrierNames
      /\ nexts \in [MiddlewareLevels -> 0 .. MaxNext]
  BY AtRouter DEF Guarded, TypeOK
<1>2. PICK c \in CarrierNames : c = ctx[Router + 1]
  BY <1>1
<1>3. Enter(Router + 1, c, nexts)
  BY <1>2
<1>4. /\ level' = Router + 1 /\ step' \in StepsAt(Router + 1)
      /\ step' \in {"route", "user", "bind", "constraints"}
      /\ Router + 1 = Endpoint => step' # "user"
      /\ ctx' \in [1 .. Endpoint -> CarrierNames \cup {"none"}] /\ ctx'[Router + 1] = c
      /\ nexts' \in [MiddlewareLevels -> 0 .. MaxNext]
  BY <1>1, <1>3, EnterSteps
<1>5. TypeOK'
  <2>1. step' \in StepsAt(level') /\ level' \in 0 .. Endpoint
    BY <1>1, <1>4, Levels
  <2> QED
    BY <1>1, <1>4, <2>1 DEF TypeOK, CarrierType, StepsAt
<1>6. ASSUME NEW l, l = Router + 1
      PROVE  Carried(l)'
  BY <1>2, <1>4, <1>6 DEF Carried
<1>7. (Router + 1) .. level' = {Router + 1}
  BY <1>4, Levels
<1>8. Guarded'
  BY <1>1, <1>4, <1>6, <1>7 DEF Guarded
<1>9. Answered'
  BY <1>1, <1>4, RunningAnswered DEF Ends
<1> QED
  BY <1>5, <1>8, <1>9 DEF Inductive

LEMMA PublicKeeps ==
  ASSUME Inductive, Public
  PROVE  Inductive'
<1>1. /\ step = "authenticate" /\ operation.security = "none"
      /\ Enter(Router + 1, ctx[Router + 1], nexts)
      /\ UNCHANGED <<config, panicking, acts, operation, principal, cleared, result, response, carriers>>
  BY DEF Public, At, scope
<1>2. TypeOK /\ Guarded
  BY <1>1, AtRouter
<1> QED
  BY <1>1, <1>2, AdmitKeeps DEF Guarded, TypeOK, CarrierType

LEMMA AuthorizeKeeps ==
  ASSUME Inductive, Authorize
  PROVE  Inductive'
<1>1. /\ step = "authorize" /\ cleared' = cleared \cup {"authorized"}
      /\ Enter(Router + 1, ctx[Router + 1], nexts)
      /\ UNCHANGED <<config, panicking, acts, operation, principal, result, response>>
      /\ IF operation.security = "legacy" THEN WithPrincipal(principal) ELSE UNCHANGED carriers
  BY DEF Authorize, At
<1>2. /\ TypeOK /\ Guarded /\ principal \in Principals \cup {NoPrincipal}
      /\ ctx[Router + 1] \in CarrierNames /\ carriers[ctx[Router + 1]].operation = operation
      /\ "authenticated" \in cleared
      /\ operation.security # "legacy" => carriers[ctx[Router + 1]].principal = principal
  BY <1>1, AtRouter DEF Guarded, TypeOK
<1>3. /\ carriers' \in [CarrierNames -> CarrierType]
      /\ carriers'[ctx[Router + 1]].operation = operation
      /\ carriers'[ctx[Router + 1]].principal = principal
  <2>1. CASE operation.security = "legacy"
    BY <1>1, <1>2, <2>1, WithPrincipalSets
  <2>2. CASE operation.security # "legacy"
    BY <1>1, <1>2, <2>2 DEF TypeOK, CarrierType
  <2> QED
    BY <2>1, <2>2
<1>4. cleared' \subseteq Gates /\ cleared \subseteq cleared' /\ {"authenticated", "authorized"} \subseteq cleared'
  BY <1>1, <1>2 DEF TypeOK, Gates
<1> QED
  BY <1>1, <1>3, <1>4, AdmitKeeps

LEMMA RefusalsKeep ==
  ASSUME Inductive, RefuseCredentials \/ RefusePrincipal \/ SecurityPanics
  PROVE  Inductive'
<1>1. CASE RefuseCredentials
  BY <1>1, AtRouter, SecurityFailureKeeps DEF RefuseCredentials, At
<1>2. CASE RefusePrincipal
  BY <1>2, AtRouter, SecurityFailureKeeps DEF RefusePrincipal, At
<1>3. CASE SecurityPanics
  BY <1>3, AtRouter, PanicKeeps DEF SecurityPanics, At
<1> QED
  BY <1>1, <1>2, <1>3

---------------------------------------------------------------------------
(* The endpoints. *)

LEMMA AtEndpoint ==
  ASSUME Inductive, step \in {"bind", "validate", "invoke", "write", "constraints"}
  PROVE  /\ TypeOK /\ Guarded /\ Sound(response) /\ config \in Configs
         /\ level = Endpoint /\ level > 0
<1>1. step \notin Ends
  BY DEF Ends
<1>2. TypeOK /\ Guarded /\ Sound(response) /\ config \in Configs
  BY <1>1, Running
<1> QED
  BY <1>2, Where, Levels

\* The endpoint goes on, with the gates its next point requires.
LEMMA EndpointKeeps ==
  ASSUME Inductive, step \in {"bind", "validate", "invoke", "write", "constraints"},
         level' = Endpoint, step' \in {"validate", "invoke", "write", "user"},
         cleared' \subseteq Gates, cleared \subseteq cleared', result' \in ResultType,
         step' \in {"validate", "invoke", "write"} => "bound" \in cleared',
         step' \in {"invoke", "write"} => (operation.validation => "validated" \in cleared'),
         step' = "user" => "constraints" \in cleared',
         UNCHANGED <<config, panicking, acts, nexts, operation, principal, response, contexts>>
  PROVE  Inductive'
<1>1. TypeOK /\ Guarded /\ Sound(response) /\ level = Endpoint
  BY AtEndpoint
<1>2. TypeOK'
  <2>1. step' \in StepsAt(level') /\ level' \in 0 .. Endpoint
    BY Levels DEF StepsAt
  <2> QED
    BY <1>1, <2>1 DEF TypeOK, StepsAt, contexts
<1>3. /\ operation \in Operations
      /\ operation.security # "none" => {"authenticated", "authorized"} \subseteq cleared
      /\ \A l \in (Router + 1) .. level : Carried(l)
  BY <1>1, Levels DEF Guarded
<1>4. \A l \in (Router + 1) .. level : Carried(l) => Carried(l)'
  BY DEF Carried, contexts
<1>5. Guarded'
  BY <1>1, <1>3, <1>4 DEF Guarded
<1>6. Answered'
  BY <1>1, RunningAnswered DEF Ends
<1> QED
  BY <1>2, <1>5, <1>6 DEF Inductive

LEMMA ProceedKeeps ==
  ASSUME Inductive, Bind \/ Validate \/ CheckConstraints \/ Invoke
  PROVE  Inductive'
<1>1. /\ TypeOK /\ Guarded /\ step \in {"bind", "validate", "invoke", "write", "constraints"}
      /\ cleared \subseteq Gates /\ result \in ResultType
  <2>1. step \in {"bind", "validate", "invoke", "write", "constraints"}
    BY DEF Bind, Validate, CheckConstraints, Invoke, At
  <2> QED
    BY <2>1, AtEndpoint DEF TypeOK
<1>2. CASE Bind
  <2>1. cleared' = cleared \cup {"bound"} /\ level' = Endpoint
        /\ step' = (IF operation.validation THEN "validate" ELSE "invoke")
        /\ UNCHANGED <<config, panicking, acts, nexts, operation, principal, result, response, contexts>>
    BY <1>2 DEF Bind, Proceed, Goto
  <2>2. cleared' \subseteq Gates /\ result' \in ResultType
    BY <1>1, <2>1 DEF Gates
  <2> QED
    BY <1>1, <2>1, <2>2, EndpointKeeps
<1>3. CASE Validate
  <2>1. cleared' = cleared \cup {"validated"} /\ level' = Endpoint /\ step' = "invoke" /\ step = "validate"
        /\ UNCHANGED <<config, panicking, acts, nexts, operation, principal, result, response, contexts>>
    BY <1>3 DEF Validate, Proceed, Goto, At
  <2>2. cleared' \subseteq Gates /\ result' \in ResultType /\ "bound" \in cleared
    BY <1>1, <2>1 DEF Gates, Guarded
  <2> QED
    BY <1>1, <2>1, <2>2, EndpointKeeps
<1>4. CASE CheckConstraints
  <2>1. cleared' = cleared \cup {"constraints"} /\ level' = Endpoint /\ step' = "user"
        /\ UNCHANGED <<config, panicking, acts, nexts, operation, principal, result, response, contexts>>
    BY <1>4 DEF CheckConstraints, Proceed, Goto
  <2>2. cleared' \subseteq Gates /\ result' \in ResultType
    BY <1>1, <2>1 DEF Gates
  <2> QED
    BY <1>1, <2>1, <2>2, EndpointKeeps
<1>5. CASE Invoke
  <2>1. level' = Endpoint /\ step' = "write" /\ step = "invoke" /\ result' \in Results
        /\ UNCHANGED <<config, panicking, acts, nexts, operation, principal, cleared, response, contexts>>
    BY <1>5 DEF Invoke, Goto, At
  <2>2. result' \in ResultType /\ "bound" \in cleared /\ (operation.validation => "validated" \in cleared)
    BY <1>1, <2>1, ValuesAssumption DEF Guarded
  <2> QED
    BY <1>1, <2>1, <2>2, EndpointKeeps
<1> QED
  BY <1>2, <1>3, <1>4, <1>5

LEMMA EndpointRefusalsKeep ==
  ASSUME Inductive, RefuseRequest \/ RefuseInput \/ RefuseParameters \/ NilResult \/ EndpointPanics
  PROVE  Inductive'
<1>1. level > 0
  BY AtEndpoint DEF RefuseRequest, RefuseInput, RefuseParameters, NilResult, EndpointPanics, At
<1>2. CASE RefuseRequest
  <2>1. PICK status \in {400, 413, 415} : Fail(status)
    BY <1>2 DEF RefuseRequest
  <2> QED
    BY <1>1, <1>2, <2>1, FailKeeps DEF RefuseRequest
<1>3. CASE RefuseInput \/ RefuseParameters \/ NilResult
  <2>1. PICK status \in {400, 500} : Fail(status)
    BY <1>3 DEF RefuseInput, RefuseParameters, NilResult
  <2> QED
    BY <1>1, <1>3, <2>1, FailKeeps DEF RefuseInput, RefuseParameters, NilResult
<1>4. CASE EndpointPanics
  BY <1>1, <1>4, PanicKeeps DEF EndpointPanics
<1> QED
  BY <1>2, <1>3, <1>4

LEMMA RespondKeeps ==
  ASSUME Inductive, Respond
  PROVE  Inductive'
<1>1. Sound(response) /\ config \in Configs /\ level > 0 /\ result \in ResultType
  BY AtEndpoint DEF Respond, At, TypeOK
<1> DEFINE outcomes == WriteResult(result)
<1>2. \A o \in outcomes : Sound(o.response) /\ o.panics \in BOOLEAN
  BY <1>1, WriteResultSound
<1>3. Answer(outcomes)
  BY DEF Respond
<1> HIDE DEF outcomes
<1> QED
  BY <1>1, <1>2, <1>3, AnswerKeeps DEF Respond

---------------------------------------------------------------------------
(* The end of the request. *)

LEMMA AtServer ==
  ASSUME Inductive, step = "server"
  PROVE  /\ TypeOK /\ Guarded /\ Sound(response) /\ config \in Configs
         /\ level = 0 /\ response \in ResponseType
<1>1. step \notin Ends
  BY DEF Ends
<1>2. TypeOK /\ Guarded /\ Sound(response) /\ config \in Configs
  BY <1>1, Running
<1> QED
  BY <1>2, Where DEF Sound

\* The request ends: what is left to show is about the response alone.
LEMMA EndKeeps ==
  ASSUME Inductive, step = "server", step' \in Ends,
         panicking' \in BOOLEAN, response' \in ResponseType, Sealed(response)',
         AllDirect => OneResponse', NoneExplosive => PanicAnswered',
         UNCHANGED <<config, level, acts, nexts, scope, contexts>>
  PROVE  Inductive'
<1>1. TypeOK /\ Guarded /\ level = 0
  BY AtServer
<1>2. TypeOK'
  BY <1>1, Levels DEF TypeOK, StepsAt, scope, contexts
<1>3. Guarded'
  BY <1>1, Levels DEF Guarded, Ends
<1>4. Answered'
  BY DEF Answered
<1> QED
  BY <1>2, <1>3, <1>4 DEF Inductive

LEMMA FinishKeeps ==
  ASSUME Inductive, Finish
  PROVE  Inductive'
<1>1. /\ Sound(response) /\ response \in ResponseType /\ step = "server"
      /\ step' = "answered" /\ panicking' = FALSE
      /\ UNCHANGED <<config, level, acts, nexts, scope, contexts>>
  BY AtServer DEF Finish, At, TypeOK, Inductive
<1> DEFINE s == ServerWriteHeader(response, 200, "server")
<1>2. response' = s
  BY DEF Finish
<1>3. "server" \in Authors /\ "server" \notin {"failure", "recovery"}
  BY DEF Authors
<1>4. /\ s \in ResponseType /\ s.body = response.body
      /\ \/ s = response
         \/ s.author = "server"
  BY <1>1, <1>3, ServerWriteHeaderKeeps
<1> HIDE DEF s
<1>5. Sealed(s)
  BY <1>1, <1>3, <1>4 DEF Sound, Sealed
<1>6. OneResponse'
  BY <1>1, <1>2, <1>4 DEF OneResponse, Sound
<1>7. PanicAnswered'
  BY <1>1 DEF PanicAnswered
<1> QED
  BY <1>1, <1>2, <1>4, <1>5, <1>6, <1>7, EndKeeps DEF Sealed, Ends

LEMMA PanicEscapesKeeps ==
  ASSUME Inductive, PanicEscapes
  PROVE  Inductive'
<1>1. /\ Sound(response) /\ response \in ResponseType /\ step = "server"
      /\ step' = "escaped" /\ ~config.recovery /\ panicking \in BOOLEAN
      /\ UNCHANGED <<config, level, panicking, acts, nexts, scope, response, contexts>>
  BY AtServer DEF PanicEscapes, At, TypeOK, Inductive
<1>2. OneResponse' /\ PanicAnswered' /\ Sealed(response)'
  BY <1>1 DEF OneResponse, PanicAnswered, Sound, Sealed
<1> QED
  BY <1>1, <1>2, EndKeeps DEF Ends

\* The recovery layer keeps out of a response that is out, and answers the rest.
LEMMA RecoverKeeps ==
  ASSUME Inductive, Recover
  PROVE  Inductive'
<1>1. /\ Sound(response) /\ response \in ResponseType /\ config \in Configs
      /\ step = "server" /\ config.recovery
      /\ UNCHANGED <<config, level, acts, nexts, scope, contexts>>
  BY AtServer DEF Recover, At
<1>2. CASE response.wroteHeader
  <2>1. response' = response /\ panicking' = FALSE /\ step' = "recovered"
    <3>1. PICK o \in {Outcome(response, FALSE)} :
            /\ response' = o.response /\ panicking' = o.panics
            /\ step' = IF o.panics THEN "escaped" ELSE "recovered"
      BY <1>2 DEF Recover
    <3>2. o.response = response /\ o.panics = FALSE
      BY <3>1, OutcomeFields, Zenon
    <3> QED
      BY <3>1, <3>2
  <2>2. Out(response) /\ response.author # "recovery" /\ "recovery" \notin response.body
    BY <1>1, <1>2 DEF Sound, Wired
  <2>3. OneResponse' /\ PanicAnswered' /\ Sealed(response)'
    BY <1>1, <2>1, <2>2 DEF OneResponse, PanicAnswered, Committed, Out, Sound, Sealed
  <2> QED
    BY <1>1, <2>1, <2>3, EndKeeps DEF Ends
<1>3. CASE ~response.wroteHeader
  <2>1. PICK o \in WriteResolved(response, 500, "recovery", FALSE) :
          /\ response' = o.response /\ panicking' = o.panics
          /\ step' = IF o.panics THEN "escaped" ELSE "recovered"
    BY <1>3 DEF Recover
  <2>2. PICK quiet \in BOOLEAN : quiet = FALSE
    OBVIOUS
  <2>3. PICK status \in Nat : status = 500
    OBVIOUS
  <2>4. o \in WriteResolved(response, status, "recovery", quiet)
    BY <2>1, <2>2, <2>3
  <2>5. /\ o.response = response \/ \E sent \in 400..599 : Failed(o.response, response, sent, "recovery")
        /\ o.panics \in BOOLEAN
    BY <1>1, <2>4, WriteResolvedFails
  <2>6. response' \in ResponseType /\ Sealed(response')
    BY <1>1, <2>1, <2>5 DEF Failed, Sound
  <2>7. ASSUME AllDirect
        PROVE  OneResponse'
    <3>1. ~Out(response)
      BY <1>1, <1>3, <2>7 DEF Sound, Wired, AllDirect
    <3>2. CASE o.response = response
      BY <1>1, <2>1, <3>2 DEF OneResponse, Sound
    <3>3. CASE \E sent \in 400..599 : Failed(o.response, response, sent, "recovery")
      BY <2>1, <3>1, <3>3 DEF OneResponse, Failed
    <3> QED
      BY <2>5, <3>2, <3>3
  <2>8. ASSUME NoneExplosive
        PROVE  PanicAnswered'
    <3>1. Failed(o.response, response, 500, "recovery") /\ o.panics = FALSE
      BY <1>1, <2>1, <2>8, RecoveryAnswers DEF NoneExplosive
    <3>2. step' = "recovered" /\ Out(response')
      BY <2>1, <3>1 DEF Failed
    <3>3. response'.author = "recovery" => response'.status = 500
      BY <1>1, <2>1, <3>1 DEF Failed, Sound
    <3> QED
      BY <3>2, <3>3 DEF PanicAnswered, Committed, Out
  <2>9. step' \in Ends /\ panicking' \in BOOLEAN /\ Sealed(response)'
    BY <2>1, <2>5, <2>6 DEF Ends, Sealed
  <2> QED
    BY <1>1, <2>6, <2>7, <2>8, <2>9, EndKeeps
<1> QED
  BY <1>2, <1>3

---------------------------------------------------------------------------
(* The theorems. *)

LEMMA InitHolds ==
  ASSUME Init
  PROVE  Inductive
<1>1. TypeOK
  <2>1. level = 1 /\ level \in 0 .. Endpoint /\ step \in StepsAt(level)
    BY Levels DEF Init, StepsAt
  <2>2. acts \in 0 .. MaxActs /\ nexts \in [MiddlewareLevels -> 0 .. MaxNext]
    BY ShapeAssumption DEF Init
  <2>3. result \in ResultType /\ response \in ResponseType
    BY DEF Init, ResultType, ResponseType
  <2>4. /\ ctx \in [1 .. Endpoint -> CarrierNames \cup {"none"}]
        /\ carriers \in [CarrierNames -> [operation : Operations \cup {NoOperation},
                                         principal : Principals \cup {NoPrincipal}]]
    BY DEF Init, CarrierNames
  <2> QED
    BY <2>1, <2>2, <2>3, <2>4 DEF Init, TypeOK
<1>2. level = 1 /\ step \in {"route", "user"} /\ level < Router + 1 /\ level # Endpoint
  BY Levels DEF Init
<1>3. Guarded
  BY <1>2, Levels DEF Guarded
<1>4. Sound(response)
  <2>1. response.author = "nobody" /\ response.body = {} /\ response.status = 0
        /\ ~response.wroteHeader /\ ~response.hijacked
    BY DEF Init
  <2> QED
    BY <1>1, <2>1 DEF Sound, Wired, Sealed, Out, TypeOK
<1>5. Answered
  BY <1>2, <1>4 DEF Answered, OneResponse, PanicAnswered, Sound
<1> QED
  BY <1>1, <1>3, <1>5 DEF Inductive

LEMMA NextKeeps ==
  ASSUME Inductive, [Next]_vars
  PROVE  Inductive'
<1>1. CASE User /\ ~UserNext
  BY <1>1, UserKeeps
<1>2. CASE UserNext
  BY <1>2, UserNextKeeps
<1>3. CASE Entry
  BY <1>3, MuxAnswersKeeps, ServeDocumentKeeps, SelectOperationKeeps, PublicKeeps,
     AuthenticateKeeps, AuthorizeKeeps, RefusalsKeep DEF Entry
<1>4. CASE Handle
  BY <1>4, ProceedKeeps, EndpointRefusalsKeep, RespondKeeps DEF Handle
<1>5. CASE Recover \/ PanicEscapes \/ Finish
  BY <1>5, RecoverKeeps, PanicEscapesKeeps, FinishKeeps
<1>6. CASE UNCHANGED vars
  <2>1. TypeOK'
    BY <1>6 DEF Inductive, TypeOK, StepsAt, vars
  <2>2. Guarded'
    BY <1>6 DEF Inductive, Guarded, Carried, vars
  <2>3. Answered'
    BY <1>6 DEF Inductive, Answered, Sealed, Sound, Wired, Out, OneResponse, PanicAnswered,
                Committed, vars
  <2> QED
    BY <2>1, <2>2, <2>3 DEF Inductive
<1> QED
  BY <1>1, <1>2, <1>3, <1>4, <1>5, <1>6 DEF Next, Server, Ended

\* The invariant behind the theorems below: types, the gates a pass has cleared
\* at every point, and a response on which no layer but the last has been.
THEOREM PipelineInvariant == Spec => []Inductive
<1>1. Init => Inductive
  BY InitHolds
<1>2. Inductive /\ [Next]_vars => Inductive'
  BY NextKeeps
<1> QED
  BY <1>1, <1>2, PTL DEF Spec

\* The program point always belongs to the layer that runs, whatever panics and
\* however often next is called.
THEOREM PipelineTypes == Spec => []TypeOK
<1>1. Inductive => TypeOK
  BY DEF Inductive
<1> QED
  BY <1>1, PipelineInvariant, PTL

\* No scoped middleware or handler of a secured operation runs unless this very
\* pass authenticated and authorized, whatever an earlier pass left behind.
THEOREM HandlersGuarded == Spec => []HandlerGuarded
<1>1. Inductive => HandlerGuarded
  <2> SUFFICES ASSUME Inductive, level > Router
               PROVE  HandlerGuarded
    BY DEF HandlerGuarded
  <2>1. /\ level \in (Router + 1) .. level
        /\ operation.security # "none" => {"authenticated", "authorized"} \subseteq cleared
    BY Levels DEF Inductive, TypeOK, Guarded
  <2>2. Carried(level)
    BY <2>1 DEF Inductive, Guarded
  <2> QED
    BY <2>1, <2>2 DEF HandlerGuarded, Inductive, Guarded, Carried
<1> QED
  BY <1>1, PipelineInvariant, PTL

\* The flag of the recovery layer never says less, and with a plain writer below
\* never more, than what the connection has seen.
THEOREM WireFollowed == Spec => []StateFollowsWire
<1>1. Inductive => StateFollowsWire
  BY DEF Inductive, Answered, Sound, Wired, Out, StateFollowsWire, Committed
<1> QED
  BY <1>1, PipelineInvariant, PTL

\* Every failure of the framework goes out as a 4xx or 5xx in its own media type,
\* and marked no-store, whatever headers were pending.
THEOREM FailuresSealed == Spec => []FailureSealed
<1>1. Inductive => FailureSealed
  BY DEF Inductive, Answered, Sealed, FailureSealed
<1> QED
  BY <1>1, PipelineInvariant, PTL

\* When the writer below flushes and hijacks itself, the 500 of a panic never
\* follows another answer.
THEOREM OneResponseHolds == AllDirect => (Spec => []OneResponse)
<1> SUFFICES ASSUME AllDirect
             PROVE  Spec => []OneResponse
  OBVIOUS
<1>1. Inductive => OneResponse
  BY DEF Inductive, Answered
<1> QED
  BY <1>1, PipelineInvariant, PTL

\* When no formatter panics, every panic that reaches the recovery layer ends in a
\* committed response or a hijacked connection.
THEOREM PanicsAnswered == NoneExplosive => (Spec => []PanicAnswered)
<1> SUFFICES ASSUME NoneExplosive
             PROVE  Spec => []PanicAnswered
  OBVIOUS
<1>1. Inductive => PanicAnswered
  BY DEF Inductive, Answered
<1> QED
  BY <1>1, PipelineInvariant, PTL

---------------------------------------------------------------------------
(* What one step may do to the response, and what the application          *)
(* middlewares find in the carrier.                                        *)

---------------------------------------------------------------------------
(* What a layer's writing leaves of the response it found. *)

\* Nothing is behind a status that is not out.
Blank(r) == r.status = 0 => r.body = {}

\* A status that is out stays, with its author and its headers.
Follows(s, r, who) ==
  /\ s \in ResponseType
  /\ s.author \in {r.author, who}
  /\ r.status # 0 => s.status = r.status /\ s.author = r.author /\ s.sent = r.sent
  /\ Blank(r) => Blank(s)

LEMMA FollowsSelf ==
  ASSUME NEW r \in ResponseType, NEW who
  PROVE  Follows(r, r, who)
BY DEF Follows

LEMMA FollowsOn ==
  ASSUME NEW r, NEW s, NEW t, NEW who, Follows(s, r, who), Follows(t, s, who)
  PROVE  Follows(t, r, who)
BY DEF Follows

LEMMA ServerWriteHeaderFollows ==
  ASSUME NEW r \in ResponseType, NEW status \in Nat, NEW who \in Authors
  PROVE  Follows(ServerWriteHeader(r, status, who), r, who)
<1> DEFINE s == ServerWriteHeader(r, status, who)
<1>1. /\ s \in ResponseType /\ s.body = r.body
      /\ \/ r.hijacked \/ r.status # 0 \/ Interim(status)
         \/ s.status = status /\ s.author = who /\ s.sent = r.header
      /\ r.hijacked \/ r.status # 0 \/ Interim(status) => s = r
  BY ServerWriteHeaderKeeps
<1> HIDE DEF s
<1>2. Follows(s, r, who)
  BY <1>1 DEF Follows, Blank
<1> QED
  BY <1>2 DEF s

LEMMA WriteHeaderFollows ==
  ASSUME NEW r \in ResponseType, NEW status \in Nat, NEW who \in Authors
  PROVE  Follows(WriteHeader(r, status, who), r, who)
<1> DEFINE w == ServerWriteHeader(r, status, who)
           s == [w EXCEPT !.wroteHeader = ~Interim(status)]
<1>1. Follows(w, r, who)
  BY ServerWriteHeaderFollows
<1>2. WriteHeader(r, status, who) \in {r, w, s}
  BY DEF WriteHeader
<1> HIDE DEF w
<1>3. (~Interim(status)) \in BOOLEAN
  BY DEF Interim
<1>4. /\ s \in ResponseType
      /\ s.status = w.status /\ s.author = w.author /\ s.sent = w.sent /\ s.body = w.body
  BY <1>1, <1>3 DEF Follows, ResponseType
<1> HIDE DEF s
<1>5. Follows(s, r, who)
  BY <1>1, <1>4 DEF Follows, Blank
<1> QED
  BY <1>1, <1>2, <1>5, FollowsSelf

LEMMA ServerWriteFollows ==
  ASSUME NEW r \in ResponseType, NEW who \in Authors
  PROVE  Follows(ServerWrite(r, who), r, who)
<1> DEFINE w == ServerWriteHeader(r, 200, who)
           s == [w EXCEPT !.body = @ \cup {who}]
<1>1. Follows(w, r, who)
  BY ServerWriteHeaderFollows
<1>2. ServerWrite(r, who) = IF RefusesBody(w) THEN w ELSE s
  BY DEF ServerWrite
<1>3. CASE RefusesBody(w)
  BY <1>1, <1>2, <1>3
<1>4. CASE ~RefusesBody(w)
  <2>1. ~w.hijacked /\ w.status # 0
    <3>1. ~w.hijacked /\ ~r.hijacked
      BY <1>4 DEF RefusesBody, ServerWriteHeader, ResponseType
    <3> QED
      BY <3>1 DEF ServerWriteHeader, Interim, ResponseType
  <2> HIDE DEF w
  <2>2. /\ s \in ResponseType
        /\ s.status = w.status /\ s.author = w.author /\ s.sent = w.sent
    BY <1>1 DEF Follows, ResponseType
  <2> HIDE DEF s
  <2>3. Follows(s, r, who)
    BY <1>1, <2>1, <2>2 DEF Follows, Blank
  <2> QED
    BY <1>2, <1>4, <2>3
<1> QED
  BY <1>3, <1>4

LEMMA WriteFollows ==
  ASSUME NEW r \in ResponseType, NEW who \in Authors
  PROVE  Follows(Write(r, who), r, who)
<1> DEFINE w == IF r.wroteHeader THEN r ELSE WriteHeader(r, 200, who)
<1>1. Follows(w, r, who)
  BY WriteHeaderFollows, FollowsSelf
<1>2. Write(r, who) = ServerWrite(w, who)
  BY DEF Write
<1> HIDE DEF w
<1>3. Follows(ServerWrite(w, who), w, who)
  BY <1>1, ServerWriteFollows DEF Follows
<1> QED
  BY <1>1, <1>2, <1>3, FollowsOn

LEMMA SetHeaderFollows ==
  ASSUME NEW r, Sound(r), NEW names \in SUBSET HeaderNames, NEW who
  PROVE  Follows(SetHeader(r, names), r, who)
<1> DEFINE s == SetHeader(r, names)
<1>1. /\ Sound(s) /\ s.status = r.status /\ s.author = r.author
      /\ s.body = r.body /\ s.sent = r.sent
  BY SetHeaderKeeps
<1> HIDE DEF s
<1>2. Follows(s, r, who)
  BY <1>1 DEF Follows, Blank, Sound
<1> QED
  BY <1>2 DEF s

\* Flush and Hijack are user code's.
LEMMA FlushHijackFollow ==
  ASSUME NEW r \in ResponseType
  PROVE  Follows(Flush(r), r, "user") /\ Follows(Hijack(r), r, "user")
<1>1. "user" \in Authors
  BY DEF Authors
<1>2. Follows(Flush(r), r, "user")
  BY <1>1, WriteHeaderFollows, ServerWriteHeaderFollows, FollowsSelf DEF Flush
<1> DEFINE known == r.wroteHeader \/ (config.recovery /\ "hijack" \in config.direct)
           s == [r EXCEPT !.hijacked = TRUE, !.wroteHeader = known]
<1>3. Hijack(r) = s
  BY DEF Hijack
<1>4. known \in BOOLEAN
  BY DEF ResponseType
<1> HIDE DEF known
<1>5. /\ s \in ResponseType
      /\ s.status = r.status /\ s.author = r.author /\ s.sent = r.sent /\ s.body = r.body
  BY <1>4 DEF ResponseType
<1> HIDE DEF s
<1>6. Follows(s, r, "user")
  BY <1>5 DEF Follows, Blank
<1> QED
  BY <1>2, <1>3, <1>6

---------------------------------------------------------------------------
(* Failures and results. *)

\* A failure that is committed has one of these statuses, and carries what was
\* pending, but for the media type.
Refused(s, r, statuses) ==
  s.author # r.author => s.status \in statuses /\ r.header \ ContentTypes \subseteq s.sent

LEMMA DeliverFollows ==
  ASSUME NEW r \in ResponseType, NEW who \in Authors, NEW reportPanics,
         NEW o \in Deliver(r, who, reportPanics)
  PROVE  Follows(o.response, r, who)
<1>1. o = Outcome(r, reportPanics) \/ o = Outcome(Write(r, who), FALSE)
  BY Zenon DEF Deliver
<1>2. o.response = r \/ o.response = Write(r, who)
  BY <1>1, OutcomeFields, Zenon
<1> QED
  BY <1>2, FollowsSelf, WriteFollows

LEMMA WritePayloadFollows ==
  ASSUME config \in Configs, NEW r, Sound(r), NEW status \in 400..599,
         NEW type \in {"failure", "problem"}, NEW who \in {"failure", "recovery"},
         NEW reportPanics \in BOOLEAN,
         NEW o \in WritePayload(r, status, type, who, reportPanics)
  PROVE  Follows(o.response, r, who) /\ Refused(o.response, r, {status})
<1> DEFINE h == SetHeader(r, {type, "no-store"})
           w == WriteHeader(h, status, who)
<1>1. /\ who \in Authors /\ {type, "no-store"} \in SUBSET HeaderNames
      /\ status \in Nat /\ status # 0 /\ ~Interim(status)
  BY DEF Authors, HeaderNames, ContentTypes, Interim
<1>2. /\ Sound(h) /\ h \in ResponseType /\ Follows(h, r, who)
      /\ h.status = r.status /\ h.author = r.author /\ h.hijacked = r.hijacked
  BY <1>1, SetHeaderKeeps, SetHeaderFollows DEF Sound
<1>3. r.header \ ContentTypes \subseteq h.header
  BY DEF SetHeader, Sound, ResponseType
<1> HIDE DEF h
<1>4. Follows(w, h, who)
  BY <1>1, <1>2, WriteHeaderFollows
<1>5. ~Out(h) => w.status = status /\ w.sent = h.header
  BY <1>1, <1>2, WriteHeaderKeeps
<1>6. \/ w.status = h.status /\ w.author = h.author /\ w.sent = h.sent
      \/ ~Out(h)
  BY <1>1, <1>2, WriteHeaderKeeps
<1>7. o \in Deliver(w, who, reportPanics)
  BY DEF WritePayload, w, h
<1> HIDE DEF w
<1>8. Follows(o.response, w, who)
  BY <1>1, <1>4, <1>7, DeliverFollows DEF Follows
<1>9. Follows(o.response, r, who)
  BY <1>2, <1>4, <1>8, FollowsOn
<1>10. Refused(o.response, r, {status})
  <2>1. CASE ~Out(h)
    BY <1>1, <1>3, <1>5, <1>8, <2>1 DEF Follows, Refused
  <2>2. CASE Out(h)
    <3>1. Failed(o.response, r, status, who)
      BY WritePayloadFails
    <3> QED
      BY <1>2, <2>2, <3>1 DEF Failed, Refused, Out
  <2> QED
    BY <2>1, <2>2
<1> QED
  BY <1>9, <1>10

LEMMA WriteResolvedFollows ==
  ASSUME config \in Configs, NEW r, Sound(r), NEW status \in Nat,
         NEW who \in {"failure", "recovery"}, NEW reportPanics \in BOOLEAN,
         NEW o \in WriteResolved(r, status, who, reportPanics)
  PROVE  Follows(o.response, r, who) /\ Refused(o.response, r, {Normalize(status), 500})
<1>1. r \in ResponseType
  BY DEF Sound
<1>2. ASSUME o = Outcome(r, TRUE)
      PROVE  Follows(o.response, r, who) /\ Refused(o.response, r, {Normalize(status), 500})
  <2>1. o.response = r
    BY <1>2, OutcomeFields, Zenon
  <2> QED
    BY <1>1, <2>1, FollowsSelf DEF Refused
<1>3. CASE config.formatter = "sound"
  <2>1. PICK sent \in 400..599 : sent = Normalize(status)
    BY DEF Normalize
  <2>2. o \in WritePayload(r, sent, "failure", who, reportPanics)
    BY <1>3, <2>1 DEF WriteResolved
  <2>3. Follows(o.response, r, who) /\ Refused(o.response, r, {sent})
    BY <2>2, WritePayloadFollows, ZenonT(60)
  <2> QED
    BY <2>1, <2>3 DEF Refused
<1>4. CASE config.formatter = "broken" /\ ~reportPanics
  <2>1. PICK sent \in 400..599 : sent = 500
    OBVIOUS
  <2>2. o \in WritePayload(r, sent, "problem", who, reportPanics)
    BY <1>4, <2>1 DEF WriteResolved
  <2>3. Follows(o.response, r, who) /\ Refused(o.response, r, {sent})
    BY <2>2, WritePayloadFollows, ZenonT(60)
  <2> QED
    BY <2>1, <2>3 DEF Refused
<1>5. CASE config.formatter = "broken" /\ reportPanics
  <2>1. o \in {Outcome(r, TRUE)}
    BY <1>5 DEF WriteResolved
  <2> QED
    BY <1>2, <2>1
<1>6. CASE config.formatter = "explosive"
  <2>1. o \in {Outcome(r, TRUE)}
    BY <1>6 DEF WriteResolved
  <2> QED
    BY <1>2, <2>1
<1> QED
  BY <1>3, <1>4, <1>5, <1>6, ConfigFields

LEMMA ReplaceResultFollows ==
  ASSUME config \in Configs, NEW r, Sound(r), NEW o \in ReplaceResult(r)
  PROVE  Follows(o.response, r, "failure") /\ Refused(o.response, r, {500})
<1>1. CASE config.handlerPanics
  <2>1. o \in {Outcome(r, TRUE)}
    BY <1>1 DEF ReplaceResult
  <2>2. o.response = r
    BY <2>1, OutcomeFields, Zenon
  <2> QED
    BY <2>2, FollowsSelf DEF Refused, Sound
<1>2. CASE ~config.handlerPanics
  <2>1. PICK status \in Nat : status = 500
    OBVIOUS
  <2>2. o \in WriteResolved(r, status, "failure", config.handlerPanics)
    BY <1>2, <2>1 DEF ReplaceResult
  <2>3. config.handlerPanics \in BOOLEAN
    BY ConfigFields
  <2>4. Follows(o.response, r, "failure") /\ Refused(o.response, r, {Normalize(status), 500})
    BY <2>2, <2>3, WriteResolvedFollows, ZenonT(60)
  <2> QED
    BY <2>1, <2>4 DEF Normalize, Refused
<1> QED
  BY <1>1, <1>2

\* What Respond may make of a result: the result itself, under the status it has,
\* or a failure, which is a 500 unless the result is one.
Rendered(s, r) ==
  /\ s.author = "result" /\ response.author # "result" =>
       /\ ValidStatus(r) /\ s.status = StatusOf(r)
       /\ Encodes(r) => r.payload = "value"
       /\ "result" \in s.body => StatusAllowsBody(s.status)
  /\ s.author \in {response.author, "result", "failure"}
  /\ s.author = "failure" /\ response.author # "failure" /\ r.payload # "failure" => s.status = 500
  /\ Blank(s)

LEMMA WriteResultRenders ==
  ASSUME config \in Configs, Sound(response), Blank(response), NEW r \in ResultType,
         NEW o \in WriteResult(r)
  PROVE  Rendered(o.response, r)
<1> DEFINE tagged == SetHeader(response, {"result"})
           typed == IF StatusAllowsBody(StatusOf(r)) THEN SetHeader(tagged, {"json"}) ELSE tagged
           ready == IF r.noStore THEN SetHeader(typed, {"no-store"}) ELSE typed
           committed == WriteHeader(ready, StatusOf(r), "result")
<1>1. /\ {"result"} \in SUBSET HeaderNames /\ {"json"} \in SUBSET HeaderNames
      /\ {"no-store"} \in SUBSET HeaderNames
      /\ "result" \in Authors
  BY DEF HeaderNames, ContentTypes, Authors
<1>2. /\ Sound(tagged) /\ Blank(tagged) /\ tagged.author = response.author
      /\ tagged.status = response.status /\ tagged.body = response.body
  BY <1>1, SetHeaderKeeps DEF Blank
<1>3. /\ Sound(typed) /\ Blank(typed) /\ typed.author = response.author
      /\ typed.status = response.status /\ typed.body = response.body
  <2> HIDE DEF tagged
  <2> QED
    BY <1>1, <1>2, SetHeaderKeeps DEF Blank
<1>4. /\ Sound(ready) /\ Blank(ready) /\ ready.author = response.author
      /\ ready.status = response.status /\ ready.body = response.body
  <2> HIDE DEF typed
  <2> QED
    BY <1>1, <1>3, SetHeaderKeeps DEF Blank
<1>5. StatusOf(r) \in Nat /\ StatusOf(r) # 0
  BY DEF StatusOf, ResultType
<1>6. /\ committed \in ResponseType /\ Blank(committed)
      /\ committed.author \in {response.author, "result"}
      /\ committed.body = response.body
      /\ committed.author # response.author =>
           response.status = 0 /\ committed.status = StatusOf(r)
  <2> HIDE DEF ready
  <2>1. Follows(committed, ready, "result")
    BY <1>1, <1>4, <1>5, WriteHeaderFollows DEF Sound
  <2>2. /\ committed.body = ready.body
        /\ \/ committed.status = ready.status /\ committed.author = ready.author
           \/ ~Out(ready) /\ committed.status = StatusOf(r)
    BY <1>1, <1>4, <1>5, WriteHeaderKeeps
  <2> QED
    BY <1>4, <2>1, <2>2 DEF Follows, Out
<1>7. response.author = "nobody" \/ response.status # 0
  BY DEF Sound
<1>8. ASSUME NEW s, s.author = response.author, Blank(s)
      PROVE  Rendered(s, r)
  BY <1>8 DEF Rendered
<1>9. CASE o \in ReplaceResult(response) \/ o \in ReplaceResult(tagged)
  <2> HIDE DEF tagged
  <2>1. PICK b : /\ Sound(b) /\ Blank(b) /\ b.author = response.author
                 /\ o \in ReplaceResult(b)
    BY <1>2, <1>9
  <2>2. Follows(o.response, b, "failure") /\ Refused(o.response, b, {500})
    BY <2>1, ReplaceResultFollows
  <2> QED
    BY <2>1, <2>2 DEF Follows, Refused, Rendered
<1>10. CASE r.payload = "failure" /\ o \in WriteResolved(tagged, StatusOf(r), "failure", config.handlerPanics)
  <2> HIDE DEF tagged
  <2>1. Follows(o.response, tagged, "failure")
    BY <1>2, <1>5, <1>10, ConfigFields, WriteResolvedFollows, ZenonT(60)
  <2> QED
    BY <1>2, <1>10, <2>1 DEF Follows, Rendered
<1>11. CASE o = Outcome(tagged, TRUE)
  <2>1. o.response = tagged
    BY <1>11, OutcomeFields, Zenon
  <2> HIDE DEF tagged
  <2> QED
    BY <1>2, <1>8, <2>1
<1>12. CASE /\ ValidStatus(r)
            /\ Encodes(r) => r.payload = "value"
            /\ o = Outcome(committed, FALSE)
  <2>1. o.response = committed
    BY <1>12, OutcomeFields, Zenon
  <2>2. committed.author # response.author => "result" \notin committed.body
    BY <1>6 DEF Blank
  <2> HIDE DEF committed
  <2>3. CASE committed.author = response.author
    BY <1>6, <1>8, <2>1, <2>3
  <2>4. CASE committed.author # response.author
    BY <1>6, <1>12, <2>1, <2>2, <2>4 DEF Rendered
  <2> QED
    BY <2>3, <2>4
<1>13. ValidStatus(r) => Out(committed)
  <2> HIDE DEF ready
  <2>1. ValidStatus(r) => ~Interim(StatusOf(r))
    BY <1>5 DEF ValidStatus, Interim
  <2> QED
    BY <1>1, <1>4, <1>5, <2>1, WriteHeaderKeeps
<1>14. CASE /\ ValidStatus(r) /\ r.payload = "value" /\ Encodes(r)
            /\ o \in Deliver(committed, "result", config.handlerPanics)
  <2> HIDE DEF committed
  <2>1. Follows(o.response, committed, "result")
    BY <1>1, <1>6, <1>14, DeliverFollows
  <2>2. CASE o.response.author = response.author
    BY <1>6, <1>8, <2>1, <2>2 DEF Follows
  <2>3. CASE o.response.author # response.author /\ committed.author = "result"
    <3>1. o.response.status = StatusOf(r) /\ Blank(o.response) /\ o.response.author = "result"
      BY <1>5, <1>6, <2>1, <2>3 DEF Follows
    <3>2. StatusAllowsBody(o.response.status)
      BY <1>14, <3>1 DEF Encodes
    <3> QED
      BY <1>14, <3>1, <3>2 DEF Rendered
  <2>4. CASE committed.author = response.author
    <3>1. Out(committed)
      BY <1>14, <1>13
    <3>2. CASE committed.hijacked
      <4>1. o = Outcome(committed, config.handlerPanics)
        BY <1>14, <3>2, Zenon DEF Deliver, RefusesBody
      <4>2. o.response = committed
        BY <4>1, OutcomeFields, Zenon
      <4> QED
        BY <1>6, <1>8, <2>4, <4>2
    <3>3. CASE committed.status # 0
      BY <1>6, <1>8, <2>1, <2>4, <3>3 DEF Follows
    <3> QED
      BY <3>1, <3>2, <3>3 DEF Out
  <2> QED
    BY <1>6, <2>2, <2>3, <2>4
<1> HIDE DEF committed, tagged
<1>15. CASE ~ValidStatus(r)
  BY <1>9, <1>15 DEF WriteResult
<1>16. CASE ValidStatus(r) /\ r.payload = "failure"
  BY <1>10, <1>16 DEF WriteResult, tagged
<1>17. CASE ValidStatus(r) /\ r.payload = "error" /\ Encodes(r)
  BY <1>9, <1>17 DEF WriteResult, tagged
<1>18. CASE ValidStatus(r) /\ r.payload = "panic" /\ Encodes(r)
  BY <1>11, <1>18 DEF WriteResult, tagged
<1>19. CASE ValidStatus(r) /\ r.payload = "value" /\ Encodes(r)
  <2>1. o \in Deliver(committed, "result", config.handlerPanics)
    BY <1>19 DEF WriteResult, committed, tagged
  <2> QED
    BY <1>14, <1>19, <2>1
<1>20. CASE /\ ValidStatus(r) /\ r.payload # "failure"
            /\ ~(Encodes(r) /\ r.payload \in {"error", "panic", "value"})
  <2>1. o = Outcome(committed, FALSE)
    BY <1>20 DEF WriteResult, committed, tagged
  <2>2. ~Encodes(r)
    BY <1>20 DEF Encodes, ResultType
  <2> QED
    BY <1>12, <1>20, <2>1, <2>2
<1> QED
  BY <1>15, <1>16, <1>17, <1>18, <1>19, <1>20

---------------------------------------------------------------------------
(* What has been seen on the way to a step. *)

\* Only typed operations bind, validate, invoke and write.
Typed == step \in {"bind", "validate", "invoke", "write"} => operation.typed

Recorded == {"bearer", "basic", "apiKey"}

\* The carrier that reached the router tells what the last pass selected and,
\* for a provider, who was authenticated, from the selection on.
Told ==
  "selected" \in cleared /\ ctx[Router] = "app" =>
    /\ ctx[Router + 1] = "app"
    /\ carriers["app"].operation = operation
    /\ principal # NoPrincipal /\ operation.security \in Recorded =>
         carriers["app"].principal = principal

Traced == Inductive /\ Typed /\ Told /\ Blank(response)

\* The bodies of the action properties.
SuccessStep ==
  /\ response'.author = "result" /\ response.author # "result" =>
       /\ ValidStatus(result) /\ response'.status = StatusOf(result)
       /\ Encodes(result) => result.payload = "value"
       /\ "result" \in response'.body => StatusAllowsBody(response'.status)
  /\ response'.author = "failure" /\ response.author # "failure" =>
       response'.status \in 400..599

DocumentedStep ==
  response'.author \in {"failure", "recovery"} /\ response.author = "nobody"
      /\ operation # NoOperation
      /\ ~(step = "write" /\ result.payload = "failure")
    => response'.status \in DocumentedFailures(operation)

ChallengeStep ==
  step = "authenticate" /\ operation.security \in {"legacy", "bearer", "basic"}
      /\ response'.author = "failure" /\ response.author # "failure"
      /\ response'.status = 401
    => "challenge" \in response'.sent

\* What every step is shown to do.
Lawful ==
  /\ Typed' /\ Told' /\ Blank(response)'
  /\ SuccessStep /\ DocumentedStep /\ ChallengeStep

LEMMA TypedStays ==
  ASSUME Typed, operation' = operation,
         step' = step \/ step' \notin {"bind", "validate", "invoke", "write"}
  PROVE  Typed'
BY DEF Typed

LEMMA ToldStays ==
  ASSUME Told, UNCHANGED <<operation, principal, ctx, carriers>>,
         "selected" \in cleared' => "selected" \in cleared
  PROVE  Told'
BY DEF Told

\* Neither a failure nor a result.
Bystanders == {"user", "mux", "document", "server"}

LEMMA BystanderLawful ==
  ASSUME Blank(response), NEW who \in Bystanders, NEW s, Follows(s, response, who),
         response' = s
  PROVE  Blank(response)' /\ SuccessStep /\ DocumentedStep /\ ChallengeStep
<1>1. response'.author \in {response.author, who} /\ Blank(response')
  BY DEF Follows
<1>2. who \notin {"failure", "recovery", "result"}
  BY DEF Bystanders
<1> QED
  BY <1>1, <1>2 DEF SuccessStep, DocumentedStep, ChallengeStep, Blank

\* A layer that stays, or leaves, touches neither the operation nor the carrier.
LEMMA AsideLawful ==
  ASSUME Traced, UNCHANGED <<scope, contexts>>, NEW who \in Bystanders, NEW s,
         Follows(s, response, who), response' = s,
         step' = step \/ step' \notin {"bind", "validate", "invoke", "write"}
  PROVE  Lawful
<1>1. UNCHANGED <<operation, principal, cleared, ctx, carriers>>
  BY DEF scope, contexts
<1>2. Typed' /\ Told'
  BY <1>1, TypedStays, ToldStays DEF Traced
<1> QED
  BY <1>2, BystanderLawful DEF Traced, Lawful

---------------------------------------------------------------------------
(* User code. *)

LEMMA LeaveGoes ==
  ASSUME Leave
  PROVE  step' \in {"user", "server"}
BY DEF Leave, Goto

LEMMA RunningResponse ==
  ASSUME Traced, step \notin Ends
  PROVE  response \in ResponseType /\ Sound(response) /\ config \in Configs /\ Inductive
BY Running DEF Traced

LEMMA UserLawful ==
  ASSUME Traced, User, ~UserNext
  PROVE  Lawful
<1>1. step = "user" /\ step \notin Ends /\ UNCHANGED <<scope, contexts>>
  BY DEF User, UserWriteHeader, UserWrite, UserFlush, UserHijack, UserPanics, UserRecovers,
         UserReturns, Act, UserRuns, Ends
<1>2. response \in ResponseType /\ "user" \in Authors /\ "user" \in Bystanders
  BY <1>1, RunningResponse DEF Authors, Bystanders
<1>3. Follows(response', response, "user")
  <2>1. CASE UserWriteHeader
    <3>1. PICK status \in UserStatuses :
            response' = response \/ response' = WriteHeader(response, status, "user")
      BY <2>1 DEF UserWriteHeader
    <3>2. Follows(WriteHeader(response, status, "user"), response, "user")
      BY <1>2, ShapeAssumption, WriteHeaderFollows
    <3> QED
      BY <1>2, <3>1, <3>2, FollowsSelf
  <2>2. CASE UserWrite
    BY <1>2, <2>2, WriteFollows DEF UserWrite
  <2>3. CASE UserFlush \/ UserHijack
    BY <1>2, <2>3, FlushHijackFollow DEF UserFlush, UserHijack
  <2>4. CASE UserPanics \/ UserRecovers \/ UserReturns
    BY <1>2, <2>4, FollowsSelf DEF UserPanics, UserRecovers, UserReturns
  <2> QED
    BY <2>1, <2>2, <2>3, <2>4 DEF User
<1>4. step' = step \/ step' \in {"user", "server"}
  BY LeaveGoes DEF User, UserWriteHeader, UserWrite, UserFlush, UserHijack, UserPanics,
                   UserRecovers, UserReturns
<1> QED
  BY <1>1, <1>2, <1>3, <1>4, AsideLawful

\* A layer that is entered binds only if the operation is typed.
LEMMA EnterTyped ==
  ASSUME NEW l, NEW c, NEW n, Enter(l, c, n), operation' = operation
  PROVE  Typed'
BY DEF Enter, Goto, Typed

LEMMA UserNextLawful ==
  ASSUME Traced, UserNext
  PROVE  Lawful
<1>1. /\ step = "user" /\ step \notin Ends /\ level \in MiddlewareLevels
      /\ cleared' = IF level = Outer THEN {} ELSE cleared \ {"bound", "validated", "constraints"}
      /\ UNCHANGED <<operation, principal, response, carriers>>
  BY DEF UserNext, UserRuns, Ends
<1>2. response \in ResponseType /\ "user" \in Bystanders
  BY <1>1, RunningResponse DEF Bystanders
<1>3. Typed' /\ \E c : ctx' = [ctx EXCEPT ![level + 1] = c]
  <2>1. PICK fresh \in FreshContexts :
          Enter(level + 1, IF fresh THEN "none" ELSE ctx[level], [nexts EXCEPT ![level] = @ + 1])
    BY DEF UserNext
  <2>2. Typed'
    BY <1>1, <2>1, EnterTyped
  <2> QED
    BY <2>1, <2>2 DEF Enter
<1>4. ASSUME "selected" \in cleared'
      PROVE  "selected" \in cleared /\ ctx'[Router] = ctx[Router] /\ ctx'[Router + 1] = ctx[Router + 1]
  <2>1. "selected" \in cleared /\ level # Outer
    BY <1>1, <1>4
  <2>2. /\ level \in 1 .. Endpoint /\ level # Router /\ level + 1 # Router
        /\ level + 1 # Router + 1
    BY <1>1, <2>1, Levels
  <2>3. /\ ctx \in [1 .. Endpoint -> CarrierNames \cup {"none"}]
        /\ Router \in 1 .. Endpoint /\ Router + 1 \in 1 .. Endpoint
    BY Levels DEF Traced, Inductive, TypeOK
  <2> QED
    BY <1>3, <2>1, <2>2, <2>3
<1>5. Told'
  BY <1>1, <1>4 DEF Told, Traced
<1>6. Blank(response)' /\ SuccessStep /\ DocumentedStep /\ ChallengeStep
  BY <1>1, <1>2, FollowsSelf, BystanderLawful DEF Traced
<1> QED
  BY <1>3, <1>5, <1>6 DEF Lawful

---------------------------------------------------------------------------
(* The router and the entry handler. *)

LEMMA RouterAnswersLawful ==
  ASSUME Traced, MuxAnswers \/ ServeDocument
  PROVE  Lawful
<1>1. /\ step = "route" /\ step \notin Ends /\ UNCHANGED <<scope, contexts>>
      /\ step' \in {"user", "server"}
  BY LeaveGoes DEF MuxAnswers, ServeDocument, At, Ends
<1>2. PICK who \in {"mux", "document"} : \E status \in {200, 304, 307, 404, 405} :
        \/ response' = WriteHeader(response, status, who)
        \/ response' = Write(WriteHeader(response, status, who), who)
  BY DEF MuxAnswers, ServeDocument
<1>3. response \in ResponseType /\ who \in Authors /\ who \in Bystanders
  BY <1>1, RunningResponse DEF Authors, Bystanders
<1>4. Follows(response', response, who)
  <2>1. PICK status \in {200, 304, 307, 404, 405} :
          \/ response' = WriteHeader(response, status, who)
          \/ response' = Write(WriteHeader(response, status, who), who)
    BY <1>2
  <2> DEFINE w == WriteHeader(response, status, who)
  <2>2. Follows(w, response, who)
    BY <1>3, WriteHeaderFollows
  <2> HIDE DEF w
  <2>3. Follows(Write(w, who), w, who)
    BY <1>3, <2>2, WriteFollows DEF Follows
  <2>4. Follows(Write(w, who), response, who)
    BY <2>2, <2>3, FollowsOn
  <2> QED
    BY <2>1, <2>2, <2>4 DEF w
<1> QED
  BY <1>1, <1>3, <1>4, AsideLawful

\* A step that leaves the response alone breaks none of the action properties.
LEMMA SilentLawful ==
  ASSUME Traced, step \notin Ends, response' = response, Typed', Told'
  PROVE  Lawful
<1>1. Follows(response, response, "user") /\ "user" \in Bystanders
  BY RunningResponse, FollowsSelf DEF Bystanders
<1> QED
  BY <1>1, BystanderLawful DEF Lawful, Traced

LEMMA SelectOperationLawful ==
  ASSUME Traced, SelectOperation
  PROVE  Lawful
<1>1. /\ step = "route" /\ step \notin Ends /\ step' = "authenticate"
      /\ principal' = NoPrincipal /\ response' = response
  BY DEF SelectOperation, At, Goto, Ends
<1>2. PICK o \in Operations : operation' = o /\ WithOperationInfo(o)
  BY DEF SelectOperation
<1>3. ASSUME ctx'[Router] = "app"
      PROVE  ctx'[Router + 1] = "app" /\ carriers'["app"].operation = o
  <2>1. /\ ctx \in [1 .. Endpoint -> CarrierNames \cup {"none"}]
        /\ carriers \in [CarrierNames -> CarrierType] /\ "app" \in CarrierNames
        /\ Router \in 1 .. Endpoint /\ Router + 1 \in 1 .. Endpoint /\ Router + 1 # Router
    BY Levels DEF Traced, Inductive, TypeOK, CarrierType, CarrierNames
  <2>2. \E c : ctx' = [ctx EXCEPT ![Router + 1] = c]
    BY <1>2 DEF WithOperationInfo
  <2>3. ctx[Router] = "app"
    BY <1>3, <2>1, <2>2
  <2>4. /\ ctx' = [ctx EXCEPT ![Router + 1] = "app"]
        /\ carriers' = [carriers EXCEPT !["app"].operation = o]
    BY <1>2, <2>3 DEF WithOperationInfo
  <2>5. carriers["app"] \in CarrierType
    BY <2>1
  <2> QED
    BY <2>1, <2>4, <2>5 DEF CarrierType
<1>4. Typed' /\ Told'
  BY <1>1, <1>2, <1>3 DEF Typed, Told
<1> QED
  BY <1>1, <1>4, SilentLawful

\* Entering the layer behind the router with its context leaves every context as
\* the router and that layer have it.
LEMMA AdmitContexts ==
  ASSUME Traced, Enter(Router + 1, ctx[Router + 1], nexts)
  PROVE  ctx'[Router] = ctx[Router] /\ ctx'[Router + 1] = ctx[Router + 1]
<1>1. /\ ctx \in [1 .. Endpoint -> CarrierNames \cup {"none"}]
      /\ Router \in 1 .. Endpoint /\ Router + 1 \in 1 .. Endpoint /\ Router + 1 # Router
  BY Levels DEF Traced, Inductive, TypeOK
<1> QED
  BY <1>1 DEF Enter

LEMMA PublicLawful ==
  ASSUME Traced, Public
  PROVE  Lawful
<1>1. /\ step = "authenticate" /\ step \notin Ends /\ Enter(Router + 1, ctx[Router + 1], nexts)
      /\ UNCHANGED <<operation, principal, cleared, response, carriers>>
  BY DEF Public, At, scope, Ends
<1>2. Typed' /\ Told'
  BY <1>1, EnterTyped, AdmitContexts DEF Told, Traced
<1> QED
  BY <1>1, <1>2, SilentLawful

LEMMA AuthenticateLawful ==
  ASSUME Traced, Authenticate
  PROVE  Lawful
<1>1. /\ step = "authenticate" /\ step \notin Ends /\ step' = "authorize"
      /\ cleared' = cleared \cup {"authenticated"}
      /\ UNCHANGED <<operation, response, ctx>>
  BY DEF Authenticate, At, Goto, Ends
<1>2. PICK p \in Principals :
        /\ principal' = p
        /\ IF operation.security = "legacy" THEN UNCHANGED carriers ELSE WithPrincipal(p)
  BY DEF Authenticate
<1>3. Told'
  <2>1. CASE operation.security = "legacy"
    BY <1>1, <1>2, <2>1 DEF Told, Traced, Recorded
  <2>2. CASE operation.security # "legacy"
    <3>1. TypeOK /\ ctx[Router + 1] \in CarrierNames /\ WithPrincipal(p)
      BY <1>1, <1>2, <2>2, AtRouter DEF Guarded, Traced
    <3>2. /\ carriers'[ctx[Router + 1]].principal = p
          /\ carriers'[ctx[Router + 1]].operation = carriers[ctx[Router + 1]].operation
      BY <3>1, WithPrincipalSets
    <3> QED
      BY <1>1, <1>2, <3>2 DEF Told, Traced
  <2> QED
    BY <2>1, <2>2
<1>4. Typed'
  BY <1>1 DEF Typed
<1> QED
  BY <1>1, <1>3, <1>4, SilentLawful

LEMMA AuthorizeLawful ==
  ASSUME Traced, Authorize
  PROVE  Lawful
<1>1. /\ step = "authorize" /\ step \notin Ends /\ cleared' = cleared \cup {"authorized"}
      /\ Enter(Router + 1, ctx[Router + 1], nexts)
      /\ UNCHANGED <<operation, principal, response>>
      /\ IF operation.security = "legacy" THEN WithPrincipal(principal) ELSE UNCHANGED carriers
  BY DEF Authorize, At, Ends
<1>2. ctx'[Router] = ctx[Router] /\ ctx'[Router + 1] = ctx[Router + 1] /\ Typed'
  BY <1>1, EnterTyped, AdmitContexts
<1>3. Told'
  <2>1. CASE operation.security # "legacy"
    BY <1>1, <1>2, <2>1 DEF Told, Traced
  <2>2. CASE operation.security = "legacy"
    <3>1. TypeOK /\ ctx[Router + 1] \in CarrierNames /\ principal \in Principals \cup {NoPrincipal}
      BY <1>1, AtRouter DEF Guarded, Traced, TypeOK
    <3>2. carriers'[ctx[Router + 1]].operation = carriers[ctx[Router + 1]].operation
      BY <1>1, <2>2, <3>1, WithPrincipalSets
    <3> QED
      BY <1>1, <1>2, <2>2, <3>2 DEF Told, Traced, Recorded
  <2> QED
    BY <2>1, <2>2
<1> QED
  BY <1>1, <1>2, <1>3, SilentLawful

---------------------------------------------------------------------------
(* Refusals. *)

\* A refusal whose status the document lists, with the challenge pending where
\* one is due.
LEMMA RefusalLawful ==
  ASSUME Traced, Inductive', step \notin Ends, UNCHANGED <<scope, contexts>>,
         NEW r, Sound(r), Follows(r, response, "failure"), r.author = response.author,
         NEW status \in 400..500, status \in DocumentedFailures(operation),
         Answer(WriteResolved(r, status, "failure", config.handlerPanics)),
         step = "authenticate" /\ operation.security \in {"legacy", "bearer", "basic"} =>
           "challenge" \in r.header
  PROVE  Lawful
<1>1. config \in Configs /\ config.handlerPanics \in BOOLEAN /\ status \in Nat
  BY RunningResponse, ConfigFields
<1>2. PICK o \in WriteResolved(r, status, "failure", config.handlerPanics) : response' = o.response
  BY DEF Answer
<1>3. Follows(o.response, r, "failure") /\ Refused(o.response, r, {Normalize(status), 500})
  BY <1>1, WriteResolvedFollows, ZenonT(60)
<1>4. Follows(response', response, "failure")
  BY <1>2, <1>3, FollowsOn
<1>5. Normalize(status) = status /\ 500 \in DocumentedFailures(operation)
  BY DEF Normalize, DocumentedFailures
<1>6. response'.author # response.author =>
        /\ response'.author = "failure"
        /\ response'.status \in DocumentedFailures(operation)
        /\ r.header \ ContentTypes \subseteq response'.sent
  BY <1>2, <1>3, <1>4, <1>5 DEF Refused, Follows
<1>7. step' \in {"user", "server"}
  BY LeaveGoes DEF Answer
<1>8. UNCHANGED <<operation, principal, cleared, ctx, carriers>>
  BY DEF scope, contexts
<1>9. Typed' /\ Told'
  BY <1>7, <1>8, TypedStays, ToldStays DEF Traced
<1>10. Blank(response)'
  BY <1>4 DEF Traced, Follows, Blank
<1>11. SuccessStep
  BY <1>6 DEF SuccessStep, Inductive, Answered, Sealed
<1>12. DocumentedStep
  BY <1>6 DEF DocumentedStep
<1>13. ChallengeStep
  BY <1>6 DEF ChallengeStep, ContentTypes
<1> QED
  BY <1>9, <1>10, <1>11, <1>12, <1>13 DEF Lawful

LEMMA FailLawful ==
  ASSUME Traced, Inductive', step \notin Ends, step # "authenticate", UNCHANGED <<scope, contexts>>,
         NEW status \in 400..500, status \in DocumentedFailures(operation), Fail(status)
  PROVE  Lawful
<1>1. Sound(response) /\ Follows(response, response, "failure")
  BY RunningResponse, FollowsSelf
<1> QED
  BY <1>1, RefusalLawful DEF Fail

LEMMA SecurityFailureLawful ==
  ASSUME Traced, Inductive', UNCHANGED <<scope, contexts>>,
         \/ RefuseCredentials
         \/ RefusePrincipal
  PROVE  Lawful
<1>1. PICK status \in 400..500 :
        /\ SecurityFailure(status) /\ status \in DocumentedFailures(operation)
        /\ (step = "authenticate" /\ status = 401) \/ (step = "authorize" /\ status = 403)
  <2>1. CASE RefuseCredentials
    <3>1. SecurityFailure(401) /\ step = "authenticate" /\ operation.security # "none"
      BY <2>1 DEF RefuseCredentials, At
    <3>2. 401 \in DocumentedFailures(operation)
      BY <3>1 DEF DocumentedFailures
    <3> QED
      BY <3>1, <3>2
  <2>2. CASE RefusePrincipal
    <3>1. SecurityFailure(403) /\ step = "authorize" /\ operation.authorization
      BY <2>2 DEF RefusePrincipal, At
    <3>2. 403 \in DocumentedFailures(operation)
      BY <3>1 DEF DocumentedFailures
    <3> QED
      BY <3>1, <3>2
  <2> QED
    BY <2>1, <2>2
<1>2. step \notin Ends
  BY <1>1 DEF Ends
<1>3. Sound(response) /\ response \in ResponseType /\ {"challenge"} \in SUBSET HeaderNames
  BY <1>2, RunningResponse DEF HeaderNames
<1> DEFINE r == IF Challenged(status) THEN SetHeader(response, {"challenge"}) ELSE response
<1>4. Sound(r) /\ Follows(r, response, "failure") /\ r.author = response.author
  BY <1>3, SetHeaderKeeps, SetHeaderFollows, FollowsSelf
<1>5. step = "authenticate" /\ operation.security \in {"legacy", "bearer", "basic"} =>
        "challenge" \in r.header
  BY <1>1, <1>3 DEF Challenged, SetHeader, ResponseType
<1>6. Answer(WriteResolved(r, status, "failure", config.handlerPanics))
  BY <1>1 DEF SecurityFailure
<1> HIDE DEF r
<1> QED
  BY <1>1, <1>2, <1>4, <1>5, <1>6, RefusalLawful

\* The framework, or what it calls, panics.
LEMMA PanicsLawful ==
  ASSUME Traced, SecurityPanics \/ EndpointPanics
  PROVE  Lawful
<1>1. /\ UNCHANGED <<scope, contexts>> /\ response' = response
      /\ step' \in {"user", "server"} /\ step \notin Ends
  BY LeaveGoes DEF SecurityPanics, EndpointPanics, FrameworkPanics, At, Ends
<1>2. UNCHANGED <<operation, principal, cleared, ctx, carriers>>
  BY <1>1 DEF scope, contexts
<1>3. Typed' /\ Told'
  BY <1>1, <1>2, TypedStays, ToldStays DEF Traced
<1> QED
  BY <1>1, <1>3, SilentLawful

---------------------------------------------------------------------------
(* The endpoints, and the end of the request. *)

LEMMA ProceedLawful ==
  ASSUME Traced, Bind \/ Validate \/ CheckConstraints \/ Invoke
  PROVE  Lawful
<1>1. /\ UNCHANGED <<operation, principal, contexts, response>> /\ step \notin Ends
      /\ "selected" \in cleared' => "selected" \in cleared
      /\ step \in {"bind", "validate", "invoke"} \/ step' \notin {"bind", "validate", "invoke", "write"}
  BY DEF Bind, Validate, CheckConstraints, Invoke, Proceed, At, Goto, Ends
<1>2. Typed'
  BY <1>1 DEF Traced, Typed
<1>3. Told'
  BY <1>1, ToldStays DEF Traced, contexts
<1> QED
  BY <1>1, <1>2, <1>3, SilentLawful

LEMMA EndpointRefusalsLawful ==
  ASSUME Traced, Inductive', RefuseRequest \/ RefuseInput \/ RefuseParameters \/ NilResult
  PROVE  Lawful
<1>1. /\ UNCHANGED <<scope, contexts>> /\ step \notin Ends /\ step # "authenticate"
  BY DEF RefuseRequest, RefuseInput, RefuseParameters, NilResult, At, Ends
<1>2. PICK status \in 400..500 : Fail(status) /\ status \in DocumentedFailures(operation)
  <2>1. CASE RefuseRequest
    <3>1. operation.typed
      BY <2>1 DEF RefuseRequest, At, Traced, Typed
    <3>2. PICK status \in IF operation.body THEN {400, 413, 415} ELSE {400} : Fail(status)
      BY <2>1 DEF RefuseRequest
    <3> QED
      BY <3>1, <3>2 DEF DocumentedFailures
  <2>2. CASE RefuseInput
    BY <2>2 DEF RefuseInput, At, Traced, Typed, DocumentedFailures
  <2>3. CASE RefuseParameters
    BY <2>3 DEF RefuseParameters, DocumentedFailures
  <2>4. CASE NilResult
    BY <2>4 DEF NilResult, DocumentedFailures
  <2> QED
    BY <2>1, <2>2, <2>3, <2>4
<1> QED
  BY <1>1, <1>2, FailLawful

LEMMA RespondLawful ==
  ASSUME Traced, Inductive', Respond
  PROVE  Lawful
<1>1. /\ UNCHANGED <<scope, contexts>> /\ step = "write" /\ step \notin Ends
      /\ step' \in {"user", "server"}
  BY LeaveGoes DEF Respond, Answer, At, Ends
<1>2. config \in Configs /\ Sound(response) /\ Blank(response) /\ result \in ResultType
  BY <1>1, RunningResponse DEF Traced, Inductive, TypeOK
<1>3. PICK o \in WriteResult(result) : response' = o.response
  BY DEF Respond, Answer
<1>4. Rendered(response', result)
  BY <1>2, <1>3, WriteResultRenders
<1>5. UNCHANGED <<operation, principal, cleared, ctx, carriers>>
  BY <1>1 DEF scope, contexts
<1>6. Typed' /\ Told'
  BY <1>1, <1>5, TypedStays, ToldStays DEF Traced
<1>7. SuccessStep
  BY <1>4 DEF Rendered, SuccessStep, Inductive, Answered, Sealed
<1>8. DocumentedStep
  <2>1. response'.author \in {"failure", "recovery"} /\ response.author = "nobody" =>
          response'.author = "failure"
    BY <1>4 DEF Rendered
  <2> QED
    BY <1>1, <1>4, <2>1 DEF Rendered, DocumentedStep, DocumentedFailures
<1>9. ChallengeStep /\ Blank(response)'
  BY <1>1, <1>4 DEF ChallengeStep, Rendered, Blank
<1> QED
  BY <1>6, <1>7, <1>8, <1>9 DEF Lawful

LEMMA RecoverLawful ==
  ASSUME Traced, Recover
  PROVE  Lawful
<1>1. /\ UNCHANGED <<scope, contexts>> /\ step = "server" /\ step \notin Ends
      /\ step' \in {"recovered", "escaped"}
  BY DEF Recover, At, Ends
<1>2. config \in Configs /\ Sound(response) /\ response \in ResponseType
  BY <1>1, RunningResponse
<1>3. PICK o \in IF response.wroteHeader THEN {Outcome(response, FALSE)}
                 ELSE WriteResolved(response, 500, "recovery", FALSE) : response' = o.response
  BY DEF Recover
<1>4. Follows(response', response, "recovery") /\ Refused(response', response, {500})
  <2>1. CASE response.wroteHeader
    <3>1. o \in {Outcome(response, FALSE)}
      BY <1>3, <2>1
    <3>2. o.response = response
      BY <3>1, OutcomeFields, Zenon
    <3> QED
      BY <1>2, <1>3, <3>2, FollowsSelf DEF Refused
  <2>2. CASE ~response.wroteHeader
    <3>1. PICK quiet \in BOOLEAN : quiet = FALSE
      OBVIOUS
    <3>2. PICK status \in Nat : status = 500
      OBVIOUS
    <3>3. o \in WriteResolved(response, status, "recovery", quiet)
      BY <1>3, <2>2, <3>1, <3>2
    <3>4. Follows(o.response, response, "recovery")
            /\ Refused(o.response, response, {Normalize(status), 500})
      BY <1>2, <3>3, WriteResolvedFollows, SMTT(60)
    <3> QED
      BY <1>3, <3>2, <3>4 DEF Normalize, Refused
  <2> QED
    BY <2>1, <2>2
<1>5. UNCHANGED <<operation, principal, cleared, ctx, carriers>>
  BY <1>1 DEF scope, contexts
<1>6. Typed' /\ Told'
  BY <1>1, <1>5, TypedStays, ToldStays DEF Traced
<1>7. SuccessStep /\ ChallengeStep
  BY <1>1, <1>4 DEF Follows, SuccessStep, ChallengeStep
<1>8. DocumentedStep
  BY <1>4 DEF Follows, Refused, DocumentedStep, DocumentedFailures
<1>9. Blank(response)'
  BY <1>4 DEF Follows, Blank, Traced
<1> QED
  BY <1>6, <1>7, <1>8, <1>9 DEF Lawful

LEMMA EndLawful ==
  ASSUME Traced, PanicEscapes \/ Finish
  PROVE  Lawful
<1>1. /\ UNCHANGED <<scope, contexts>> /\ step \notin Ends
      /\ step' \notin {"bind", "validate", "invoke", "write"}
  BY DEF PanicEscapes, Finish, At, Ends
<1>2. response \in ResponseType /\ "server" \in Authors /\ "server" \in Bystanders
  BY <1>1, RunningResponse DEF Authors, Bystanders
<1>3. Follows(response', response, "server")
  BY <1>2, ServerWriteHeaderFollows, FollowsSelf DEF PanicEscapes, Finish
<1> QED
  BY <1>1, <1>2, <1>3, AsideLawful

---------------------------------------------------------------------------
(* The theorems. *)

LEMMA TracedFirst ==
  ASSUME Init
  PROVE  Traced
<1>1. Inductive
  BY InitHolds
<1>2. Typed /\ Told /\ Blank(response)
  BY DEF Init, Typed, Told, Blank
<1> QED
  BY <1>1, <1>2 DEF Traced

LEMMA StepsLawful ==
  ASSUME Traced, Next, Inductive'
  PROVE  Lawful \/ UNCHANGED vars
<1>1. CASE User
  BY <1>1, UserLawful, UserNextLawful
<1>2. CASE Entry
  <2>1. CASE RefuseCredentials \/ RefusePrincipal
    BY <2>1, SecurityFailureLawful DEF RefuseCredentials, RefusePrincipal
  <2> QED
    BY <1>2, <2>1, RouterAnswersLawful, SelectOperationLawful, PublicLawful, AuthenticateLawful,
       AuthorizeLawful, PanicsLawful DEF Entry
<1>3. CASE Handle
  BY <1>3, ProceedLawful, EndpointRefusalsLawful, PanicsLawful, RespondLawful DEF Handle
<1>4. CASE Server
  BY <1>4, RecoverLawful, EndLawful DEF Server, Ended
<1> QED
  BY <1>1, <1>2, <1>3, <1>4 DEF Next

\* No step breaks an action property, and every step keeps what they rest on.
LEMMA TracedKeeps ==
  ASSUME Traced, [Next]_vars
  PROVE  Traced' /\ [SuccessStep]_vars /\ [DocumentedStep]_vars /\ [ChallengeStep]_vars
<1>1. Inductive'
  BY NextKeeps DEF Traced
<1>2. CASE Lawful
  BY <1>1, <1>2 DEF Lawful, Traced
<1>3. CASE UNCHANGED vars
  <2>1. Typed' /\ Told' /\ Blank(response)'
    BY <1>3 DEF vars, Traced, Typed, Told, Blank
  <2> QED
    BY <1>1, <1>3, <2>1 DEF Traced
<1> QED
  BY <1>1, <1>2, <1>3, StepsLawful

\* The invariant behind the theorems below, beside that of the pipeline: only a
\* typed operation binds, the carrier at the router tells what the last pass
\* selected and authenticated, and no body is behind a status that is not out.
THEOREM TracedHolds == Spec => []Traced
<1>1. Init => Traced
  BY TracedFirst
<1>2. Traced /\ [Next]_vars => Traced'
  BY TracedKeeps
<1> QED
  BY <1>1, <1>2, PTL DEF Spec

\* Whatever passes user code makes, and with which contexts, an application
\* middleware finds in its carrier the operation the last pass selected and the
\* principal its provider authenticated.
THEOREM OuterSees == Spec => []OuterSeesRequest
<1>1. Traced => OuterSeesRequest
  BY DEF Traced, Told, OuterSeesRequest, Recorded
<1> QED
  BY <1>1, TracedHolds, PTL

\* A result commits its status only if it is valid and encodes, never a body under
\* a status that allows none, and what takes its place is a 4xx or 5xx.
THEOREM SuccessHolds == Spec => NoFalseSuccess
<1>1. Traced /\ [Next]_vars => [SuccessStep]_vars
  BY TracedKeeps
<1> QED
  BY <1>1, TracedHolds, PTL DEF Spec, NoFalseSuccess, SuccessStep

\* Every status the framework refuses or fails a request with is one that the
\* compiler put into the document of its operation.
THEOREM DocumentedHolds == Spec => FailuresDocumented
<1>1. Traced /\ [Next]_vars => [DocumentedStep]_vars
  BY TracedKeeps
<1> QED
  BY <1>1, TracedHolds, PTL DEF Spec, FailuresDocumented, DocumentedStep

\* A 401 for missing or refused credentials carries the challenge of its scheme.
THEOREM ChallengeHolds == Spec => ChallengeSent
<1>1. Traced /\ [Next]_vars => [ChallengeStep]_vars
  BY TracedKeeps
<1> QED
  BY <1>1, TracedHolds, PTL DEF Spec, ChallengeSent, ChallengeStep
=============================================================================
