---------------------------- MODULE GatewayProofs ----------------------------
(***************************************************************************)
(* Proofs about the gateway: the request pipeline and its metrics          *)
(* (GatewayPipeline), for any set of requests, methods and statuses of the *)
(* targets, and the outbound limiter (GatewayForwarding), for every rate.  *)
(***************************************************************************)
EXTENDS GatewayPipeline, GatewayForwarding, SequenceTheorems, FiniteSetTheorems, TLAPS

Row == [event : Events, stage : Stages, outcome : Outcomes]

\* Who made a response, as far as the request has come: nobody before the
\* content handler is over, the target or the limiter when it is encoded.  Only
\* a POST comes as far as the content handler.
OriginHistory ==
    \A r \in Requests :
        /\ at[r] \in {"new", "app"} => target[r] = None /\ origin[r] = None
        /\ at[r] = "sent" => target[r] = "asked" /\ origin[r] = None
        /\ at[r] = "encode" => origin[r] \in {"target", "limiter"}
        /\ origin[r] = "target" => target[r] \in TargetStatuses
        /\ method[r] # "POST" => /\ at[r] \in {"new", "done", "turned away"}
                                /\ target[r] = None /\ origin[r] = None

\* The inductive invariant.
Inv == TypeOK /\ OriginHistory /\ FailuresAreAttributed

\* The sum of two bags of summary rows is a bag.
LEMMA SumIsABag ==
    ASSUME NEW B, NEW C, IsABag(B), IsABag(C)
    PROVE  IsABag(B (+) C)
  BY DEF IsABag, (+)

\* What Fire and ResponseStatus record is a row.
LEMMA RowsAreRows ==
    ASSUME NEW r \in Requests, NEW prefix, NEW s \in Outcomes
    PROVE  Fire(r, s) \in Row /\ ResponseStatus(r, prefix, s) \in Row
<1>1. Event(r) \in Events
  BY DEF Event, Events
<1>2. StageOf(prefix) \in Stages /\ "result" \in Stages
  BY DEF StageOf, Stages
<1> QED BY <1>1, <1>2 DEF Fire, ResponseStatus, Row

\* A step of the goroutine of a request moves that request, and only it.
LEMMA GoesType ==
    ASSUME TypeOK, NEW r \in Requests, NEW from, NEW to \in Places,
           NEW records \in Seq(Row), Goes(r, from, to, records)
    PROVE  /\ at' \in [Requests -> Places]
           /\ todo' \in [Requests -> Seq(Row)]
           /\ at[r] = from /\ at'[r] = to
           /\ \A q \in Requests \ {r} : at'[q] = at[q]
           /\ UNCHANGED <<codec, method, path, rows, logged>>
  BY DEF Goes, TypeOK, input, summary, Row

\* Requests begin without a response and without rows.
LEMMA InitInv == Init => Inv
<1>1. IsABag(EmptyBag)
  BY DEF IsABag, EmptyBag, SetToBag
<1> QED
  BY <1>1 DEF Init, Inv, TypeOK, OriginHistory, FailuresAreAttributed, Places, None

\* A handler that answers keeps the invariant.
LEMMA AnswerInv ==
    ASSUME Inv, NEW r \in Requests, NEW from, NEW results \in Seq(Row),
           NEW s \in {"200", "400", "401"}, Answer(r, from, results, s)
    PROVE  Inv'
<1>1. results \o <<ResponseStatus(r, method[r], s)>> \in Seq(Row)
  BY RowsAreRows DEF Outcomes
<1>2. /\ at' \in [Requests -> Places] /\ todo' \in [Requests -> Seq(Row)]
      /\ at'[r] = "done" /\ \A q \in Requests \ {r} : at'[q] = at[q]
      /\ UNCHANGED <<codec, method, path, rows, logged>>
  <2>1. PICK records \in Seq(Row) : Goes(r, from, "done", records)
    BY <1>1 DEF Answer
  <2>2. TypeOK /\ "done" \in Places
    BY DEF Inv, Places
  <2> QED BY <2>1, <2>2, GoesType
<1>3. TypeOK'
  BY <1>2 DEF Answer, Inv, TypeOK, Row, Places, None
<1>4. OriginHistory' /\ FailuresAreAttributed'
  BY <1>2 DEF Answer, Inv, OriginHistory, FailuresAreAttributed, TypeOK
<1> QED BY <1>3, <1>4 DEF Inv

\* The gateway's own response keeps the invariant, if it is 500 exactly when
\* the target was asked.
LEMMA WrappedErrorInv ==
    ASSUME Inv, NEW r \in Requests, NEW from \in {"app", "sent", "encode"},
           NEW result \in Results,
           NEW s \in {"400", "403", "500"}, WrappedError(r, from, result, s),
           NEW t \in TargetStatuses \cup {"asked", "failed", None},
           target' = [target EXCEPT ![r] = t], s = "500" <=> t # None
    PROVE  Inv'
<1>1. <<Fire(r, result), ResponseStatus(r, "gateway_payload", s)>> \in Seq(Row)
  BY RowsAreRows DEF Outcomes
<1>2. /\ at' \in [Requests -> Places] /\ todo' \in [Requests -> Seq(Row)]
      /\ at[r] = from /\ at'[r] = "encapsulate"
      /\ \A q \in Requests \ {r} : at'[q] = at[q]
      /\ UNCHANGED <<codec, method, path, rows, logged>>
  BY <1>1, GoesType DEF WrappedError, Inv, Places
<1>3. TypeOK'
  BY <1>2 DEF WrappedError, Inv, TypeOK, Row, Places, None
<1>4. OriginHistory' /\ FailuresAreAttributed'
  BY <1>2 DEF WrappedError, Inv, OriginHistory, FailuresAreAttributed, TypeOK
<1> QED BY <1>3, <1>4 DEF Inv

\* A step that leaves the response alone and does not reach a later stage.
LEMMA MoveInv ==
    ASSUME Inv, NEW r \in Requests, NEW from \in Places, NEW to \in Places,
           NEW records \in Seq(Row), Goes(r, from, to, records), UNCHANGED response,
           (from = "new" /\ to = "app") \/ to = "encapsulate", method[r] = "POST",
           from \notin {"done", "turned away"}
    PROVE  Inv'
<1>1. /\ at' \in [Requests -> Places] /\ todo' \in [Requests -> Seq(Row)]
      /\ at[r] = from /\ at'[r] = to
      /\ \A q \in Requests \ {r} : at'[q] = at[q]
      /\ UNCHANGED <<codec, method, path, rows, logged>>
  BY GoesType DEF Inv
<1>2. TypeOK'
  BY <1>1 DEF response, Inv, TypeOK, Row, Places, None
<1>3. OriginHistory' /\ FailuresAreAttributed'
  BY <1>1 DEF response, Inv, OriginHistory, FailuresAreAttributed, TypeOK
<1> QED BY <1>2, <1>3 DEF Inv

\* Every step of a request, every record and every drain keeps the invariant.
LEMMA NextInv == Inv /\ [Next]_vars => Inv'
<1> SUFFICES ASSUME Inv, [Next]_vars PROVE Inv'
  OBVIOUS
<1> USE StatusesAssumption
<1>a. <<>> \in Seq(Row)
  OBVIOUS
<1>b. \A r \in Requests, x \in Results : <<Fire(r, x)>> \in Seq(Row)
  BY RowsAreRows DEF Outcomes
<1>1. ASSUME NEW r \in Requests, Accept(r) PROVE Inv'
  <2>1. CASE TurnAway(r)
    <3>1. /\ at' \in [Requests -> Places] /\ todo' \in [Requests -> Seq(Row)]
          /\ at'[r] = "turned away" /\ \A q \in Requests \ {r} : at'[q] = at[q]
          /\ UNCHANGED <<codec, method, path, rows, logged>>
      BY <1>a, <2>1, GoesType DEF TurnAway, Inv, Places
    <3>2. TypeOK'
      BY <2>1, <3>1 DEF TurnAway, Inv, TypeOK, Row, Places, None
    <3>3. OriginHistory' /\ FailuresAreAttributed'
      BY <2>1, <3>1 DEF TurnAway, Inv, OriginHistory, FailuresAreAttributed, TypeOK
    <3> QED BY <3>2, <3>3 DEF Inv
  <2>2. CASE ServeConfig(r) \/ InvalidMethod(r)
    BY <1>a, <1>b, <2>2, AnswerInv DEF ServeConfig, InvalidMethod, Results
  <2>3. CASE InvalidRequest(r)
    BY <1>a, <1>b, <2>3, AnswerInv DEF InvalidRequest, Results
  <2>4. CASE DecapsulationFails(r)
    BY <1>a, <1>b, <2>4, AnswerInv DEF DecapsulationFails, Results
  <2>5. CASE Decapsulate(r)
    BY <1>a, <2>5, MoveInv DEF Decapsulate, Places
  <2> QED BY <1>1, <2>1, <2>2, <2>3, <2>4, <2>5 DEF Accept
<1>2. ASSUME NEW r \in Requests, Proceed(r) PROVE Inv'
  <2>1. CASE Reflect(r)
    <3>1. (IF path[r] = "echo" THEN <<Fire(r, "success")>> ELSE <<>>) \in Seq(Row)
      BY <1>a, <1>b DEF Results
    <3>2. method[r] = "POST"
      BY <2>1 DEF Reflect, Goes, Inv, OriginHistory
    <3> QED BY <2>1, <3>1, <3>2, MoveInv DEF Reflect, Places
  <2>2. CASE DecodeFails(r) \/ Forbidden(r)
    <3>1. UNCHANGED target /\ at[r] = "app"
      BY <2>2 DEF DecodeFails, Forbidden, WrappedError, Goes
    <3>3. target' = [target EXCEPT ![r] = None]
      BY <3>1 DEF Inv, OriginHistory, TypeOK
    <3>2. PICK x \in Results, s \in {"400", "403"} : WrappedError(r, "app", x, s)
      BY <2>2 DEF DecodeFails, Forbidden, Results
    <3> HIDE DEF Results
    <3> QED BY <3>2, <3>3, WrappedErrorInv DEF None
  <2>3. CASE RateLimited(r)
    <3>1. /\ at' \in [Requests -> Places] /\ todo' \in [Requests -> Seq(Row)]
          /\ at[r] = "app" /\ at'[r] = "encode"
          /\ \A q \in Requests \ {r} : at'[q] = at[q]
          /\ UNCHANGED <<codec, method, path, rows, logged>>
      <4>1. PICK records \in Seq(Row) : Goes(r, "app", "encode", records)
        BY <1>b, <2>3 DEF RateLimited, Results
      <4>2. TypeOK /\ "encode" \in Places
        BY DEF Inv, Places
      <4> QED BY <4>1, <4>2, GoesType
    <3>2. TypeOK'
      BY <2>3, <3>1 DEF RateLimited, Inv, TypeOK, Row, Places, None
    <3>3. OriginHistory' /\ FailuresAreAttributed'
      BY <2>3, <3>1 DEF RateLimited, Inv, OriginHistory, FailuresAreAttributed, TypeOK
    <3> QED BY <3>2, <3>3 DEF Inv
  <2>4. CASE Send(r)
    <3>1. /\ at' \in [Requests -> Places] /\ todo' \in [Requests -> Seq(Row)]
          /\ at[r] = "app" /\ at'[r] = "sent"
          /\ \A q \in Requests \ {r} : at'[q] = at[q]
          /\ UNCHANGED <<codec, method, path, rows, logged>>
      BY <1>a, <2>4, GoesType DEF Send, Inv, Places
    <3>2. TypeOK'
      BY <2>4, <3>1 DEF Send, Inv, TypeOK, Row, Places, None
    <3>3. OriginHistory' /\ FailuresAreAttributed'
      <4>1. /\ target'[r] = "asked" /\ method[r] = "POST"
            /\ UNCHANGED <<method, inner, origin>> /\ origin[r] = None
            /\ \A q \in Requests \ {r} : target'[q] = target[q]
        BY <2>4, <3>1 DEF Send, Inv, OriginHistory, TypeOK
      <4> QED BY <3>1, <4>1 DEF Inv, OriginHistory, FailuresAreAttributed, None
    <3> QED BY <3>2, <3>3 DEF Inv
  <2>5. CASE TargetFails(r)
    BY <2>5, WrappedErrorInv DEF TargetFails, Results, None
  <2>6. CASE EncodeFails(r)
    <3>1. target' = [target EXCEPT ![r] = target[r]] /\ target[r] \in TargetStatuses
      BY <2>6 DEF EncodeFails, Inv, OriginHistory, TypeOK
    <3>2. PICK x \in Results : WrappedError(r, "encode", x, "500")
      BY <2>6 DEF EncodeFails, EncodeFailure, Results
    <3> QED BY <3>1, <3>2, WrappedErrorInv DEF None
  <2>7. CASE Encode(r)
    <3>1. <<ResponseStatus(r, "gateway_payload", "200")>> \in Seq(Row)
      BY RowsAreRows DEF Outcomes
    <3>2. method[r] = "POST"
      BY <2>7 DEF Encode, Goes, Inv, OriginHistory
    <3> QED BY <2>7, <3>1, <3>2, MoveInv DEF Encode, Places
  <2>8. CASE EncapsulationFails(r)
    BY <1>b, <2>8, AnswerInv DEF EncapsulationFails, Results
  <2>9. CASE Encapsulate(r)
    <3>1. (IF path[r] = "metadata" THEN <<Fire(r, "success")>> ELSE <<>>) \in Seq(Row)
      BY <1>a, <1>b DEF Results
    <3> QED BY <2>9, <3>1, AnswerInv DEF Encapsulate
  <2> QED BY <1>2, <2>1, <2>2, <2>3, <2>4, <2>5, <2>6, <2>7, <2>8, <2>9 DEF Proceed
<1>3. ASSUME NEW r \in Requests, NEW s \in TargetStatuses, TargetAnswers(r, s) PROVE Inv'
  <2>1. <<ResponseStatus(r, "upstream", s), Fire(r, "success")>> \in Seq(Row)
    <3>1. s \in Outcomes /\ "success" \in Outcomes
      BY DEF Outcomes, Results
    <3>2. ResponseStatus(r, "upstream", s) \in Row /\ Fire(r, "success") \in Row
      BY <3>1, RowsAreRows
    <3> QED BY <3>2
  <2>2. /\ at' \in [Requests -> Places] /\ todo' \in [Requests -> Seq(Row)]
        /\ at[r] = "sent" /\ at'[r] = "encode"
        /\ \A q \in Requests \ {r} : at'[q] = at[q]
        /\ UNCHANGED <<codec, method, path, rows, logged>>
    <3>1. PICK records \in Seq(Row) : Goes(r, "sent", "encode", records)
      BY <1>3, <2>1 DEF TargetAnswers
    <3>2. TypeOK /\ "encode" \in Places
      BY DEF Inv, Places
    <3> QED BY <3>1, <3>2, GoesType
  <2>3. TypeOK'
    BY <1>3, <2>2 DEF TargetAnswers, Inv, TypeOK, Row, Places, None
  <2>4. OriginHistory' /\ FailuresAreAttributed'
    BY <1>3, <2>2 DEF TargetAnswers, Inv, OriginHistory, FailuresAreAttributed, TypeOK
  <2> QED BY <2>3, <2>4 DEF Inv
<1>4. ASSUME NEW r \in Requests, Record(r) PROVE Inv'
  <2>1. IsABag(SetToBag({Head(todo[r])}))
    BY DEF IsABag, SetToBag
  <2>2. IsABag(rows')
    BY <1>4, <2>1, SumIsABag DEF Record, Inv, TypeOK
  <2>3. todo' \in [Requests -> Seq(Row)]
    <3>1. todo[r] \in Seq(Row) /\ todo[r] # <<>>
      BY <1>4 DEF Record, Inv, TypeOK, Row
    <3>2. Tail(todo[r]) \in Seq(Row)
      BY <3>1, HeadTailProperties
    <3> QED BY <1>4, <3>2 DEF Record, Inv, TypeOK, Row
  <2>4. UNCHANGED <<codec, method, path, at, status, inner, origin, target, logged>>
    BY <1>4 DEF Record, input, response
  <2> QED
    BY <2>2, <2>3, <2>4 DEF Inv, TypeOK, OriginHistory, FailuresAreAttributed, Row
<1>5. ASSUME DrainWindow PROVE Inv'
  <2>1. IsABag(rows')
    BY <1>5 DEF DrainWindow, Drained, IsABag, EmptyBag, SetToBag
  <2>2. IsABag(logged')
    BY <1>5, SumIsABag DEF DrainWindow, Inv, TypeOK
  <2>3. UNCHANGED <<codec, method, path, at, todo, status, inner, origin, target>>
    BY <1>5 DEF DrainWindow, input, response
  <2> QED BY <2>1, <2>2, <2>3 DEF Inv, TypeOK, OriginHistory, FailuresAreAttributed
<1>6. CASE UNCHANGED vars
  BY <1>6 DEF vars, input, response, summary, Inv, TypeOK, OriginHistory,
              FailuresAreAttributed
<1> QED BY <1>1, <1>2, <1>3, <1>4, <1>5, <1>6 DEF Next

\* Inv holds in every reachable state.
THEOREM InvHolds == Spec => []Inv
  BY InitInv, NextInv, PTL DEF Spec

\* Type correctness of the gateway's requests and of its summary.
THEOREM TypeCorrect == Spec => []TypeOK
<1>1. Inv => TypeOK BY DEF Inv
<1> QED BY <1>1, InvHolds, PTL

\* A client never sees a 500 of the gateway for a request no target was asked
\* about, nor a 4xx of the gateway for one that a target was asked about, nor
\* another status than the target's in the target's name (wrappedError,
\* ProtoHTTPAppHandler and BinaryHTTPAppHandler).
THEOREM AttributionTheorem == Spec => []FailuresAreAttributed
<1>1. Inv => FailuresAreAttributed BY DEF Inv
<1> QED BY <1>1, InvHolds, PTL

-----------------------------------------------------------------------------
(* The summary.  What a request has to be counted for (Expected) is either *)
(* still among its records to come or counted, exactly once.               *)

\* The records to come file an outcome under a stage.
Books(records, stage, outcome) ==
    \E i \in 1 .. Len(records) : records[i].stage = stage /\ records[i].outcome = outcome

\* Beside results, a step of a handler records at most one status.
Single(records) ==
    \A i, j \in 1 .. Len(records) :
        records[i].stage # "result" /\ records[j].stage # "result" => i = j

Owes(r, stage, outcome) == Books(todo[r], stage, outcome)

Expected(r, stage, s) ==
    \/ Final(r, stage, s)
    \/ stage = "upstream" /\ target[r] = s
    \/ stage = "payload" /\ Translated(r, s)

\* The outcomes the properties ask for in a stage.
Statuses(stage) ==
    IF stage = "outer" THEN {"200", "400", "401"}
    ELSE IF stage = "upstream" THEN TargetStatuses \cup {"200", "400"}
    ELSE {"200", "400", "403", "500"}

StatusStages == {"outer", "upstream", "payload"}

Booked(stage, s) == {r \in Requests : Expected(r, stage, s) /\ ~Owes(r, stage, s)}

RecordsInv ==
    \A r \in Requests :
        /\ Single(todo[r])
        /\ \A stage \in StatusStages, s \in Outcomes :
              Owes(r, stage, s) => Expected(r, stage, s)

CountInv ==
    \A stage \in StatusStages : \A s \in Statuses(stage) :
        Counted(stage, s) = Cardinality(Booked(stage, s))

SumInv == Inv /\ RecordsInv /\ CountInv

CopiesOf(row, bag) == IF BagIn(row, bag) THEN bag[row] ELSE 0

\* How often a row was counted, in the rows of this minute and in the log.
Copies(row) == CopiesOf(row, rows) + CopiesOf(row, logged)

Key(event, stage, outcome) == [event |-> event, stage |-> stage, outcome |-> outcome]

LEMMA CopiesNat ==
    ASSUME NEW B, NEW row, IsABag(B) PROVE CopiesOf(row, B) \in Nat
BY DEF IsABag, CopiesOf, BagIn, BagToSet

\* The sum of two bags holds the copies of both.
LEMMA SumCopies ==
    ASSUME NEW B, NEW C, NEW row, IsABag(B), IsABag(C)
    PROVE  CopiesOf(row, B (+) C) = CopiesOf(row, B) + CopiesOf(row, C)
<1>1. CopiesOf(row, B) \in Nat /\ CopiesOf(row, C) \in Nat
  BY CopiesNat
<1>2. CASE row \in DOMAIN B \cup DOMAIN C
  BY <1>2 DEF CopiesOf, BagIn, BagToSet, (+)
<1>3. CASE row \notin DOMAIN B \cup DOMAIN C
  BY <1>3 DEF CopiesOf, BagIn, BagToSet, (+)
<1> QED BY <1>2, <1>3

LEMMA OneCopy ==
    ASSUME NEW h, NEW row
    PROVE  /\ IsABag(SetToBag({h})) /\ IsABag(EmptyBag)
           /\ CopiesOf(row, SetToBag({h})) = IF row = h THEN 1 ELSE 0
           /\ CopiesOf(row, EmptyBag) = 0
BY DEF IsABag, SetToBag, EmptyBag, CopiesOf, BagIn, BagToSet

LEMMA CopiesType ==
    ASSUME Inv, NEW row
    PROVE  CopiesOf(row, rows) \in Nat /\ CopiesOf(row, logged) \in Nat /\ Copies(row) \in Nat
<1>1. \A B : IsABag(B) => CopiesOf(row, B) \in Nat
  BY CopiesNat
<1>2. IsABag(rows) /\ IsABag(logged)
  BY DEF Inv, TypeOK
<1>3. CopiesOf(row, rows) \in Nat /\ CopiesOf(row, logged) \in Nat
  BY <1>1, <1>2
<1> QED BY <1>3 DEF Copies

\* Both events count towards an outcome.
LEMMA CountedIsCopies ==
    ASSUME IsABag(rows), IsABag(logged), NEW stage, NEW outcome
    PROVE  Counted(stage, outcome) =
             Copies(Key("gateway_request", stage, outcome))
             + Copies(Key("configs_request", stage, outcome))
<1>1. \A row : CopiesOf(row, rows (+) logged) = CopiesOf(row, rows) + CopiesOf(row, logged)
  BY SumCopies
<1> QED BY <1>1 DEF Copies, Key, Counted, CopiesOf

\* The same of the next state.
LEMMA CountedNext ==
    ASSUME Inv', NEW stage, NEW outcome
    PROVE  Counted(stage, outcome)' =
             Copies(Key("gateway_request", stage, outcome))'
             + Copies(Key("configs_request", stage, outcome))'
<1>1. IsABag(rows') /\ IsABag(logged')
  BY DEF Inv, TypeOK
<1>2. \A B, C, row : IsABag(B) /\ IsABag(C) =>
          CopiesOf(row, B (+) C) = CopiesOf(row, B) + CopiesOf(row, C)
  BY SumCopies
<1>3. \A row : CopiesOf(row, rows' (+) logged') = CopiesOf(row, rows') + CopiesOf(row, logged')
  BY <1>1, <1>2
<1> QED BY <1>3 DEF Copies, Key, Counted, CopiesOf

\* The end of a minute loses nothing and counts nothing twice.
LEMMA DrainKeepsCopies ==
    ASSUME Inv, DrainWindow, NEW row
    PROVE  Copies(row)' = Copies(row)
<1>1. IsABag(rows) /\ IsABag(logged) /\ rows' = EmptyBag /\ logged' = logged (+) rows
  BY DEF Inv, TypeOK, DrainWindow, Drained
<1>2. CopiesOf(row, logged') = CopiesOf(row, logged) + CopiesOf(row, rows)
  BY <1>1, SumCopies
<1>3. CopiesOf(row, rows') = 0
  BY <1>1, OneCopy
<1>4. Copies(row)' = CopiesOf(row, rows') + CopiesOf(row, logged')
  BY DEF Copies
<1> QED BY <1>2, <1>3, <1>4, CopiesType DEF Copies

\* A record counts its row, and no other.
LEMMA RecordAddsCopy ==
    ASSUME Inv, NEW r \in Requests, Record(r), NEW row
    PROVE  Copies(row)' = Copies(row) + (IF row = Head(todo[r]) THEN 1 ELSE 0)
<1>1. PICK h : h = Head(todo[r])
  OBVIOUS
<1>2. IsABag(rows) /\ logged' = logged /\ rows' = rows (+) SetToBag({h})
  BY <1>1 DEF Inv, TypeOK, Record
<1>3. CopiesOf(row, rows') = CopiesOf(row, rows) + (IF row = h THEN 1 ELSE 0)
  <2>1. \A B, C : IsABag(B) /\ IsABag(C) =>
                    CopiesOf(row, B (+) C) = CopiesOf(row, B) + CopiesOf(row, C)
    BY SumCopies
  <2>2. IsABag(SetToBag({h})) /\ CopiesOf(row, SetToBag({h})) = IF row = h THEN 1 ELSE 0
    BY OneCopy
  <2> QED BY <1>2, <2>1, <2>2
<1>4. Copies(row)' = CopiesOf(row, rows') + CopiesOf(row, logged')
  BY DEF Copies
<1> QED BY <1>1, <1>2, <1>3, <1>4, CopiesType DEF Copies

\* A record counts for the stage and the outcome of its row.
LEMMA RecordCounts ==
    ASSUME Inv, Inv', NEW r \in Requests, Record(r), NEW stage, NEW outcome
    PROVE  Counted(stage, outcome)' =
             Counted(stage, outcome)
             + (IF Head(todo[r]).stage = stage /\ Head(todo[r]).outcome = outcome THEN 1 ELSE 0)
<1>1. Head(todo[r]) \in Row
  <2>1. todo[r] \in Seq(Row) /\ todo[r] # <<>>
    BY DEF Inv, TypeOK, Record, Row
  <2> QED BY <2>1, HeadTailProperties
<1>2. PICK h \in Row : h = Head(todo[r])
  BY <1>1
<1> DEFINE g == Key("gateway_request", stage, outcome)
           c == Key("configs_request", stage, outcome)
<1>3. Counted(stage, outcome) = Copies(g) + Copies(c)
  BY CountedIsCopies DEF Inv, TypeOK
<1>4. Counted(stage, outcome)' = Copies(g)' + Copies(c)'
  BY CountedNext
<1>5. Copies(g)' = Copies(g) + (IF g = h THEN 1 ELSE 0)
  BY <1>2, RecordAddsCopy
<1>6. Copies(c)' = Copies(c) + (IF c = h THEN 1 ELSE 0)
  BY <1>2, RecordAddsCopy
<1>7. Copies(g) \in Nat /\ Copies(c) \in Nat
  BY CopiesType
<1>8. /\ g = h <=> h.event = "gateway_request" /\ h.stage = stage /\ h.outcome = outcome
      /\ c = h <=> h.event = "configs_request" /\ h.stage = stage /\ h.outcome = outcome
      /\ h.event \in {"gateway_request", "configs_request"}
  BY DEF Row, Key, Events
<1> HIDE DEF g, c
<1> QED BY <1>2, <1>3, <1>4, <1>5, <1>6, <1>7, <1>8

-----------------------------------------------------------------------------
(* The records to come.                                                    *)

LEMMA NoRecords == Single(<<>>) /\ \A stage, s : ~Books(<<>>, stage, s)
BY DEF Single, Books

LEMMA OneRecord ==
    ASSUME NEW x
    PROVE  /\ Single(<<x>>)
           /\ \A stage, s : Books(<<x>>, stage, s) <=> x.stage = stage /\ x.outcome = s
<1>1. Len(<<x>>) = 1 /\ <<x>>[1] = x
  OBVIOUS
<1>2. 1 .. 1 = {1}
  OBVIOUS
<1> HIDE DEF Single
<1> QED BY <1>1, <1>2 DEF Single, Books

LEMMA TwoRecords ==
    ASSUME NEW x, NEW y, x.stage = "result" \/ y.stage = "result"
    PROVE  /\ Single(<<x, y>>)
           /\ \A stage, s : Books(<<x, y>>, stage, s) <=>
                 (x.stage = stage /\ x.outcome = s) \/ (y.stage = stage /\ y.outcome = s)
<1>1. Len(<<x, y>>) = 2 /\ <<x, y>>[1] = x /\ <<x, y>>[2] = y
  OBVIOUS
<1>2. 1 .. 2 = {1, 2}
  OBVIOUS
<1> QED BY <1>1, <1>2 DEF Single, Books

\* The first record is made: the others remain.
LEMMA RestOfRecords ==
    ASSUME NEW records \in Seq(Row), records # <<>>, Single(records)
    PROVE  /\ Single(Tail(records))
           /\ \A stage \in StatusStages : \A s :
                 /\ Books(records, stage, s) <=>
                       \/ Head(records).stage = stage /\ Head(records).outcome = s
                       \/ Books(Tail(records), stage, s)
                 /\ Books(Tail(records), stage, s) => Head(records).stage = "result"
<1>1. /\ Len(records) \in Nat /\ Len(records) > 0
      /\ Head(records) = records[1]
      /\ Len(Tail(records)) = Len(records) - 1
      /\ \A i \in 1 .. Len(records) - 1 : Tail(records)[i] = records[i + 1]
  BY HeadTailProperties, EmptySeq, LenProperties
<1>2. Single(Tail(records))
  BY <1>1 DEF Single
<1>3. ASSUME NEW stage \in StatusStages, NEW s, Books(records, stage, s)
      PROVE  \/ Head(records).stage = stage /\ Head(records).outcome = s
             \/ Books(Tail(records), stage, s)
  <2>1. PICK i \in 1 .. Len(records) : records[i].stage = stage /\ records[i].outcome = s
    BY <1>3 DEF Books
  <2>2. CASE i = 1
    BY <1>1, <2>1, <2>2
  <2>3. CASE i # 1
    <3>1. i - 1 \in 1 .. Len(records) - 1 /\ Tail(records)[i - 1] = records[i]
      BY <1>1, <2>3
    <3> QED BY <1>1, <2>1, <3>1 DEF Books
  <2> QED BY <2>2, <2>3
<1>4. ASSUME NEW stage \in StatusStages, NEW s, Books(Tail(records), stage, s)
      PROVE  Books(records, stage, s) /\ Head(records).stage = "result"
  <2>1. PICK i \in 1 .. Len(records) - 1 :
              Tail(records)[i].stage = stage /\ Tail(records)[i].outcome = s
    BY <1>1, <1>4 DEF Books
  <2>2. i + 1 \in 1 .. Len(records) /\ records[i + 1].stage = stage /\ records[i + 1].outcome = s
    BY <1>1, <2>1
  <2>3. stage # "result"
    BY DEF StatusStages
  <2>4. 1 \in 1 .. Len(records) /\ i + 1 # 1
    BY <1>1
  <2> QED BY <1>1, <2>2, <2>3, <2>4 DEF Books, Single
<1>5. ASSUME NEW stage \in StatusStages, NEW s,
             Head(records).stage = stage, Head(records).outcome = s
      PROVE  Books(records, stage, s)
  BY <1>1, <1>5 DEF Books
<1> QED BY <1>2, <1>3, <1>4, <1>5

LEMMA StatusesAreOutcomes ==
    \A stage \in StatusStages : Statuses(stage) \subseteq Outcomes
BY DEF StatusStages, Statuses, Outcomes

\* A step of a handler leaves the summary true, if it records just the statuses
\* that become expected by it.
LEMMA GoesSumInv ==
    ASSUME SumInv, Inv', NEW r \in Requests, NEW from, NEW to \in Places,
           NEW records \in Seq(Row),
           Goes(r, from, to, records), Single(records),
           \A q \in Requests \ {r} :
              /\ status'[q] = status[q] /\ inner'[q] = inner[q]
              /\ origin'[q] = origin[q] /\ target'[q] = target[q],
           \A stage \in StatusStages, s \in Outcomes :
              /\ Books(records, stage, s) => ~Expected(r, stage, s)
              /\ Expected(r, stage, s)' <=> Expected(r, stage, s) \/ Books(records, stage, s)
    PROVE  SumInv'
<1>1. /\ todo[r] = <<>> /\ todo'[r] = records
      /\ \A q \in Requests \ {r} : todo'[q] = todo[q] /\ at'[q] = at[q]
      /\ UNCHANGED <<method, rows, logged>>
  BY DEF Goes, SumInv, Inv, TypeOK, input, summary
<1>2. \A stage, s : ~Owes(r, stage, s) /\ (Owes(r, stage, s)' <=> Books(records, stage, s))
  BY <1>1, NoRecords DEF Owes
<1>3. ASSUME NEW q \in Requests \ {r}, NEW stage, NEW s
      PROVE  /\ Owes(q, stage, s)' <=> Owes(q, stage, s)
             /\ Expected(q, stage, s)' <=> Expected(q, stage, s)
  BY <1>1 DEF Owes, Expected, Final, Translated
<1>4. RecordsInv'
  <2>1. ASSUME NEW q \in Requests PROVE Single(todo'[q])
    BY <1>1 DEF SumInv, RecordsInv
  <2>2. ASSUME NEW q \in Requests, NEW stage \in StatusStages, NEW s \in Outcomes
        PROVE  Owes(q, stage, s)' => Expected(q, stage, s)'
    BY <1>2, <1>3 DEF SumInv, RecordsInv
  <2> QED BY <2>1, <2>2 DEF RecordsInv
<1>5. ASSUME NEW stage \in StatusStages, NEW s \in Statuses(stage)
      PROVE  (Counted(stage, s) = Cardinality(Booked(stage, s)))'
  <2>1. s \in Outcomes
    BY StatusesAreOutcomes
  <2>2. Booked(stage, s)' = Booked(stage, s)
    <3>1. ASSUME NEW q \in Requests
          PROVE  (Expected(q, stage, s) /\ ~Owes(q, stage, s))'
                 <=> Expected(q, stage, s) /\ ~Owes(q, stage, s)
      BY <1>2, <1>3, <2>1
    <3> QED BY <3>1 DEF Booked
  <2>3. Counted(stage, s)' = Counted(stage, s)
    BY <1>1 DEF Counted
  <2> QED BY <2>2, <2>3 DEF SumInv, CountInv
<1>6. CountInv'
  BY <1>5 DEF CountInv, Statuses
<1> QED BY <1>4, <1>6 DEF SumInv

\* A record counts what it takes off the records to come.
LEMMA RecordSumInv ==
    ASSUME SumInv, Inv', NEW r \in Requests, Record(r)
    PROVE  SumInv'
<1>1. /\ todo[r] \in Seq(Row) /\ todo[r] # <<>> /\ todo'[r] = Tail(todo[r])
      /\ \A q \in Requests \ {r} : todo'[q] = todo[q]
      /\ UNCHANGED <<method, at, status, inner, origin, target>>
  BY DEF Record, SumInv, Inv, TypeOK, Row, input, response
<1>2. PICK records \in Seq(Row), h \in Row : records = todo[r] /\ h = Head(records)
  BY <1>1, HeadTailProperties
<1>3. /\ Single(Tail(records))
      /\ \A stage \in StatusStages : \A s :
            /\ Books(records, stage, s) <=>
                  (h.stage = stage /\ h.outcome = s) \/ Books(Tail(records), stage, s)
            /\ Books(Tail(records), stage, s) => h.stage = "result"
  BY <1>1, <1>2, RestOfRecords DEF SumInv, RecordsInv
<1>4. \A q \in Requests : \A stage, s : Expected(q, stage, s)' <=> Expected(q, stage, s)
  BY <1>1 DEF Expected, Final, Translated
<1>5. \A q \in Requests \ {r} : \A stage, s : Owes(q, stage, s)' <=> Owes(q, stage, s)
  BY <1>1 DEF Owes
<1>6. \A stage \in StatusStages : \A s :
        /\ Owes(r, stage, s) <=> (h.stage = stage /\ h.outcome = s) \/ Owes(r, stage, s)'
        /\ Owes(r, stage, s)' => h.stage = "result"
  BY <1>1, <1>2, <1>3 DEF Owes
<1>7. RecordsInv'
  <2>1. ASSUME NEW q \in Requests PROVE Single(todo'[q])
    BY <1>1, <1>2, <1>3 DEF SumInv, RecordsInv
  <2>2. ASSUME NEW q \in Requests, NEW stage \in StatusStages, NEW s \in Outcomes
        PROVE  Owes(q, stage, s)' => Expected(q, stage, s)'
    BY <1>4, <1>5, <1>6 DEF SumInv, RecordsInv
  <2> QED BY <2>1, <2>2 DEF RecordsInv
<1>8. ASSUME NEW stage \in StatusStages, NEW s \in Statuses(stage)
      PROVE  (Counted(stage, s) = Cardinality(Booked(stage, s)))'
  <2>1. s \in Outcomes /\ stage # "result"
    BY StatusesAreOutcomes DEF StatusStages
  <2>2. IsFiniteSet(Booked(stage, s)) /\ Cardinality(Booked(stage, s)) \in Nat
    <3>1. Booked(stage, s) \subseteq Requests
      BY DEF Booked
    <3> QED BY <3>1, RequestsFinite, FS_Subset, FS_CardinalityType
  <2>3. Counted(stage, s) = Cardinality(Booked(stage, s))
    BY DEF SumInv, CountInv
  <2>4. CASE h.stage = stage /\ h.outcome = s
    <3>1. Owes(r, stage, s) /\ ~Owes(r, stage, s)' /\ Expected(r, stage, s)
      BY <1>6, <2>1, <2>4 DEF SumInv, RecordsInv
    <3>2. Booked(stage, s)' = Booked(stage, s) \cup {r} /\ r \notin Booked(stage, s)
      BY <1>4, <1>5, <3>1 DEF Booked
    <3>3. Cardinality(Booked(stage, s))' = Cardinality(Booked(stage, s)) + 1
      BY <2>2, <3>2, FS_AddElement
    <3>4. Counted(stage, s)' = Counted(stage, s) + 1
      BY <1>2, <2>4, RecordCounts DEF SumInv
    <3> QED BY <2>3, <3>3, <3>4
  <2>5. CASE ~(h.stage = stage /\ h.outcome = s)
    <3>1. Booked(stage, s)' = Booked(stage, s)
      BY <1>4, <1>5, <1>6, <2>5 DEF Booked
    <3>2. Counted(stage, s)' = Counted(stage, s) + 0
      BY <1>2, <2>5, RecordCounts DEF SumInv
    <3> QED BY <2>2, <2>3, <3>1, <3>2
  <2> QED BY <2>4, <2>5
<1>9. CountInv'
  BY <1>8 DEF CountInv, Statuses
<1> QED BY <1>7, <1>9 DEF SumInv

\* The end of a minute changes where the counts are, and no sum.
LEMMA DrainSumInv ==
    ASSUME SumInv, Inv', DrainWindow
    PROVE  SumInv'
<1>1. UNCHANGED <<method, at, todo, status, inner, origin, target>>
  BY DEF DrainWindow, input, response
<1>2. RecordsInv' /\ \A stage, s : Booked(stage, s)' = Booked(stage, s)
  BY <1>1 DEF SumInv, RecordsInv, Booked, Owes, Expected, Final, Translated
<1>3. \A stage, s : Counted(stage, s)' = Counted(stage, s)
  <2> SUFFICES ASSUME NEW stage, NEW s PROVE Counted(stage, s)' = Counted(stage, s)
    OBVIOUS
  <2>1. \A row : Copies(row)' = Copies(row)
    BY DrainKeepsCopies DEF SumInv
  <2>2. Counted(stage, s) = Copies(Key("gateway_request", stage, s))
                             + Copies(Key("configs_request", stage, s))
    BY CountedIsCopies DEF SumInv, Inv, TypeOK
  <2> QED BY <2>1, <2>2, CountedNext
<1> QED BY <1>2, <1>3 DEF SumInv, CountInv, Statuses

-----------------------------------------------------------------------------
(* The steps of the handlers.                                              *)

\* What an answer records: at most a result, and then its status.
LEMMA AnswerRecords ==
    ASSUME NEW f \in Row, NEW x \in Row, f.stage = "result",
           NEW results \in {<<>>, <<f>>}
    PROVE  /\ results \o <<x>> \in Seq(Row) /\ Single(results \o <<x>>)
           /\ \A stage \in StatusStages : \A s :
                 Books(results \o <<x>>, stage, s) <=> x.stage = stage /\ x.outcome = s
<1>1. <<>> \o <<x>> = <<x>> /\ <<f>> \o <<x>> = <<f, x>>
  <2>1. <<f>> \in Seq(Row) /\ <<x>> \in Seq(Row)
    OBVIOUS
  <2>2. <<>> \o <<x>> = <<x>>
    BY <2>1, ConcatEmptySeq
  <2>3. <<f>> \o <<x>> = Append(<<f>>, x)
    BY <2>1, AppendIsConcat
  <2>4. Append(<<f>>, x) = <<f, x>>
    <3>1. Append(<<f>>, x) \in Seq(Row) /\ <<f, x>> \in Seq(Row)
      OBVIOUS
    <3>2. /\ Len(Append(<<f>>, x)) = 2 /\ Len(<<f, x>>) = 2
          /\ Append(<<f>>, x)[1] = f /\ Append(<<f>>, x)[2] = x
      OBVIOUS
    <3>3. PICK a \in Seq(Row), b \in Seq(Row) : a = Append(<<f>>, x) /\ b = <<f, x>>
      BY <3>1
    <3>4. Len(a) = Len(b) /\ \A i \in 1 .. Len(a) : a[i] = b[i]
      BY <3>2, <3>3
    <3> QED BY <3>3, <3>4, SeqEqual
  <2> QED BY <2>2, <2>3, <2>4
<1>2. "result" \notin StatusStages
  BY DEF StatusStages
<1>3. CASE results = <<>>
  BY <1>1, <1>3, OneRecord
<1>4. CASE results = <<f>>
  <2>1. /\ Single(<<f, x>>)
        /\ \A stage, s : Books(<<f, x>>, stage, s) <=>
              (f.stage = stage /\ f.outcome = s) \/ (x.stage = stage /\ x.outcome = s)
    BY TwoRecords
  <2>2. <<f, x>> \in Seq(Row) /\ results \o <<x>> = <<f, x>>
    BY <1>1, <1>4
  <2> QED BY <1>2, <2>1, <2>2
<1> QED BY <1>3, <1>4

\* The HTTP response of a handler is counted in the stage its method spells.
LEMMA AnswerSumInv ==
    ASSUME SumInv, Inv', NEW r \in Requests,
           NEW from \in {"new", "encapsulate"}, NEW x \in Results,
           NEW results \in {<<>>, <<Fire(r, x)>>},
           NEW s \in {"200", "400", "401"}, Answer(r, from, results, s)
    PROVE  SumInv'
<1>1. PICK f \in Row, y \in Row : f = Fire(r, x) /\ y = ResponseStatus(r, method[r], s)
  BY RowsAreRows DEF Outcomes
<1>2. f.stage = "result" /\ y.stage = StageOf(method[r]) /\ y.outcome = s
  BY <1>1 DEF Fire, ResponseStatus
<1>3. PICK records \in Seq(Row) :
        /\ Goes(r, from, "done", records) /\ Single(records)
        /\ \A stage \in StatusStages : \A t : Books(records, stage, t) <=> stage = StageOf(method[r]) /\ t = s
  <2>1. results \in {<<>>, <<f>>}
    BY <1>1
  <2>2. /\ results \o <<y>> \in Seq(Row) /\ Single(results \o <<y>>)
        /\ \A stage \in StatusStages : \A t :
              Books(results \o <<y>>, stage, t) <=> y.stage = stage /\ y.outcome = t
    BY <1>2, <2>1, AnswerRecords
  <2>3. Goes(r, from, "done", results \o <<y>>)
    BY <1>1 DEF Answer
  <2> QED BY <1>2, <2>2, <2>3
<1>4. /\ at[r] = from /\ at'[r] = "done" /\ status'[r] = s
      /\ UNCHANGED <<method, inner, origin, target>>
      /\ \A q \in Requests \ {r} : status'[q] = status[q]
  BY DEF Answer, Goes, input, SumInv, Inv, TypeOK
<1>5. /\ from = "new" => origin[r] = None
      /\ StageOf(method[r]) # "outer" => target[r] = None /\ origin[r] = None
  BY <1>4 DEF SumInv, Inv, OriginHistory, StageOf
<1>6. ASSUME NEW stage \in StatusStages, NEW t \in Outcomes
      PROVE  /\ Books(records, stage, t) => ~Expected(r, stage, t)
             /\ Expected(r, stage, t)' <=> Expected(r, stage, t) \/ Books(records, stage, t)
  <2>1. Final(r, stage, t)' <=> stage = StageOf(method[r]) /\ t = s
    BY <1>4 DEF Final
  <2>2. ~Final(r, stage, t) /\ (Translated(r, t)' <=> Translated(r, t))
    BY <1>4, <1>5 DEF Final, Translated, None
  <2>3. StageOf(method[r]) # "outer" => target[r] # s /\ ~Translated(r, t)
    BY <1>5 DEF Translated, None
  <2> QED BY <1>3, <1>4, <2>1, <2>2, <2>3 DEF StatusStages, Expected
<1> QED BY <1>3, <1>4, <1>6, GoesSumInv DEF Places

\* The gateway's own response is counted in stage `payload`.
LEMMA WrappedErrorSumInv ==
    ASSUME SumInv, Inv', NEW r \in Requests, NEW from \in {"app", "sent", "encode"},
           NEW x \in Results, NEW s \in {"400", "403", "500"},
           WrappedError(r, from, x, s),
           \A q \in Requests \ {r} : target'[q] = target[q],
           target'[r] = target[r] \/ {target[r], target'[r]} \subseteq {"asked", "failed"}
    PROVE  SumInv'
<1>1. PICK f \in Row, y \in Row :
        f = Fire(r, x) /\ y = ResponseStatus(r, "gateway_payload", s)
  BY RowsAreRows DEF Outcomes
<1>2. f.stage = "result" /\ y.stage = "payload" /\ y.outcome = s
  BY <1>1 DEF Fire, ResponseStatus, StageOf
<1>3. PICK records \in Seq(Row) :
        /\ Goes(r, from, "encapsulate", records) /\ Single(records)
        /\ \A stage \in StatusStages : \A t : Books(records, stage, t) <=> stage = "payload" /\ t = s
  <2>1. <<f, y>> \in Seq(Row) /\ Goes(r, from, "encapsulate", <<f, y>>)
    BY <1>1 DEF WrappedError
  <2>2. "result" \notin StatusStages
    BY DEF StatusStages
  <2>3. /\ Single(<<f, y>>)
        /\ \A stage, t : Books(<<f, y>>, stage, t) <=>
              (f.stage = stage /\ f.outcome = t) \/ (y.stage = stage /\ y.outcome = t)
    BY <1>2, TwoRecords
  <2> QED BY <1>2, <2>1, <2>2, <2>3
<1>4. /\ at[r] = from /\ at'[r] = "encapsulate" /\ inner'[r] = s /\ origin'[r] = "gateway"
      /\ UNCHANGED status
      /\ \A q \in Requests \ {r} : inner'[q] = inner[q] /\ origin'[q] = origin[q]
  BY DEF WrappedError, Goes, SumInv, Inv, TypeOK
<1>6. ASSUME NEW stage \in StatusStages, NEW t \in Outcomes
      PROVE  /\ Books(records, stage, t) => ~Expected(r, stage, t)
             /\ Expected(r, stage, t)' <=> Expected(r, stage, t) \/ Books(records, stage, t)
  <2>1. t \notin {"asked", "failed"}
    BY StatusesAssumption DEF Outcomes, Results
  <2>2. from \in {"app", "sent", "encode"}
    OBVIOUS
  <2>3. /\ ~Final(r, stage, t) /\ ~Final(r, stage, t)' /\ ~Translated(r, t)
        /\ Translated(r, t)' <=> t = s
    BY <1>4, <2>2 DEF Final, Translated
  <2> QED BY <1>3, <1>4, <2>1, <2>3 DEF StatusStages, Expected
<1> QED BY <1>3, <1>4, <1>6, GoesSumInv DEF Places

\* A step that leaves the response alone and neither answers nor encodes.
LEMMA MoveSumInv ==
    ASSUME SumInv, Inv', NEW r \in Requests, NEW from, NEW to \in Places,
           NEW records \in Seq(Row), Goes(r, from, to, records), Single(records),
           \A stage \in StatusStages : \A s : ~Books(records, stage, s),
           UNCHANGED <<status, inner, origin>>,
           \A q \in Requests \ {r} : target'[q] = target[q],
           \A s \in Outcomes : target[r] = s <=> target'[r] = s,
           from # "done", to # "done",
           origin[r] = None \/ to \notin {"encapsulate", "done"}, from # "encapsulate"
    PROVE  SumInv'
<1>1. at[r] = from /\ at'[r] = to
  BY DEF Goes, SumInv, Inv, TypeOK
<1>2. ASSUME NEW stage \in StatusStages, NEW s \in Outcomes
      PROVE  Expected(r, stage, s)' <=> Expected(r, stage, s)
  BY <1>1 DEF Expected, Final, Translated, StatusStages, None
<1> QED BY <1>2, GoesSumInv

LEMMA InitSumInv == Init => SumInv
<1> SUFFICES ASSUME Init PROVE SumInv
  OBVIOUS
<1>1. Inv
  BY InitInv
<1>2. \A r \in Requests : todo[r] = <<>>
  BY DEF Init
<1>3. RecordsInv
  BY <1>2, NoRecords DEF RecordsInv, Owes
<1>4. ASSUME NEW stage \in StatusStages, NEW s \in Statuses(stage)
      PROVE  Counted(stage, s) = Cardinality(Booked(stage, s))
  <2>1. Booked(stage, s) = {}
    BY StatusesAssumption DEF Init, Booked, Expected, Final, Translated, StatusStages, Statuses, None
  <2>2. \A row : Copies(row) = 0
    <3>1. \A row : CopiesOf(row, EmptyBag) = 0
      BY OneCopy
    <3> QED BY <3>1 DEF Init, Copies
  <2>3. Counted(stage, s) = 0
    <3>1. IsABag(rows) /\ IsABag(logged)
      BY <1>1 DEF Inv, TypeOK
    <3>2. Counted(stage, s) = Copies(Key("gateway_request", stage, s))
                               + Copies(Key("configs_request", stage, s))
      BY <3>1, CountedIsCopies
    <3> QED BY <2>2, <3>2
  <2> QED BY <2>1, <2>3, FS_EmptySet
<1> QED BY <1>1, <1>3, <1>4 DEF SumInv, CountInv

LEMMA NextSumInv == SumInv /\ [Next]_vars => SumInv'
<1> SUFFICES ASSUME SumInv, [Next]_vars PROVE SumInv'
  OBVIOUS
<1>a. Inv'
  BY NextInv DEF SumInv
<1>b. /\ <<>> \in Seq(Row) /\ Single(<<>>)
      /\ \A stage \in StatusStages : \A s : ~Books(<<>>, stage, s)
  BY NoRecords
<1>c. \A r \in Requests, x \in Results :
        /\ <<Fire(r, x)>> \in Seq(Row) /\ Single(<<Fire(r, x)>>)
        /\ \A stage \in StatusStages : \A s : ~Books(<<Fire(r, x)>>, stage, s)
  <2> SUFFICES ASSUME NEW r \in Requests, NEW x \in Results
               PROVE  /\ <<Fire(r, x)>> \in Seq(Row) /\ Single(<<Fire(r, x)>>)
                      /\ \A stage \in StatusStages : \A s : ~Books(<<Fire(r, x)>>, stage, s)
    OBVIOUS
  <2>1. PICK f \in Row : f = Fire(r, x) /\ f.stage = "result"
    <3>1. Fire(r, x) \in Row
      BY RowsAreRows DEF Outcomes
    <3> QED BY <3>1 DEF Fire
  <2>2. Single(<<f>>) /\ \A stage, s : Books(<<f>>, stage, s) <=> f.stage = stage /\ f.outcome = s
    BY OneRecord
  <2> QED BY <2>1, <2>2 DEF StatusStages
<1>1. ASSUME NEW r \in Requests, Accept(r) PROVE SumInv'
  <2>1. CASE TurnAway(r)
    <3>1. /\ Goes(r, "new", "turned away", <<>>) /\ UNCHANGED <<inner, origin, target>>
          /\ \A q \in Requests \ {r} : status'[q] = status[q]
          /\ at[r] = "new" /\ at'[r] = "turned away"
      BY <2>1 DEF TurnAway, Goes, SumInv, Inv, TypeOK
    <3>2. ASSUME NEW stage \in StatusStages, NEW s \in Outcomes
          PROVE  Expected(r, stage, s)' <=> Expected(r, stage, s)
      BY <3>1 DEF Expected, Final, Translated, StatusStages
    <3> QED BY <1>a, <1>b, <3>1, <3>2, GoesSumInv DEF Places
  <2>2. CASE ServeConfig(r) \/ InvalidMethod(r)
    BY <1>a, <2>2, AnswerSumInv DEF ServeConfig, InvalidMethod, Results
  <2>3. CASE InvalidRequest(r)
    BY <1>a, <2>3, AnswerSumInv DEF InvalidRequest, Results
  <2>4. CASE DecapsulationFails(r)
    BY <1>a, <2>4, AnswerSumInv DEF DecapsulationFails, Results
  <2>5. CASE Decapsulate(r)
    BY <1>a, <1>b, <2>5, MoveSumInv DEF Decapsulate, response, Places
  <2> QED BY <1>1, <2>1, <2>2, <2>3, <2>4, <2>5 DEF Accept
<1>2. ASSUME NEW r \in Requests, Proceed(r) PROVE SumInv'
  <2>1. CASE Reflect(r)
    <3>1. PICK records \in {<<>>, <<Fire(r, "success")>>} : Goes(r, "app", "encapsulate", records)
      BY <2>1 DEF Reflect
    <3>2. /\ records \in Seq(Row) /\ Single(records)
          /\ \A stage \in StatusStages : \A s : ~Books(records, stage, s)
      BY <1>b, <1>c, <3>1 DEF Results
    <3>3. origin[r] = None /\ UNCHANGED <<status, inner, origin, target>>
      BY <2>1 DEF Reflect, Goes, SumInv, Inv, OriginHistory, response
    <3> QED BY <1>a, <3>1, <3>2, <3>3, MoveSumInv DEF Places
  <2>2. CASE DecodeFails(r) \/ Forbidden(r)
    <3>1. PICK x \in Results, s \in {"400", "403"} : WrappedError(r, "app", x, s)
      BY <2>2 DEF DecodeFails, Forbidden, Results
    <3>2. UNCHANGED target
      BY <2>2 DEF DecodeFails, Forbidden
    <3> QED BY <1>a, <3>1, <3>2, WrappedErrorSumInv
  <2>3. CASE RateLimited(r)
    <3>1. PICK records \in Seq(Row) :
            /\ Goes(r, "app", "encode", records) /\ Single(records)
            /\ \A stage \in StatusStages : \A s : ~Books(records, stage, s)
      BY <1>c, <2>3 DEF RateLimited, Results
    <3>2. /\ at[r] = "app" /\ at'[r] = "encode" /\ UNCHANGED <<status, target>>
          /\ \A q \in Requests \ {r} : inner'[q] = inner[q] /\ origin'[q] = origin[q]
      BY <2>3 DEF RateLimited, Goes, SumInv, Inv, TypeOK
    <3>3. ASSUME NEW stage \in StatusStages, NEW s \in Outcomes
          PROVE  Expected(r, stage, s)' <=> Expected(r, stage, s)
      BY <3>2 DEF Expected, Final, Translated, StatusStages
    <3> QED BY <1>a, <3>1, <3>2, <3>3, GoesSumInv DEF Places
  <2>4. CASE Send(r)
    <3>1. /\ Goes(r, "app", "sent", <<>>) /\ UNCHANGED <<status, inner, origin>>
          /\ target[r] = None /\ target'[r] = "asked"
          /\ \A q \in Requests \ {r} : target'[q] = target[q]
      BY <2>4 DEF Send, Goes, SumInv, Inv, TypeOK, OriginHistory
    <3>2. \A s \in Outcomes : s \notin {"asked", None}
      BY StatusesAssumption DEF Outcomes, Results, None
    <3> QED BY <1>a, <1>b, <3>1, <3>2, MoveSumInv DEF Places
  <2>5. CASE TargetFails(r)
    <3>1. /\ target[r] = "asked" /\ target'[r] = "failed"
          /\ \A q \in Requests \ {r} : target'[q] = target[q]
          /\ WrappedError(r, "sent", "request_failed", "500")
      BY <2>5 DEF TargetFails, WrappedError, Goes, SumInv, Inv, TypeOK, OriginHistory
    <3> QED BY <1>a, <3>1, WrappedErrorSumInv DEF Results
  <2>6. CASE EncodeFails(r)
    <3>1. PICK x \in Results : WrappedError(r, "encode", x, "500")
      BY <2>6 DEF EncodeFails, EncodeFailure, Results
    <3>2. UNCHANGED target
      BY <2>6 DEF EncodeFails
    <3> QED BY <1>a, <3>1, <3>2, WrappedErrorSumInv
  <2>7. CASE Encode(r)
    <3>1. PICK y \in Row : y = ResponseStatus(r, "gateway_payload", "200")
      BY RowsAreRows DEF Outcomes
    <3>2. y.stage = "payload" /\ y.outcome = "200"
      BY <3>1 DEF ResponseStatus, StageOf
    <3>3. PICK records \in Seq(Row) :
            /\ Goes(r, "encode", "encapsulate", records) /\ Single(records)
            /\ \A stage, s : Books(records, stage, s) <=> stage = "payload" /\ s = "200"
      <4>1. <<y>> \in Seq(Row) /\ Goes(r, "encode", "encapsulate", <<y>>)
        BY <2>7, <3>1 DEF Encode
      <4>2. Single(<<y>>) /\ \A stage, s : Books(<<y>>, stage, s) <=> y.stage = stage /\ y.outcome = s
        BY OneRecord
      <4> QED BY <3>2, <4>1, <4>2
    <3>4. /\ at[r] = "encode" /\ at'[r] = "encapsulate"
          /\ UNCHANGED <<status, inner, origin, target>> /\ origin[r] \in {"target", "limiter"}
      BY <2>7 DEF Encode, Goes, SumInv, Inv, TypeOK, OriginHistory, response
    <3>5. ASSUME NEW stage \in StatusStages, NEW s \in Outcomes
          PROVE  /\ Books(records, stage, s) => ~Expected(r, stage, s)
                 /\ Expected(r, stage, s)' <=> Expected(r, stage, s) \/ Books(records, stage, s)
      BY <3>3, <3>4 DEF Expected, Final, Translated, StatusStages
    <3> QED BY <1>a, <3>3, <3>4, <3>5, GoesSumInv DEF Places
  <2>8. CASE EncapsulationFails(r)
    BY <1>a, <2>8, AnswerSumInv DEF EncapsulationFails, Results
  <2>9. CASE Encapsulate(r)
    <3>1. PICK results \in {<<>>, <<Fire(r, "success")>>} : Answer(r, "encapsulate", results, "200")
      BY <2>9 DEF Encapsulate
    <3> QED BY <1>a, <3>1, AnswerSumInv DEF Results
  <2> QED BY <1>2, <2>1, <2>2, <2>3, <2>4, <2>5, <2>6, <2>7, <2>8, <2>9 DEF Proceed
<1>3. ASSUME NEW r \in Requests, NEW s \in TargetStatuses, TargetAnswers(r, s) PROVE SumInv'
  <2>1. PICK y \in Row, f \in Row :
          y = ResponseStatus(r, "upstream", s) /\ f = Fire(r, "success")
    BY RowsAreRows DEF Outcomes, Results
  <2>2. y.stage = "upstream" /\ y.outcome = s /\ f.stage = "result"
    BY <2>1 DEF ResponseStatus, StageOf, Fire
  <2>3. PICK records \in Seq(Row) :
          /\ Goes(r, "sent", "encode", records) /\ Single(records)
          /\ \A stage \in StatusStages : \A t : Books(records, stage, t) <=> stage = "upstream" /\ t = s
    <3>1. <<y, f>> \in Seq(Row) /\ Goes(r, "sent", "encode", <<y, f>>)
      BY <1>3, <2>1 DEF TargetAnswers
    <3>2. /\ Single(<<y, f>>)
          /\ \A stage, t : Books(<<y, f>>, stage, t) <=>
                (y.stage = stage /\ y.outcome = t) \/ (f.stage = stage /\ f.outcome = t)
      BY <2>2, TwoRecords
    <3>3. "result" \notin StatusStages
      BY DEF StatusStages
    <3> QED BY <2>2, <3>1, <3>2, <3>3
  <2>4. /\ at[r] = "sent" /\ at'[r] = "encode" /\ UNCHANGED status
        /\ target[r] = "asked" /\ target'[r] = s
        /\ \A q \in Requests \ {r} :
              inner'[q] = inner[q] /\ origin'[q] = origin[q] /\ target'[q] = target[q]
    BY <1>3 DEF TargetAnswers, Goes, SumInv, Inv, TypeOK, OriginHistory
  <2>5. ASSUME NEW stage \in StatusStages, NEW t \in Outcomes
        PROVE  /\ Books(records, stage, t) => ~Expected(r, stage, t)
               /\ Expected(r, stage, t)' <=> Expected(r, stage, t) \/ Books(records, stage, t)
    <3>1. t # "asked"
      BY StatusesAssumption DEF Outcomes, Results
    <3>2. /\ ~Final(r, stage, t) /\ ~Final(r, stage, t)'
          /\ ~Translated(r, t) /\ ~Translated(r, t)'
      BY <2>4 DEF Final, Translated
    <3> QED BY <2>3, <2>4, <3>1, <3>2 DEF Expected, StatusStages
  <2> QED BY <1>a, <2>3, <2>4, <2>5, GoesSumInv DEF Places
<1>4. ASSUME NEW r \in Requests, Record(r) PROVE SumInv'
  BY <1>a, <1>4, RecordSumInv
<1>5. CASE DrainWindow
  BY <1>a, <1>5, DrainSumInv
<1>6. CASE UNCHANGED vars
  <2>1. UNCHANGED <<method, at, todo, status, inner, origin, target, rows, logged>>
    BY <1>6 DEF vars, input, response, summary
  <2> QED BY <1>a, <2>1 DEF SumInv, RecordsInv, CountInv, Booked, Owes, Expected, Final,
                            Translated, Counted, Statuses
<1> QED BY <1>1, <1>2, <1>3, <1>4, <1>5, <1>6 DEF Next

\* For any number of requests and of minutes, and any methods: when no record is
\* pending, the rows of all minutes together count every final response of a
\* handler, every status of a target and every encapsulated response exactly
\* once, a final response in the stage its method spells (summary_metrics.go
\* 43-81, 132-158).
THEOREM SummaryTheorem == Spec => []SummaryIsTrue
<1>1. SumInv => SummaryIsTrue
  <2> SUFFICES ASSUME SumInv, Quiet
               PROVE  /\ \A s \in {"200", "400", "401"} :
                           Counted("outer", s) = Number(LAMBDA r : Final(r, "outer", s))
                      /\ \A s \in TargetStatuses \cup {"200", "400"} :
                           Counted("upstream", s) =
                             Number(LAMBDA r : target[r] = s \/ Final(r, "upstream", s))
                      /\ \A s \in {"200", "400", "403", "500"} :
                           Counted("payload", s) =
                             Number(LAMBDA r : Translated(r, s) \/ Final(r, "payload", s))
    BY DEF SummaryIsTrue, OuterCountsResponses, UpstreamCountsTargetsAndNamesakes,
           PayloadCountsTranslations
  <2>1. \A stage \in StatusStages : \A s : Booked(stage, s) = {r \in Requests : Expected(r, stage, s)}
    BY NoRecords DEF Quiet, Booked, Owes
  <2>2. ASSUME NEW s \in {"200", "400", "401"}
        PROVE  Counted("outer", s) = Cardinality({r \in Requests : Final(r, "outer", s)})
    <3>1. Booked("outer", s) = {r \in Requests : Final(r, "outer", s)}
      BY <2>1 DEF Expected, StatusStages
    <3> QED BY <3>1 DEF SumInv, CountInv, StatusStages, Statuses
  <2>3. ASSUME NEW s \in TargetStatuses \cup {"200", "400"}
        PROVE  Counted("upstream", s) =
                 Cardinality({r \in Requests : target[r] = s \/ Final(r, "upstream", s)})
    <3>1. Booked("upstream", s) = {r \in Requests : target[r] = s \/ Final(r, "upstream", s)}
      BY <2>1 DEF Expected, StatusStages
    <3> QED BY <3>1 DEF SumInv, CountInv, StatusStages, Statuses
  <2>4. ASSUME NEW s \in {"200", "400", "403", "500"}
        PROVE  Counted("payload", s) =
                 Cardinality({r \in Requests : Translated(r, s) \/ Final(r, "payload", s)})
    <3>1. Booked("payload", s) = {r \in Requests : Translated(r, s) \/ Final(r, "payload", s)}
      BY <2>1 DEF Expected, StatusStages
    <3> QED BY <3>1 DEF SumInv, CountInv, StatusStages, Statuses
  <2> QED BY <2>2, <2>3, <2>4 DEF Number
<1> QED BY <1>1, NextSumInv, InitSumInv, PTL DEF Spec

-----------------------------------------------------------------------------
(* The outbound limiter.                                                  *)

\* What the requests let through have cost, with what the bucket could give
\* now, is covered by one full bucket and the refill since the mark.
Accounting ==
    IF clock >= mark
    THEN Cardinality(granted) * Minute + Refilled <= Worth(clock - mark)
    ELSE granted = {}

\* A request is let through once, and what is asked later than Timeout after
\* the mark is asked for a request that was let through after it.
AskedWasGranted ==
    /\ IsFiniteSet(granted)
    /\ \A r \in Forwards : sending[r] = "new" => r \notin granted
    /\ \A r \in Forwards : sending[r] = "sent" /\ sentAt[r] >= mark => r \in granted
    /\ asked \subseteq granted \X (1 .. MaxHops)

\* Since the first refusal no part of a token was lost.
RefusalsLoseNothing ==
    refusedAt >= 0 => Qpm > 0 /\ refusedAt <= last /\ (last - refusedAt) * Qpm <= tokens

BucketInv ==
    /\ OutboundTypeOK
    /\ Qpm > 0 => Accounting
    /\ AskedWasGranted
    /\ RefusalsLoseNothing

USE QpmAssumption, MinuteAssumption, MaxClockAssumption, TargetsAssumption, ClientAssumption

\* The bucket holds whole units, between none and its cap.
LEMMA CapNat == Cap \in Nat /\ (Qpm > 0 => Cap >= Minute)
  BY DEF Cap

\* What allow() finds in the bucket is within its bounds (ratelimit.go 57-62).
LEMMA RefilledBounds ==
    ASSUME OutboundTypeOK
    PROVE  Refilled \in 0 .. Cap
<1> DEFINE E == (clock - last) * Qpm
<1>1. E \in Nat
  BY DEF OutboundTypeOK
<1>2. Cap \in Nat /\ tokens \in 0 .. Cap
  BY CapNat DEF OutboundTypeOK
<1> QED
  BY <1>1, <1>2 DEF Refilled

\* A tick adds at most Qpm units to what allow() would find.
LEMMA RefillOfATick ==
    ASSUME OutboundTypeOK, NEW t \in Nat, t = clock + 1
    PROVE  (LET u == tokens + (t - last) * Qpm IN IF u > Cap THEN Cap ELSE u)
               <= Refilled + Qpm
<1> DEFINE E == (clock - last) * Qpm
<1>1. E \in Nat /\ (t - last) * Qpm = E + Qpm
  BY DEF OutboundTypeOK
<1>2. Cap \in Nat /\ tokens \in Nat
  BY CapNat DEF OutboundTypeOK
<1> QED
  BY <1>1, <1>2 DEF Refilled

\* The worth of a stretch grows by Qpm with each tick.
LEMMA WorthGrows ==
    ASSUME NEW d \in Nat
    PROVE  Worth(d) \in Nat /\ Worth(d + 1) = Worth(d) + Qpm /\ Worth(d) >= Cap
<1>1. d * Qpm \in Nat /\ (d + 1) * Qpm = d * Qpm + Qpm
  OBVIOUS
<1> QED
  BY <1>1, CapNat DEF Worth

\* Waiting as long as Retry-After says refills one token (ratelimit.go 73-82).
LEMMA RetryAfterCovers ==
    ASSUME Qpm > 0
    PROVE  RetryAfter \in Nat /\ RetryAfter * Qpm >= Minute
<1> DEFINE n == Minute + Qpm - 1
           q == n \div Qpm
<1>1. q \in Int /\ n % Qpm \in 0 .. Qpm - 1 /\ n = Qpm * q + (n % Qpm)
  BY SMT
<1>2. q \in Nat
  BY SMT
<1>3. q * Qpm >= Minute
  BY <1>1
<1> QED
  BY <1>2, <1>3 DEF RetryAfter

\* The full bucket of newGlobalRateLimiter covers everything (ratelimit.go 33-44).
LEMMA InitBucketInv == OutboundInit => BucketInv
<1> SUFFICES ASSUME OutboundInit PROVE BucketInv
  OBVIOUS
<1>1. OutboundTypeOK
  BY CapNat DEF OutboundInit, OutboundTypeOK
<1>2. Refilled = Cap
  BY CapNat DEF OutboundInit, Refilled
<1>3. Cardinality(granted) = 0 /\ IsFiniteSet(granted)
  BY FS_EmptySet DEF OutboundInit
<1>4. Accounting
  <2>1. clock = 0 /\ mark \in Nat /\ granted = {}
    BY DEF OutboundInit
  <2>2. CASE clock >= mark
    <3>1. clock - mark = 0
      BY <2>1, <2>2
    <3>2. Worth(0) >= Cap /\ Worth(0) \in Nat
      BY WorthGrows
    <3> QED BY <1>2, <1>3, <2>2, <3>1, <3>2, CapNat DEF Accounting
  <2> QED BY <2>1, <2>2 DEF Accounting
<1>5. AskedWasGranted
  BY <1>3 DEF OutboundInit, AskedWasGranted
<1> QED
  BY <1>1, <1>4, <1>5 DEF OutboundInit, BucketInv, RefusalsLoseNothing

\* Every step of Handle, and the clock, keep the account (handler.go 317-387).
LEMMA NextBucketInv == BucketInv /\ [OutboundNext]_outboundVars => BucketInv'
<1> SUFFICES ASSUME BucketInv, [OutboundNext]_outboundVars PROVE BucketInv'
  OBVIOUS
<1>0. OutboundTypeOK /\ Cap \in Nat /\ Refilled \in 0 .. Cap /\ (Qpm > 0 => Cap >= Minute)
  BY CapNat, RefilledBounds DEF BucketInv
<1>c. IsFiniteSet(granted) /\ Cardinality(granted) \in Nat /\ Cardinality(granted) * Minute \in Nat
  BY FS_CardinalityType DEF BucketInv, AskedWasGranted
<1>1. CASE UNCHANGED outboundVars
  BY <1>1 DEF BucketInv, outboundVars, bucket, exchange, OutboundTypeOK, Accounting,
              AskedWasGranted, Refilled, Cap, Worth, RefusalsLoseNothing
<1>2. CASE Elapse
  <2>0. /\ clock \in Nat /\ mark \in Nat /\ clock' = clock + 1
        /\ UNCHANGED <<tokens, last, sending, host, sentAt, hops, mark, granted, asked, refusedAt>>
    BY <1>0, <1>2 DEF Elapse, OutboundTypeOK, bucket, exchange
  <2>1. OutboundTypeOK'
    BY <1>0, <2>0 DEF OutboundTypeOK, Cap
  <2>2. Refilled' <= Refilled + Qpm /\ Refilled' \in 0 .. Cap
    <3>1. Refilled' = LET u == tokens + (clock' - last) * Qpm IN IF u > Cap THEN Cap ELSE u
      BY <2>0 DEF Refilled, Cap
    <3>2. (clock' - last) * Qpm \in Nat /\ tokens \in Nat
      BY <1>0, <2>0 DEF OutboundTypeOK
    <3> QED
      BY <1>0, <2>0, <3>1, <3>2, RefillOfATick DEF Cap
  <2>3. ASSUME Qpm > 0 PROVE Accounting'
    <3>1. CASE clock >= mark
      <4>1. clock - mark \in Nat /\ clock' - mark = (clock - mark) + 1
        BY <2>0, <3>1
      <4>2. Worth(clock - mark) \in Nat /\ Worth(clock' - mark) = Worth(clock - mark) + Qpm
        BY <4>1, WorthGrows
      <4>3. Cardinality(granted) * Minute + Refilled <= Worth(clock - mark)
        BY <2>3, <3>1 DEF BucketInv, Accounting
      <4>4. Cardinality(granted) * Minute + Refilled' <= Worth(clock' - mark)
        BY <4>2, <4>3, <2>2, <1>0, <1>c
      <4> QED
        BY <4>4, <2>0, <3>1 DEF Accounting, Worth, Cap
    <3>2. CASE clock < mark
      <4>1. granted = {} /\ Cardinality(granted) * Minute = 0
        BY <2>0, <2>3, <3>2, FS_EmptySet DEF BucketInv, Accounting
      <4>2. ASSUME clock' >= mark
            PROVE  Cardinality(granted) * Minute + Refilled' <= Worth(clock' - mark)
        <5>1. clock' - mark \in Nat
          BY <2>0, <4>2
        <5>2. Worth(clock' - mark) \in Nat /\ Worth(clock' - mark) >= Cap
          BY <5>1, WorthGrows
        <5> QED BY <5>2, <4>1, <2>2, <1>0
      <4> QED
        BY <4>1, <4>2, <2>0 DEF Accounting, Worth, Cap
    <3> QED
      BY <2>0, <3>1, <3>2
  <2>4. AskedWasGranted' /\ RefusalsLoseNothing'
    BY <2>0 DEF BucketInv, AskedWasGranted, RefusalsLoseNothing
  <2> QED
    BY <2>1, <2>3, <2>4 DEF BucketInv
<1>3. ASSUME NEW r \in Forwards, Forbid(r) \/ Finish(r) PROVE BucketInv'
  <2>1. /\ UNCHANGED <<clock, tokens, last, host, mark, granted, asked, refusedAt>>
        /\ \/ UNCHANGED <<sentAt, hops>>
           \/ sentAt' = [sentAt EXCEPT ![r] = 0] /\ hops' = [hops EXCEPT ![r] = 0]
        /\ \E o \in {"forbidden", "returned"} : sending' = [sending EXCEPT ![r] = o]
    BY <1>3 DEF Forbid, Finish, bucket, exchange
  <2>2. OutboundTypeOK'
    BY <1>0, <2>1 DEF OutboundTypeOK, HandleOutcomes, Cap
  <2>3. /\ sending'[r] \notin {"new", "sent"}
        /\ \A q \in Forwards : q # r => sending'[q] = sending[q] /\ sentAt'[q] = sentAt[q]
    BY <1>0, <2>1 DEF OutboundTypeOK
  <2>4. AskedWasGranted'
    BY <2>1, <2>3 DEF BucketInv, AskedWasGranted
  <2> QED
    BY <2>1, <2>2, <2>4 DEF BucketInv, Accounting, Refilled, Cap, Worth, RefusalsLoseNothing
<1>4. ASSUME NEW r \in Forwards, Limit(r) PROVE BucketInv'
  <2>1. /\ Qpm > 0 /\ last' = clock /\ tokens' = Refilled /\ Refilled < Minute
        /\ refusedAt' = (IF refusedAt < 0 THEN clock ELSE refusedAt)
        /\ UNCHANGED <<clock, host, sentAt, hops, mark, granted, asked>>
        /\ sending' = [sending EXCEPT ![r] = "limited"]
    BY <1>0, <1>4 DEF Limit, Deny, Enough, exchange
  <2>2. OutboundTypeOK'
    BY <1>0, <2>1 DEF OutboundTypeOK, HandleOutcomes, Cap
  <2>3. Refilled' = Refilled
    <3>1. (clock' - last') * Qpm = 0
      BY <1>0, <2>1 DEF OutboundTypeOK
    <3> QED
      BY <3>1, <1>0, <2>1 DEF Refilled, Cap
  <2>4. Accounting'
    BY <2>1, <2>3 DEF BucketInv, Accounting, Cap, Worth
  <2>5. AskedWasGranted'
    BY <1>0, <2>1 DEF BucketInv, AskedWasGranted, OutboundTypeOK
  <2>6. RefusalsLoseNothing'
    <3>1. CASE refusedAt < 0
      <4>1. (last' - refusedAt') * Qpm = 0
        BY <1>0, <2>1, <3>1 DEF OutboundTypeOK
      <4> QED BY <4>1, <1>0, <2>1, <3>1 DEF RefusalsLoseNothing, OutboundTypeOK
    <3>2. CASE refusedAt >= 0
      <4>1. refusedAt <= last /\ (last - refusedAt) * Qpm <= tokens
        BY <3>2 DEF BucketInv, RefusalsLoseNothing
      <4>2. last \in Nat /\ refusedAt \in Nat /\ clock \in Nat /\ last <= clock /\ tokens \in Nat
        BY <1>0, <3>2 DEF OutboundTypeOK
      <4>3. Refilled = tokens + (clock - last) * Qpm
        BY <1>0, <2>1, <4>2 DEF Refilled
      <4>4. (clock - refusedAt) * Qpm = (last - refusedAt) * Qpm + (clock - last) * Qpm
        BY <4>2
      <4>5. (last - refusedAt) * Qpm \in Int /\ (clock - last) * Qpm \in Int
        BY <4>2
      <4>6. (clock - refusedAt) * Qpm <= Refilled
        BY <4>1, <4>2, <4>3, <4>4, <4>5
      <4>7. refusedAt <= clock /\ refusedAt' = refusedAt
        BY <2>1, <3>2, <4>1, <4>2
      <4> QED BY <4>6, <4>7, <2>1 DEF RefusalsLoseNothing
    <3> QED BY <1>0, <3>1, <3>2 DEF OutboundTypeOK
  <2> QED
    BY <2>2, <2>4, <2>5, <2>6 DEF BucketInv
<1>5. ASSUME NEW r \in Forwards, SendToTarget(r) PROVE BucketInv'
  <2>1. /\ refusedAt' = -1 /\ UNCHANGED <<clock, host, mark>>
        /\ sending[r] = "new" /\ sending' = [sending EXCEPT ![r] = "sent"]
        /\ sentAt' = [sentAt EXCEPT ![r] = clock] /\ hops' = [hops EXCEPT ![r] = 1]
        /\ granted' = (IF clock >= mark THEN granted \cup {r} ELSE granted)
        /\ asked' = (IF clock >= mark + Timeout THEN asked \cup {<<r, 1>>} ELSE asked)
    BY <1>5 DEF SendToTarget, AskedNow
  <2>2. /\ sending' \in [Forwards -> {"new", "sent"} \cup HandleOutcomes]
        /\ host' \in [Forwards -> Targets]
        /\ sentAt' \in [Forwards -> 0 .. clock'] /\ hops' \in [Forwards -> 0 .. MaxHops]
        /\ granted' \subseteq Forwards /\ asked' \subseteq Forwards \X (1 .. MaxHops)
        /\ clock' \in Nat /\ mark' \in Nat /\ refusedAt' \in -1 .. clock'
    BY <1>0, <2>1 DEF OutboundTypeOK
  <2>3. r \notin granted
    BY <2>1 DEF BucketInv, AskedWasGranted
  <2>4. AskedWasGranted'
    <3>1. IsFiniteSet(granted')
      BY <1>c, <2>1, FS_AddElement
    <3>2. /\ \A q \in Forwards : sending'[q] = "new" => q # r /\ sending[q] = "new"
          /\ \A q \in Forwards : q # r => sending'[q] = sending[q] /\ sentAt'[q] = sentAt[q]
          /\ sentAt'[r] = clock
      BY <1>0, <2>1 DEF OutboundTypeOK
    <3>3. \A q \in Forwards : sending'[q] = "new" => q \notin granted'
      BY <2>1, <3>2 DEF BucketInv, AskedWasGranted
    <3>4. \A q \in Forwards : sending'[q] = "sent" /\ sentAt'[q] >= mark => q \in granted'
      BY <2>1, <3>2 DEF BucketInv, AskedWasGranted
    <3>5. asked' \subseteq granted' \X (1 .. MaxHops)
      <4>1. asked \subseteq granted' \X (1 .. MaxHops)
        BY <2>1 DEF BucketInv, AskedWasGranted
      <4>2. clock >= mark + Timeout => r \in granted'
        BY <1>0, <2>1 DEF OutboundTypeOK
      <4> QED BY <2>1, <4>1, <4>2
    <3> QED BY <2>1, <3>1, <3>3, <3>4, <3>5 DEF AskedWasGranted
  <2>5. CASE Qpm = 0
    <3>1. UNCHANGED <<tokens, last>>
      BY <1>5, <2>5 DEF SendToTarget, Take, bucket
    <3>2. OutboundTypeOK'
      BY <1>0, <2>1, <2>2, <3>1 DEF OutboundTypeOK, Cap
    <3> QED
      BY <2>1, <2>4, <2>5, <3>2 DEF BucketInv, RefusalsLoseNothing
  <2>6. CASE Qpm > 0
    <3>1. last' = clock /\ tokens' = Refilled - Minute /\ Refilled >= Minute
      BY <1>5, <2>6 DEF SendToTarget, Take, Enough
    <3>2. OutboundTypeOK'
      BY <1>0, <2>1, <2>2, <3>1 DEF OutboundTypeOK, Cap
    <3>3. Refilled' = Refilled - Minute
      <4>1. (clock' - last') * Qpm = 0
        BY <1>0, <2>1, <3>1 DEF OutboundTypeOK
      <4> QED
        BY <4>1, <1>0, <2>1, <3>1 DEF Refilled, Cap
    <3>4. Accounting'
      <4>1. CASE clock >= mark
        <5>1. Cardinality(granted') = Cardinality(granted) + 1
          BY <2>1, <2>3, <4>1, <1>c, FS_AddElement
        <5>2. Cardinality(granted') * Minute = Cardinality(granted) * Minute + Minute
          BY <5>1, <1>c
        <5>3. Cardinality(granted) * Minute + Refilled <= Worth(clock - mark)
          BY <2>6, <4>1 DEF BucketInv, Accounting
        <5>4. clock - mark \in Nat
          BY <1>0, <4>1 DEF OutboundTypeOK
        <5>5. Worth(clock - mark) \in Nat
          BY <5>4, WorthGrows
        <5>6. Cardinality(granted') * Minute + Refilled' <= Worth(clock - mark)
          BY <5>2, <5>3, <5>5, <3>3, <1>0, <1>c
        <5> QED
          BY <5>6, <2>1, <4>1 DEF Accounting, Worth, Cap
      <4>2. CASE ~(clock >= mark)
        BY <2>1, <2>6, <4>2 DEF BucketInv, Accounting
      <4> QED
        BY <4>1, <4>2
    <3> QED
      BY <2>1, <2>4, <3>2, <3>4 DEF BucketInv, RefusalsLoseNothing
  <2> QED
    BY <2>5, <2>6
<1>6. ASSUME NEW r \in Forwards, Redirect(r) PROVE BucketInv'
  <2>1. /\ UNCHANGED <<clock, tokens, last, sending, host, sentAt, mark, granted, refusedAt>>
        /\ sending[r] = "sent" /\ hops[r] < MaxHops /\ clock <= sentAt[r] + Timeout
        /\ hops' = [hops EXCEPT ![r] = @ + 1]
        /\ asked' = (IF clock >= mark + Timeout THEN asked \cup {<<r, hops[r] + 1>>} ELSE asked)
    BY <1>6 DEF Redirect, MayFollow, AskedNow, bucket
  <2>2. hops[r] + 1 \in 1 .. MaxHops
    BY <1>0, <2>1 DEF OutboundTypeOK
  <2>3. OutboundTypeOK'
    BY <1>0, <2>1, <2>2 DEF OutboundTypeOK, Cap
  <2>4. clock >= mark + Timeout => r \in granted
    <3>1. clock >= mark + Timeout => sentAt[r] >= mark
      BY <1>0, <2>1 DEF OutboundTypeOK
    <3> QED BY <2>1, <3>1 DEF BucketInv, AskedWasGranted
  <2>5. AskedWasGranted'
    BY <2>1, <2>2, <2>4 DEF BucketInv, AskedWasGranted
  <2> QED
    BY <2>1, <2>3, <2>5 DEF BucketInv, Accounting, Refilled, Cap, Worth, RefusalsLoseNothing
<1> QED
  BY <1>1, <1>2, <1>3, <1>4, <1>5, <1>6 DEF OutboundNext, Handle

\* The account holds in every reachable state.
LEMMA BucketInvHolds == OutboundSpec => []BucketInv
<1> QED
  BY InitBucketInv, NextBucketInv, PTL DEF OutboundSpec

\* The bucket never overflows nor goes below nothing.
THEOREM BucketTypeCorrect == OutboundSpec => []OutboundTypeOK
<1>1. BucketInv => OutboundTypeOK
  BY DEF BucketInv
<1> QED
  BY <1>1, BucketInvHolds, PTL

\* If there are at most n requests per token, n tokens' worth bounds them.
LEMMA RequestsPerToken ==
    ASSUME NEW g \in Nat, NEW a \in Nat, NEW w \in Nat, a <= g * MaxHops, g * Minute <= w
    PROVE  a * Minute <= MaxHops * w
<1>1. a * Minute <= (g * MaxHops) * Minute
  <2>1. g * MaxHops \in Nat
    OBVIOUS
  <2>2. PICK x \in Nat : x = g * MaxHops
    BY <2>1
  <2>3. a * Minute <= x * Minute
    BY <2>2
  <2> QED BY <2>2, <2>3
<1>2. (g * MaxHops) * Minute = MaxHops * (g * Minute)
  OBVIOUS
<1>3. MaxHops * (g * Minute) <= MaxHops * w
  <2>1. PICK y \in Nat : y = g * Minute
    OBVIOUS
  <2>2. MaxHops * y <= MaxHops * w
    BY <2>1
  <2> QED BY <2>1, <2>2
<1>4. a * Minute \in Nat /\ MaxHops * (g * Minute) \in Nat /\ MaxHops * w \in Nat
  OBVIOUS
<1> QED BY <1>1, <1>2, <1>3, <1>4

\* In every stretch of time, for every rate, timeout and number of redirects:
\* at most a bucket and the refill is let through, and the requests made of
\* targets are at most MaxHops for each (ratelimit.go 49-68, handler.go 317-319).
THEOREM WindowTheorem == OutboundSpec => []WindowBound
<1>1. BucketInv => WindowBound
  <2> SUFFICES ASSUME BucketInv, Qpm > 0, clock >= mark
               PROVE  /\ Cardinality(granted) * Minute <= Worth(clock - mark)
                      /\ Cardinality(asked) * Minute <= MaxHops * Worth(clock - mark)
    BY DEF WindowBound
  <2>1. Refilled \in 0 .. Cap /\ Cap \in Nat
    BY RefilledBounds, CapNat DEF BucketInv
  <2>2. clock - mark \in Nat
    BY DEF BucketInv, OutboundTypeOK
  <2>3. Worth(clock - mark) \in Nat
    BY <2>2, WorthGrows
  <2>4. IsFiniteSet(granted) /\ Cardinality(granted) \in Nat
    BY FS_CardinalityType DEF BucketInv, AskedWasGranted
  <2>5. Cardinality(granted) * Minute \in Nat
    BY <2>4
  <2>6. Cardinality(granted) * Minute <= Worth(clock - mark)
    BY <2>1, <2>3, <2>5 DEF BucketInv, Accounting
  <2>7. IsFiniteSet(1 .. MaxHops) /\ Cardinality(1 .. MaxHops) = MaxHops
    BY FS_Interval
  <2>8. /\ IsFiniteSet(granted \X (1 .. MaxHops))
        /\ Cardinality(granted \X (1 .. MaxHops)) = Cardinality(granted) * MaxHops
    BY <2>4, <2>7, FS_Product
  <2>9. Cardinality(asked) <= Cardinality(granted) * MaxHops /\ Cardinality(asked) \in Nat
    BY <2>8, FS_Subset, FS_CardinalityType DEF BucketInv, AskedWasGranted
  <2> QED
    <3>1. ASSUME NEW g \in Nat, NEW q \in Nat, NEW w \in Nat, q <= g * MaxHops, g * Minute <= w
          PROVE  q * Minute <= MaxHops * w
      BY <3>1, RequestsPerToken
    <3>2. Cardinality(asked) * Minute <= MaxHops * Worth(clock - mark)
      BY <3>1, <2>3, <2>4, <2>6, <2>9, Zenon
    <3> QED BY <2>6, <3>2
<1> QED
  BY <1>1, BucketInvHolds, PTL

\* Retry-After is never too short, for every rate, and no refusal in between
\* puts it off (ratelimit.go 55-82).
THEOREM RetryTheorem == OutboundSpec => []RetryHintSuffices
<1>1. BucketInv => RetryHintSuffices
  <2> SUFFICES ASSUME BucketInv, refusedAt >= 0, clock >= refusedAt + RetryAfter
               PROVE  Enough
    BY DEF RetryHintSuffices
  <2>1. Qpm > 0 /\ refusedAt <= last /\ (last - refusedAt) * Qpm <= tokens
    BY DEF BucketInv, RefusalsLoseNothing
  <2>2. RetryAfter \in Nat /\ RetryAfter * Qpm >= Minute
    BY <2>1, RetryAfterCovers
  <2>3. /\ clock - refusedAt >= RetryAfter /\ clock - refusedAt \in Nat
        /\ clock - last \in Nat /\ last - refusedAt \in Nat
    BY <2>1, <2>2 DEF BucketInv, OutboundTypeOK
  <2>4. (clock - refusedAt) * Qpm >= RetryAfter * Qpm
    BY <2>2, <2>3
  <2>5. (clock - refusedAt) * Qpm = (last - refusedAt) * Qpm + (clock - last) * Qpm
    <3>1. \A x, y \in Nat : (x + y) * Qpm = x * Qpm + y * Qpm
      OBVIOUS
    <3>2. clock - refusedAt = (last - refusedAt) + (clock - last)
      BY DEF BucketInv, OutboundTypeOK
    <3> QED BY <2>3, <3>1, <3>2
  <2>6. (last - refusedAt) * Qpm \in Nat /\ (clock - last) * Qpm \in Nat /\ RetryAfter * Qpm \in Nat
    BY <2>2, <2>3
  <2>7. Cap >= Minute /\ Cap \in Nat /\ tokens \in Nat
    BY <2>1, CapNat DEF BucketInv, OutboundTypeOK
  <2>8. tokens + (clock - last) * Qpm >= Minute
    BY <2>1, <2>2, <2>4, <2>5, <2>6, <2>7
  <2> QED
    BY <2>6, <2>7, <2>8 DEF Enough, Refilled
<1> QED
  BY <1>1, BucketInvHolds, PTL
=============================================================================
