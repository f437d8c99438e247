-------------------------------- MODULE Intake --------------------------------
(***************************************************************************)
(* What the customers' handlers (transport/http/locker_handler.go) and     *)
(* their service (service/rental_flow_service.go) make of a request before *)
(* the repository sees it.  Functions of the request only: each yields the *)
(* code of the refusal, or "OK" and the value handed to the repository.    *)
(***************************************************************************)
EXTENDS Integers

CONSTANTS
    Lengths,    \* sides of things, in millimetres
    Numbers,    \* subscriber numbers: the last ten digits of a phone
    Missing     \* a JSON member that is not there, and the counter without a request

ASSUME LengthsAssumption == Lengths \subseteq Int

VARIABLE counter    \* the request that was served last, and what was made of it

Accept(v) == [code |-> "OK", value |-> v]
Refuse(c) == [code |-> c, value |-> Missing]

-----------------------------------------------------------------------------
(* Sizes and dimensions *)

validSize(size) == size \in {"s", "m", "l", "xl"}

\* The limits as they would be with "<" for "<=".
sizeFromDimensionsStrict(length, width, height) ==
    LET wider == IF width > length THEN width ELSE length
        maxD == IF height > wider THEN height ELSE wider
    IN  IF maxD < 250 THEN "s" ELSE IF maxD < 450 THEN "m"
        ELSE IF maxD < 650 THEN "l" ELSE IF maxD < 900 THEN "xl" ELSE "none"

\* The longest side decides, however the thing could be turned.
sizeFromDimensions(length, width, height) ==
    LET wider == IF width > length THEN width ELSE length
        maxD == IF height > wider THEN height ELSE wider
    IN  IF maxD <= 250 THEN "s" ELSE IF maxD <= 450 THEN "m"
        ELSE IF maxD <= 650 THEN "l" ELSE IF maxD <= 900 THEN "xl" ELSE "none"

\* The three sides are looked at only if no size is named: an omitted string
\* is the empty one.
RequestedSize(size, dims) ==
    LET mapped == sizeFromDimensions(dims.length, dims.width, dims.height)
    IN  IF size # "omitted" \/ dims = Missing
        THEN IF validSize(size) THEN Accept(size) ELSE Refuse("INVALID_SIZE")
        ELSE IF \/ dims.length <= 0 \/ dims.width <= 0 \/ dims.height <= 0
                \/ dims.unit \notin {"omitted", "cm"}
                \/ mapped = "none"
             THEN Refuse("INVALID_DIMENSIONS") ELSE Accept(mapped)

-----------------------------------------------------------------------------
(* Phones and access codes *)

\* A number that keeps the first digit it was typed with.
normalizePhoneAsTyped(phone) ==
    IF phone.digits = 11 /\ phone.first \in {7, 8}
    THEN Accept([first |-> phone.first, rest |-> phone.rest])
    ELSE Refuse("INVALID_PHONE")

\* A phone as typed: how many digits there are, the first one, and the rest;
\* every other character has been dropped.
normalizePhone(phone) ==
    IF phone.digits = 11 /\ phone.first \in {7, 8}
    THEN Accept([first |-> 7, rest |-> phone.rest])
    ELSE Refuse("INVALID_PHONE")

\* A code is its letters without blanks around them, and their number.
EnteredCode(code) ==
    IF code.length = 6 THEN Accept(code.letters) ELSE Refuse("INVALID_ACCESS_CODE")

-----------------------------------------------------------------------------
(* The handlers: first the id in the path, then the body, then the service *)

Checked(q, service) ==
    IF q.id = "no_number" THEN Refuse("LOCKER_NOT_FOUND")
    ELSE IF q.body = "no_json" THEN Refuse("INVALID_BODY") ELSE service

Box == [length : Lengths, width : Lengths, height : Lengths, unit : {"omitted", "cm", "in"}]

Typed == [digits : {10, 11, 12}, first : 6..9, rest : Numbers]

Selection == [id : {"number", "no_number"}, body : {"json", "no_json"},
              size : {"omitted", "m", "huge"}, dims : Box \cup {Missing}]

Booking == [id : {"number", "no_number"}, body : {"json", "no_json"}, phone : Typed]

Check == [id : {"number", "no_number"}, body : {"json", "no_json"},
          accessCode : [length : {0, 5, 6, 7}, letters : Numbers]]

NoRequest == [op |-> "none", asked |-> Missing, reply |-> Refuse("none")]

Served(op, q, reply) == counter' = [op |-> op, asked |-> q, reply |-> reply]

CreateCellSelection(q) == Served("selection", q, Checked(q, RequestedSize(q.size, q.dims)))
CreateBooking(q) == Served("booking", q, Checked(q, normalizePhone(q.phone)))
CheckAccessCode(q) == Served("check", q, Checked(q, EnteredCode(q.accessCode)))

\* The next customer comes.
NextCustomer == counter # NoRequest /\ counter' = NoRequest

IntakeInit == counter = NoRequest

Request ==
    \/ \E q \in Selection : CreateCellSelection(q)
    \/ \E q \in Booking : CreateBooking(q)
    \/ \E q \in Check : CheckAccessCode(q)

IntakeNext == (counter = NoRequest /\ Request) \/ NextCustomer

-----------------------------------------------------------------------------
(* What the replies rest on *)

Limit == [s |-> 250, m |-> 450, l |-> 650, xl |-> 900]

Fits(box, size) ==
    \A side \in {box.length, box.width, box.height} : 0 < side /\ side <= Limit[size]

(* A thing given by its sides gets the smallest cell it fits into, also    *)
(* when a side is exactly at a limit, and is refused only if it fits into  *)
(* none or is not measured in centimetres; and whatever is handed on is a  *)
(* size that cells have (sizeFromDimensions and its callers).              *)
SmallestThatFits ==
    counter.op = "selection" =>
        LET box == counter.asked.dims
            reply == counter.reply
        IN  /\ reply.code = "OK" =>
                  /\ reply.value \in DOMAIN Limit
                  /\ counter.asked.size = "omitted" =>
                        /\ Fits(box, reply.value)
                        /\ \A z \in DOMAIN Limit :
                              Fits(box, z) => Limit[reply.value] <= Limit[z]
            /\ reply.code = "INVALID_DIMENSIONS" =>
                  box.unit = "in" \/ \A z \in DOMAIN Limit : ~Fits(box, z)

(* backend-api-endpoints.md:446-449: a number typed with 7 or with 8 is    *)
(* stored as one and the same phone, and different numbers stay different. *)
PhonesKeepApart ==
    counter.op = "booking" /\ counter.reply.code = "OK" =>
        \A q \in Typed :
            LET other == normalizePhone(q)
            IN  other.code = "OK" =>
                    (other.value = counter.reply.value <=> q.rest = counter.asked.phone.rest)
=============================================================================
