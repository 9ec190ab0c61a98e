---------------------------- MODULE AjaxConvert ----------------------------
(***************************************************************************)
(* What becomes of the response of a request: ajaxHandleResponses picks    *)
(* the one to start from, ajaxConvert takes it from data type to data      *)
(* type, by the converters there are: functions, or TRUE for types that    *)
(* are equivalent.  A value is the set of the types it may be taken for:   *)
(* the one it was made as, and those that equivalences add to it.          *)
(***************************************************************************)
EXTENDS Integers, Sequences, FiniteSets

CONSTANTS
    Types,
    None,
    MaxConverters   \* bound: converters that are registered

Auto == "*"

VARIABLES
    converters,  \* for each "from to": "function", "equivalence" or "none"
    contentType, \* the type that the Content-Type header stands for, or None
    responses,   \* the types in which the transport has a response; None if
                 \* it passed no responses at all
    dataTypes,   \* the types that are still ahead
    asked,       \* s.dataTypes, as ajaxHandleResponses leaves it
    current,     \* the type conversion has come to
    response,    \* the value, or None as long as there was no response
    fields,      \* jqXHR.responseXXX, by type
    phase        \* "handle", "convert", or the outcome

vars == <<converters, contentType, responses, dataTypes, asked, current, response, fields, phase>>

Pairs == {p \in (Types \cup {Auto}) \X Types : p[1] # p[2]}

\* The lists that ajax begins with: a type or none, or two of them.
Lists == {<<Auto>>} \cup {<<t>> : t \in Types} \cup {<<Auto, t>> : t \in Types}
         \cup {<<p[1], p[2]>> : p \in {q \in Types \X Types : q[1] # q[2]}}

Init ==
    /\ \E ps \in SUBSET Pairs :
        /\ Cardinality(ps) <= MaxConverters
        /\ \E kind \in [ps -> {"function", "equivalence"}] :
            converters = [p \in Pairs |-> IF p \in ps THEN kind[p] ELSE "none"]
    /\ contentType \in Types \cup {None}
    /\ responses \in {None} \cup {ts \in SUBSET Types : Cardinality(ts) <= 2}
    /\ dataTypes \in Lists
    /\ asked = <<>>
    /\ current = None
    /\ response = None
    /\ fields = [t \in Types |-> None]
    /\ phase = "handle"

-----------------------------------------------------------------------------
Converter(a, b) == a # b /\ converters[<<a, b>>] # "none"

\* The list without its automatic head; with the type of the content type, which
\* is looked at if there was one.
Known ==
    IF dataTypes[1] # Auto THEN dataTypes
    ELSE (IF contentType = None THEN <<>> ELSE <<contentType>>) \o Tail(dataTypes)

\* The response that is taken: the expected one, one with a converter to it, or
\* any.  The order of the object's properties is left open.
FinalDataType(available) ==
    IF Known # <<>> /\ Known[1] \in available THEN {Known[1]}
    ELSE LET able == {t \in available : Known = <<>> \/ Converter(t, Known[1])}
         IN IF able # {} THEN able ELSE available

\* ajaxHandleResponses, which is skipped without responses so that "*" stays in
\* the list; and the first shift of ajaxConvert.
HandleResponses ==
    /\ phase = "handle"
    /\ phase' = "convert"
    /\ \/ responses = None /\ asked' = dataTypes /\ UNCHANGED response
       \/ responses = {} /\ asked' = Known /\ UNCHANGED response
       \/ /\ responses # None
          /\ \E t \in FinalDataType(responses) :
                /\ response' = {t}
                /\ asked' = IF Known # <<>> /\ t = Known[1] THEN Known ELSE <<t>> \o Known
    /\ current' = IF asked' = <<>> THEN None ELSE Head(asked')
    /\ dataTypes' = IF asked' = <<>> THEN <<>> ELSE Tail(asked')
    /\ UNCHANGED <<converters, contentType, responses, fields>>

\* The value as one of type b: it was declared to be equivalent.
CountAs(b, value) == IF value = None THEN None ELSE value \cup {b}

\* The value of type b that a function makes of one of type a, or of any; of a
\* value that may not be taken for type a it makes nothing of any type.
Call(a, b, value) ==
    IF a = Auto THEN {b}
    ELSE IF value = None THEN None
    ELSE IF a \in value THEN {b} ELSE {}

\* The converter from a to b is applied.
Apply(a, b, value) ==
    IF converters[<<a, b>>] = "equivalence" THEN CountAs(b, value) ELSE Call(a, b, value)

\* The types there is a converter of to b, for a value of type a.
Direct(a, b) == {x \in {a, Auto} : Converter(x, b)}

\* The ways over one more type m: a converter to m, and one from m to b.
Via(a, b) == {p \in {a, Auto} \X (Types \ {a, b}) : Converter(p[1], p[2]) /\ Converter(p[2], b)}

\* (Mutant: the type in between is passed over.)
CondenseAll(x, m, b) == TRUE

\* "Condense equivalence converters": one of the two steps is none.
Condense(x, m, b) == "equivalence" \in {converters[<<x, m>>], converters[<<m, b>>]}

\* The value after a pair that is condensed: the one function there is, if any,
\* is applied.
CondensedValue(x, m, b) ==
    IF converters[<<x, m>>] = "equivalence" THEN Apply(m, b, CountAs(m, response))
    ELSE IF converters[<<m, b>>] = "equivalence" THEN CountAs(b, Call(x, m, response))
    ELSE Call(x, m, response)

\* The field of the current type is set; there is none for "*".
SetField ==
    fields' = IF current \in {None, Auto} THEN fields ELSE [fields EXCEPT ![current] = response]

\* One round of the loop, if another type is ahead: the next type is come to.
Round(next, rest, value) ==
    /\ phase = "convert" /\ current # None
    /\ SetField
    /\ current' = next
    /\ dataTypes' = rest
    /\ response' = value
    /\ UNCHANGED <<converters, contentType, responses, asked, phase>>

Ahead(b) == phase = "convert" /\ dataTypes # <<>> /\ b = Head(dataTypes)

\* The next type is the same, or the current one is "*".
Skip(b) == Ahead(b) /\ current \in {b, Auto} /\ Round(b, Tail(dataTypes), response)

Differs(b) == Ahead(b) /\ current \notin {b, Auto}

\* The converter from the type goes before the one from all types.
ConvertDirectly(b) ==
    /\ Differs(b)
    /\ \E x \in Direct(current, b) :
        /\ current \in Direct(current, b) => x = current
        /\ Round(b, Tail(dataTypes), Apply(x, b, response))

ConvertVia(b) ==
    /\ Differs(b)
    /\ Direct(current, b) = {}
    /\ \E p \in Via(current, b) :
        /\ <<current, p[2]>> \in Via(current, b) => p[1] = current
        /\ IF Condense(p[1], p[2], b)
           THEN Round(b, Tail(dataTypes), CondensedValue(p[1], p[2], b))
           ELSE Round(p[2], dataTypes, Apply(p[1], p[2], response))

Ends(outcome) ==
    /\ phase = "convert"
    /\ phase' = outcome
    /\ SetField
    /\ UNCHANGED <<converters, contentType, responses, dataTypes, asked, current, response>>

Succeeds == dataTypes = <<>> /\ Ends("success")

\* "No conversion from ... to ...", and a converter that throws.
NoConversion(b) ==
    /\ Differs(b)
    /\ Direct(current, b) = {} /\ Via(current, b) = {}
    /\ Ends("noconversion")

ConverterThrows(b) ==
    /\ Differs(b)
    /\ \E p \in (Direct(current, b) \X {b}) \cup Via(current, b) : converters[p] = "function"
    /\ Ends("error")

Next ==
    \/ HandleResponses
    \/ \E b \in Types :
        Skip(b) \/ ConvertDirectly(b) \/ ConvertVia(b) \/ NoConversion(b) \/ ConverterThrows(b)
    \/ Succeeds

Spec == Init /\ [][Next]_vars /\ WF_vars(Next)
-----------------------------------------------------------------------------
Values == {None} \cup SUBSET Types

\* The automatic type stands in the list only before it is known.
TypeOK ==
    /\ dataTypes \in Seq(Types) \/ phase = "handle"
    /\ asked \in Seq(Types \cup {Auto})
    /\ current \in Types \cup {None, Auto}
    /\ response \in Values
    /\ fields \in [Types -> Values]
    /\ phase \in {"handle", "convert", "success", "noconversion", "error"}

\* A value may be taken for the type under which conversion has it, and jqXHR has
\* it in its fields: no function gets one that is neither of its type nor was
\* declared equivalent to it.  There is no value only if there was no response.
ValueOfCurrentType ==
    /\ current # None =>
        IF response = None THEN responses \in {None, {}} ELSE current \in response
    /\ \A t \in Types : fields[t] # None => t \in fields[t]

\* Conversion succeeds just when each type that was asked for can be had of the
\* one before it, by a converter or by two; the result is of the last type.  No
\* conversion is tried from "*", which is there if there are no responses.
Linked(a, b) ==
    \/ a \in {b, Auto}
    \/ \E x \in {a, Auto} :
        Converter(x, b) \/ \E m \in Types \ {a, b} : Converter(x, m) /\ Converter(m, b)

AllLinked == \A i \in 1..(Len(asked) - 1) : Linked(asked[i], asked[i + 1])

ConvertsWhatItCan ==
    /\ phase = "success" => AllLinked /\ (asked # <<>> => current = asked[Len(asked)])
    /\ phase = "noconversion" => ~AllLinked

\* What ajaxConvert promises at every step: the value has the type it is noted
\* under, and it gets to the type asked for exactly when converters lead there.
ConversionInv == TypeOK /\ ValueOfCurrentType /\ ConvertsWhatItCan
=============================================================================
