-------------------------------- MODULE Names --------------------------------
(***************************************************************************)
(* Object names, kinds and references as text (machinery/name.rs,          *)
(* engine-types/types/meta.rs).  Text is a sequence of letter codes in      *)
(* byte order: '-', '/', the digits, '_', the letters.  A name is <<base>>  *)
(* when plain and <<base, suffix>> when generated.  What can fail returns   *)
(* a set: empty for an error, a singleton for the value.                   *)
(***************************************************************************)
EXTENDS Naturals, Sequences

CONSTANTS MinLen,      \* the shortest and
          MaxLen,      \* the longest plain name (4 and 64 in the code)
          MaxSuffix,   \* u64::MAX, the largest suffix
          Radix        \* 10 in the code; a small one makes the text of numbers carry soon

ASSUME NameBounds ==
    MinLen \in Nat \ {0} /\ MaxLen \in Nat /\ MaxSuffix \in Nat /\ Radix \in 2..10

Dash == 0
Slash == 1
Digits == 2..(1 + Radix)
Underscore == 12
IsAlnum(c) == c \in Digits \/ c > Underscore

\* PlainName::new.
PlainName(raw) ==
    { <<r>> : r \in { x \in {raw} :
                        /\ Len(x) \in MinLen..MaxLen
                        /\ IsAlnum(x[1])
                        /\ \A i \in DOMAIN x : IsAlnum(x[i]) \/ x[i] = Underscore } }

\* PlainName::generated_from_key.
GeneratedFromKey(base, key) == <<base, key>>

IsPlain(name) == Len(name) = 1
BaseName(name) == name[1]

\* Decimal text of a number, no leading zero, and the number a run of digits spells.
Decimal[n \in Nat] ==
    IF n < Radix THEN <<2 + n>> ELSE Decimal[n \div Radix] \o <<2 + (n % Radix)>>

DecimalValue(text) ==
    LET Upto[i \in 0..Len(text)] == IF i = 0 THEN 0 ELSE Radix * Upto[i - 1] + (text[i] - 2)
    IN  Upto[Len(text)]

\* ObjectName::as_str, which is also Display, the serialized form and the sort key.
AsStr(name) == IF IsPlain(name) THEN name[1] ELSE name[1] \o <<Dash>> \o Decimal[name[2]]

\* str::parse::<u64> of a suffix that holds name characters only.
ParseSuffix(text) ==
    { DecimalValue(t) : t \in { x \in {text} :
                                  /\ x # <<>>
                                  /\ \A i \in DOMAIN x : x[i] \in Digits
                                  /\ DecimalValue(x) <= MaxSuffix } }

\* Where the first c stands in the text: 0 when it is not there.
FirstOf(c, text) ==
    LET at == { i \in DOMAIN text : text[i] = c }
    IN  IF at = {} THEN 0 ELSE CHOOSE i \in at : \A j \in at : i <= j

Before(text, i) == SubSeq(text, 1, i - 1)
After(text, i) == SubSeq(text, i + 1, Len(text))

\* ObjectName::from_parsed: what every name read back from text goes through.
FromParsed(raw) ==
    LET dash == FirstOf(Dash, raw)
    IN  IF \/ raw = <<>>
           \/ ~IsAlnum(raw[1])
           \/ \E i \in DOMAIN raw : ~IsAlnum(raw[i]) /\ raw[i] \notin {Underscore, Dash}
        THEN {}
        ELSE IF dash = 0
             THEN PlainName(raw)
             ELSE { GeneratedFromKey(base[1], key) :
                      base \in PlainName(Before(raw, dash)), key \in ParseSuffix(After(raw, dash)) }

\* The order of names: byte order of their text.
TextBefore(a, b) ==
    \E i \in 1..Len(b) :
        /\ \A j \in 1..(i - 1) : j <= Len(a) /\ a[j] = b[j]
        /\ i > Len(a) \/ a[i] < b[i]

\* ObjectKind and its text: "flow" is a proper prefix of "flowversion".
Kinds == {"Flow", "FlowVersion", "Execution", "Thread", "Activity", "Task"}

KindStr(kind) ==
    CASE kind = "Activity"    -> <<13>>
      [] kind = "Execution"   -> <<14>>
      [] kind = "Flow"        -> <<15>>
      [] kind = "FlowVersion" -> <<15, 18>>
      [] kind = "Task"        -> <<16>>
      [] kind = "Thread"      -> <<17>>

ParseKind(text) == { k \in Kinds : KindStr(k) = text }

\* A ULID's text.
UidStr(uid) == Decimal[uid]

\* The client's ObjectReference: "kind/name/uid", split into three on the way back;
\* a missing or empty part is an error.
ReferenceStr(kind, name, uid) ==
    KindStr(kind) \o <<Slash>> \o AsStr(name) \o <<Slash>> \o UidStr(uid)

ParseReference(text) ==
    LET one  == FirstOf(Slash, text)
        rest == After(text, one)
        two  == FirstOf(Slash, rest)
        parts == <<Before(text, one), Before(rest, two), After(rest, two)>>
    IN  IF one = 0 \/ two = 0 \/ \E i \in 1..3 : parts[i] = <<>> THEN {} ELSE {parts}
=============================================================================
