--------------------------------- MODULE Amf ---------------------------------
(* AMF0 as the code writes it (AMFAny) and reads it (AMFObject::Decode). A   *)
(* body is a sequence of tokens, each of a fixed number of bytes; a decoded  *)
(* object is a sequence of properties <<name, kind, value>>, where the value *)
(* of an object is again such a sequence. A text is a sequence of its parts, *)
(* <<>> when it is empty. A number on the wire is counted in tenths.         *)
EXTENDS Integers, Sequences, SequencesExt

Tok(k, v) == <<k, v>>
Type(t) == <<Tok("type", t)>>

(* Bytes of a token. A text has at least one byte: nothing depends on more.  *)
Bytes(tok) ==
    CASE tok[1] = "double" -> 8
      [] tok[1] = "date"   -> 10
      [] tok[1] \in {"count", "long"} -> 4
      [] tok[1] \in {"none", "length"} -> 2
      [] OTHER -> 1
RECURSIVE AtLeast(_, _)
AtLeast(n, toks) ==
    \/ n <= 0
    \/ /\ toks # <<>>
       /\ AtLeast(n - Bytes(Head(toks)), Tail(toks))

-----------------------------------------------------------------------------
(* Encoding. A text is preceded by its length of two bytes, "none" when the  *)
(* text is empty.                                                            *)
Text(s) == IF s = <<>> THEN <<Tok("none", 0)>> ELSE <<Tok("length", 0), Tok("text", s)>>
EncodeName(name) == Text(name)
Whole(n) == 10 * n
EncodeNumber(n) == Type("number") \o <<Tok("double", n)>>
EncodeString(s) == Type("string") \o Text(s)
EncodeBoolean(b) == Type("boolean") \o <<Tok("flag", b)>>
EncodeNull == Type("null")
ObjectEnd == <<Tok("none", 0), Tok("type", "end")>>

RECURSIVE EncodeProperty(_)
EncodeProperties(props) == FlattenSeq([i \in DOMAIN props |-> EncodeProperty(props[i])])
EncodeProperty(p) ==
    EncodeName(p[1]) \o
    CASE p[2] = "number"  -> EncodeNumber(p[3])
      [] p[2] = "string"  -> EncodeString(p[3])
      [] p[2] = "boolean" -> EncodeBoolean(p[3])
      [] p[2] = "null"    -> EncodeNull
      [] p[2] = "date"    -> Type("date") \o <<Tok("date", p[3])>>
      [] p[2] = "long"    -> Type("long") \o <<Tok("long", 0), Tok("text", p[3])>>
      [] p[2] = "object"  -> Type("object") \o EncodeProperties(p[3]) \o ObjectEnd
      [] p[2] = "ecma"    -> Type("ecma") \o <<Tok("count", Len(p[3]))>>
                               \o EncodeProperties(p[3]) \o ObjectEnd

EncodeObject(props) == Type("object") \o EncodeProperties(props) \o ObjectEnd

-----------------------------------------------------------------------------
(* Decoding. A result has the properties, the tokens that follow and whether *)
(* Decode returned -1 ("failed") or took bytes for what they are not         *)
(* ("misread").                                                              *)
Result(status, props, rest) == [status |-> status, props |-> props, rest |-> rest]
From(toks, i) == SubSeq(toks, i, Len(toks))

(* The value of a simple type is refused when fewer bytes are left than it   *)
(* has at least.                                                             *)
Is(toks, k) == toks # <<>> /\ toks[1][1] = k
Simple(least, k, toks, props, taken) ==
    IF ~AtLeast(least, toks) THEN Result("failed", <<>>, toks)
    ELSE IF ~Is(toks, k) THEN Result("misread", <<>>, toks)
    ELSE Result("ok", props, From(toks, taken + 1))

(* A double is returned as an unsigned integer: its fraction is cut off, and *)
(* what a negative one becomes is undefined.                                 *)
Undefined == -1
ReadUint64T(n) == IF n <= -Whole(1) THEN Undefined ELSE IF n < 0 THEN 0 ELSE n \div Whole(1)

DecodeNumber(name, toks) ==
    Simple(8, "double", toks, <<<<name, "number", ReadUint64T(toks[1][2])>>>>, 1)
DecodeBoolean(name, toks) == Simple(1, "flag", toks, <<<<name, "boolean", toks[1][2]>>>>, 1)
DecodeDate(name, toks) == Simple(10, "date", toks, <<<<name, "date", toks[1][2]>>>>, 1)
DecodeLongString(name, toks) == Simple(4, "long", toks, <<<<name, "string", toks[2][2]>>>>, 2)
DecodeString(name, toks) ==
    IF Is(toks, "none") THEN Simple(2, "none", toks, <<<<name, "string", <<>>>>>>, 1)
    ELSE Simple(2, "length", toks, <<<<name, "string", toks[2][2]>>>>, 2)

(* Mutant: a null is not put into the properties, as before a fix noted in   *)
(* AMFObject::Decode.                                                        *)
NullPropertyLost(once) == <<>>

(* Decode appends a null without its name, DecodeOnce does not append it.    *)
NullProperty(once) == IF once THEN <<>> ELSE <<<<<<>>, "null", 0>>>>

(* The name in front of a value, where values have names. An empty one is    *)
(* not skipped: its first byte is then read as the type of a number.         *)
Named(toks, has) ==
    IF ~has THEN Result("ok", <<>>, toks)
    ELSE IF toks[1][1] = "length" THEN Result("ok", toks[2][2], From(toks, 3))
    ELSE Result("misread", <<>>, toks)

RECURSIVE Decode(_, _), DecodeLoop(_, _, _), DecodeOnce(_, _), DecodeElements(_, _, _, _)

(* One value after its name: what it adds and where it ends. An object and   *)
(* an array with names are the same but for the count; unsupported types are *)
(* skipped without their value.                                              *)
DecodeValue(name, toks, once) ==
    LET kind == toks[1][2]
        body == IF kind = "ecma" THEN From(toks, 3) ELSE From(toks, 2)
        sub == Decode(body, TRUE)
    IN  CASE toks[1][1] # "type" -> Result("misread", <<>>, toks)
          [] kind = "number" -> DecodeNumber(name, body)
          [] kind = "boolean" -> DecodeBoolean(name, body)
          [] kind = "string" -> DecodeString(name, body)
          [] kind = "date" -> DecodeDate(name, body)
          [] kind = "long" -> DecodeLongString(name, body)
          [] kind \in {"object", "ecma"} -> Result(sub.status, <<<<name, "object", sub.props>>>>, sub.rest)
          [] kind = "null" -> Result("ok", NullProperty(once), From(toks, 2))
          [] kind = "strict" -> DecodeElements(name, From(toks, 3), toks[2][2], <<>>)
          [] OTHER -> Result("ok", <<>>, From(toks, 2))

(* The elements of an array without names are read as if they had names.     *)
DecodeElements(name, toks, count, props) ==
    IF count = 0 THEN Result("ok", props, toks)
    ELSE LET sub == DecodeOnce(toks, TRUE) IN
         IF sub.status # "ok" THEN sub
         ELSE DecodeElements(name, sub.rest, count - 1, Append(props, <<name, "object", sub.props>>))

DecodeOnce(toks, has) ==
    LET n == Named(toks, has) IN
    IF n.status # "ok" THEN Result(n.status, <<>>, toks) ELSE DecodeValue(n.props, n.rest, TRUE)

(* Values follow each other until the end of the object or until less than   *)
(* three bytes are left, which are not read.                                 *)
DecodeLoop(toks, has, props) ==
    IF ~AtLeast(3, toks) THEN Result("ok", props, toks)
    ELSE IF SubSeq(toks, 1, 2) = ObjectEnd THEN Result("ok", props, From(toks, 3))
    ELSE LET n == Named(toks, has)
             v == DecodeValue(n.props, n.rest, FALSE)
         IN  IF n.status # "ok" THEN Result(n.status, props, toks)
             ELSE IF n.rest[1] = Tok("type", "end") THEN Result("ok", props, From(n.rest, 2))
             ELSE IF v.status # "ok" THEN Result(v.status, props, toks)
             ELSE DecodeLoop(v.rest, has, props \o v.props)

Decode(toks, has) == DecodeLoop(toks, has, <<>>)

-----------------------------------------------------------------------------
(* AMFObject::Property(index) and Property(name); <<>> is the null pointer.  *)
PropertyAt(props, i) == IF i < Len(props) THEN props[i + 1] ELSE <<>>

RECURSIVE PropertyNamed(_, _)
PropertyNamed(props, name) ==
    IF props = <<>> THEN <<>>
    ELSE IF Head(props)[1] = name THEN Head(props)
    ELSE LET inner == IF Head(props)[2] = "object" THEN PropertyNamed(Head(props)[3], name) ELSE <<>>
         IN  IF inner # <<>> THEN inner ELSE PropertyNamed(Tail(props), name)

(* String(), Number() and Object() of a property that has another type: an   *)
(* empty string, zero, no object.                                            *)
StringOf(p) == IF p[2] = "string" THEN p[3] ELSE <<>>
NumberOf(p) == IF p[2] = "number" THEN p[3] ELSE 0
ObjectOf(p) == IF p[2] = "object" THEN p[3] ELSE <<>>
=============================================================================
