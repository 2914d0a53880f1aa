-------------------------- MODULE PropertyPath_proofs --------------------------
(***************************************************************************)
(* What holds of the way of a property value for every number, colour,     *)
(* symbol, version and checksum.  The two programs are looked at one       *)
(* conversion at a time; what each of the properties needs of them is      *)
(* summed up in five lemmas, on which the invariant of the whole way rests. *)
(* (Colours have numbers too large for Zenon: such leaves name SMT.)       *)
(***************************************************************************)
EXTENDS PropertyPath, SequenceTheorems, WellFoundedInduction, TLAPS

--------------------------------------------------------------------------------
(* Bytes and words *)

LEMMA RangeMember == \A a, b, c \in Int : a <= c /\ c <= b => c \in a .. b
OBVIOUS

LEMMA ByteRange == \A m : m \in Byte <=> m \in Int /\ 0 <= m /\ m <= 255
BY SMT DEF Byte

LEMMA Nonneg == White \in Nat /\ FullWord \in Nat
BY SMT DEF White, FullWord

LEMMA ColourRange == \A c : c \in Colour <=> c \in Int /\ 0 <= c /\ c <= 16777215
<1>1. \A c, n : n \in Int => (c \in 0 .. n <=> c \in Int /\ 0 <= c /\ c <= n)
  OBVIOUS
<1>2. \A c : c \in Colour <=> c \in Int /\ 0 <= c /\ c <= White
  BY <1>1, Nonneg DEF Colour
<1>. QED BY <1>2, SMT DEF White

LEMMA Digits ==
  ASSUME NEW d \in Nat, NEW m \in Byte, NEW c, c = 256 * d + m
  PROVE  c \div 256 = d /\ c % 256 = m
BY ByteRange, SMT

LEMMA Digit ==
  ASSUME NEW c \in Nat
  PROVE  \E d \in Nat, m \in Byte : c = 256 * d + m /\ c \div 256 = d /\ c % 256 = m
<1>1. (c \div 256) \in Nat /\ (c % 256) \in Int /\ 0 <= c % 256 /\ c % 256 <= 255
      /\ c = 256 * (c \div 256) + (c % 256)
  BY SMT
<1>. QED BY <1>1, ByteRange, SMT

LEMMA WordBytes ==
  ASSUME NEW c \in Nat, c <= 65535
  PROVE  \E d, m \in Byte : c = 256 * d + m /\ c \div 256 = d /\ c % 256 = m
<1>1. PICK d \in Nat, m \in Byte : c = 256 * d + m /\ c \div 256 = d /\ c % 256 = m
  BY Digit
<1>2. d <= 255
  BY <1>1, ByteRange, SMT
<1>3. d \in Byte
  BY <1>1, <1>2, ByteRange, SMT
<1>. QED BY <1>1, <1>3, SMT

LEMMA ByteSame == \A m \in Byte : m % 256 = m
BY ByteRange, SMT

Mixed(e, n, m) == 65536 * e + 256 * n + m

LEMMA MixedType ==
  ASSUME NEW e \in Byte, NEW n \in Byte, NEW m \in Byte
  PROVE  Mixed(e, n, m) \in Colour
<1>1. Mixed(e, n, m) \in Int /\ 0 <= Mixed(e, n, m) /\ Mixed(e, n, m) <= 16777215
  BY ByteRange, SMT DEF Mixed
<1>. QED BY <1>1, ColourRange, SMT

LEMMA HighByte ==
  ASSUME NEW e \in Int, NEW x \in Int, 0 <= x, x <= 65535
  PROVE  (65536 * e + x) \div 65536 = e
BY SMT

LEMMA MixedHigh ==
  ASSUME NEW e \in Byte, NEW n \in Byte, NEW m \in Byte
  PROVE  Mixed(e, n, m) \div 65536 = e
<1> DEFINE x == 256 * n + m
<1>1. x \in Int /\ 0 <= x /\ x <= 65535
  BY ByteRange, SMT
<1>2. Mixed(e, n, m) = 65536 * e + x
  BY ByteRange, SMT DEF Mixed
<1>3. e \in Int
  BY ByteRange
<1>. HIDE DEF x
<1>. QED BY <1>1, <1>2, <1>3, HighByte, SMT

(* A colour is its red, green and blue. *)
LEMMA ColourBytes ==
  ASSUME NEW c \in Colour
  PROVE  \E e, n, m \in Byte : c = Mixed(e, n, m) /\ Rgb(c) = <<e, n, m>>
<1>1. c \in Nat /\ c <= 16777215
  BY ColourRange, SMT
<1>2. PICK d \in Nat, m \in Byte : c = 256 * d + m /\ c \div 256 = d /\ c % 256 = m
  BY <1>1, Digit, SMT
<1>3. d <= 65535
  BY <1>1, <1>2, ByteRange, SMT
<1>4. PICK e, n \in Byte : d = 256 * e + n /\ d \div 256 = e /\ d % 256 = n
  BY <1>2, <1>3, WordBytes, SMT
<1>5. c = Mixed(e, n, m)
  BY <1>2, <1>4, ByteRange, SMT DEF Mixed
<1>6. c \div 65536 = e
  BY <1>2, <1>4, <1>5, MixedHigh, SMT
<1>7. c % 256 = m /\ (c \div 256) % 256 = n /\ (c \div 65536) % 256 = e
  BY <1>2, <1>4, <1>6, ByteSame, SMT
<1>8. Rgb(c) = <<e, n, m>>
  BY <1>7, SMT DEF Rgb
<1>. QED BY <1>2, <1>4, <1>5, <1>8, Zenon

(* An erased word is sent as white. *)
LEMMA ErasedBytes == Rgb(-1) = <<255, 255, 255>>
<1>1. \A k, q, r \in Int : k = 256 * q + r /\ 0 <= r /\ r < 256 => k \div 256 = q /\ k % 256 = r
  BY SMT
<1>2. \A k, q, r \in Int : k = 65536 * q + r /\ 0 <= r /\ r < 65536 => k \div 65536 = q
  BY SMT
<1> DEFINE k == -1
<1>3. k \in Int /\ k = 256 * k + 255 /\ k = 65536 * k + 65535
  BY SMT
<1>. HIDE DEF k
<1>4. k \div 256 = k /\ k % 256 = 255
  BY <1>1, <1>3, SMT
<1>5. k \div 65536 = k
  BY <1>2, <1>3, SMT
<1>6. Rgb(k) = <<255, 255, 255>>
  BY <1>4, <1>5, SMT DEF Rgb
<1>. QED BY <1>6, SMT DEF k

LEMMA ByteSeq ==
  ASSUME NEW n \in Nat, NEW v \in [1 .. n -> Byte]
  PROVE  v \in Seq(Int) /\ Len(v) = n
<1>1. \A i \in 1 .. n : v[i] \in Int
  <2>1. \A i \in 1 .. n : v[i] \in Byte
    BY Zenon
  <2>2. \A c \in Byte : c \in Int
    BY ByteRange
  <2>. QED BY <2>1, <2>2, Zenon
<1>2. v = [i \in 1 .. n |-> v[i]]
  OBVIOUS
<1>3. [i \in 1 .. n |-> v[i]] \in [1 .. n -> Int]
  BY <1>1
<1>4. v \in [1 .. n -> Int]
  BY <1>2, <1>3
<1>. QED BY <1>4

(* Fields of one byte travel as they are. *)
LEMMA OneByteFields ==
  ASSUME NEW n \in Nat, NEW v \in [1 .. n -> Byte], NEW d, d.width = 1
  PROVE  NumbersToBin(d, v) = v /\ NumbersFromBin(d, v) = v
<1>1. Len(v) = n
  BY ByteSeq
<1>2. [i \in 1 .. n |-> v[i]] = v
  OBVIOUS
<1>3. [i \in 1 .. n |-> v[i] % 256] = [i \in 1 .. n |-> v[i]]
  BY ByteSame
<1>4. NumbersToBin(d, v) = [i \in 1 .. n |-> v[i] % 256]
  <2>1. 1 * Len(v) = n
    BY <1>1
  <2>. QED BY <2>1 DEF NumbersToBin
<1>5. NumbersFromBin(d, v) = [k \in 1 .. n |-> v[k]]
  <2>1. Len(v) \div 1 = n
    BY <1>1
  <2>. QED BY <2>1 DEF NumbersFromBin
<1>. QED BY <1>2, <1>3, <1>4, <1>5

LEMMA ThreeAndThree ==
  ASSUME NEW a \in Int, NEW b \in Int, NEW c \in Int, NEW d \in Int, NEW e \in Int, NEW f \in Int
  PROVE  <<a, b, c>> \o <<d, e, f>> = <<a, b, c, d, e, f>>
<1> DEFINE x == <<a, b, c>>
           y == <<d, e, f>>
<1>1. /\ x \in Seq(Int) /\ y \in Seq(Int) /\ Len(x) = 3 /\ Len(y) = 3
      /\ x[1] = a /\ x[2] = b /\ x[3] = c /\ y[1] = d /\ y[2] = e /\ y[3] = f
  OBVIOUS
<1>. HIDE DEF x, y
<1>2. x \o y = [i \in 1 .. 6 |-> IF i <= 3 THEN x[i] ELSE y[i - 3]]
  <2>1. /\ x \o y \in Seq(Int) /\ Len(x \o y) = Len(x) + Len(y)
        /\ \A i \in 1 .. Len(x) + Len(y) : (x \o y)[i] = IF i <= Len(x) THEN x[i] ELSE y[i - Len(x)]
    BY <1>1, ConcatProperties, Zenon
  <2>2. Len(x) + Len(y) = 6
    BY <1>1
  <2> DEFINE s == x \o y
  <2>3. s \in Seq(Int) /\ Len(s) = 6 /\ \A i \in 1 .. 6 : s[i] = IF i <= 3 THEN x[i] ELSE y[i - 3]
    BY <1>1, <2>1, <2>2, Zenon
  <2>. HIDE DEF s
  <2>4. s = [i \in 1 .. 6 |-> s[i]]
    BY <2>3
  <2>5. s = [i \in 1 .. 6 |-> IF i <= 3 THEN x[i] ELSE y[i - 3]]
    BY <2>3, <2>4
  <2>. QED BY <2>5 DEF s
<1>3. <<a, b, c, d, e, f>> = [i \in 1 .. 6 |-> IF i <= 3 THEN x[i] ELSE y[i - 3]]
  <2> DEFINE s == <<a, b, c, d, e, f>>
  <2>1. s \in Seq(Int) /\ Len(s) = 6 /\ \A i \in 1 .. 6 : s[i] = IF i <= 3 THEN x[i] ELSE y[i - 3]
    BY <1>1
  <2>. HIDE DEF s
  <2>2. s = [i \in 1 .. 6 |-> s[i]]
    BY <2>1
  <2>3. s = [i \in 1 .. 6 |-> IF i <= 3 THEN x[i] ELSE y[i - 3]]
    BY <2>1, <2>2
  <2>. QED BY <2>3 DEF s
<1>. QED BY <1>2, <1>3 DEF x, y

--------------------------------------------------------------------------------
(* The five writable properties that are kept in flash *)

Kept == {"offset", "minimum_rotation", "motion", "ir_threshold", "color"}

Threshold == 0 .. 1024

LEMMA ThresholdRange == \A m : m \in Threshold <=> m \in Int /\ 0 <= m /\ m <= 1024
BY SMT DEF Threshold

(* What a module has once a request was taken, and in an erased sector. *)
Settings ==
  CASE prop = "offset"           -> [1 .. 1 -> Byte]
    [] prop = "minimum_rotation" -> {v \in [1 .. 1 -> Byte] : v[1] <= SymbolCnt}
    [] prop = "motion"           -> {v \in [1 .. 4 -> Byte] : v[1] >= 35 /\ v[2] <= 200}
    [] prop = "ir_threshold"     -> {v \in [1 .. 2 -> Threshold] : v[1] < v[2]}
    [] prop = "color"            -> [1 .. 2 -> Colour]

Sector ==
  CASE prop \in {"offset", "minimum_rotation"} -> <<255>>
    [] prop = "motion"                         -> <<255, 255, 255, 255>>
    [] prop = "ir_threshold"                   -> <<FullWord, FullWord>>
    [] prop = "color"                          -> <<-1, -1>>

(* What the controller may have to send: accepted or read. *)
Sent ==
  CASE prop \in {"offset", "minimum_rotation"} -> [1 .. 1 -> Byte]
    [] prop = "motion"                         -> [1 .. 4 -> Byte]
    [] prop = "ir_threshold" -> {v \in [1 .. 2 -> Threshold] : v[1] < v[2]} \cup {<<-1, -1>>}
    [] prop = "color"                          -> [1 .. 6 -> Byte]

Configured == Settings \cup {Sector}

Answers == {AlreadySet, Declined} \cup {Taken(c) : c \in Configured}

(* What holds of the two programs' conversions for one property. *)
AcceptedIsSent ==
  \A json \in Json : FromJson(json) # None => FromJson(json) \in Sent

SetKeepsLimits == \A v \in Sent, moving \in BOOLEAN : NodeSet(ToBin(v), moving) \in Answers

AcceptedIsMeant ==
  \A json \in Json, moving \in BOOLEAN :
    FromJson(json) # None =>
      /\ NodeSet(ToBin(FromJson(json)), FALSE).ok
      /\ NodeSet(ToBin(FromJson(json)), moving).ok =>
           NodeSet(ToBin(FromJson(json)), moving).config \in {Meant(json), Sector}

GetIsSent == FromBin(NodeGet) \in Sent

GetIsShown == config \in Settings => ToJson(FromBin(NodeGet)) = config

SameIsSilent ==
  \A v \in Sent, moving \in BOOLEAN :
    config \in Settings /\ ToBin(v) = NodeGet =>
      NodeSet(ToBin(v), moving) \in {AlreadySet, Declined}

Conversions ==
  /\ AcceptedIsSent /\ SetKeepsLimits /\ AcceptedIsMeant
  /\ GetIsSent /\ GetIsShown /\ SameIsSilent

LEMMA AnswerKinds ==
  ASSUME NEW c \in Configured
  PROVE  AlreadySet \in Answers /\ Declined \in Answers /\ Taken(c) \in Answers
BY Zenon DEF Answers

LEMMA AnswerParts ==
  /\ AlreadySet.ok = TRUE /\ AlreadySet.config = config /\ AlreadySet.store = store
  /\ Declined.ok = FALSE /\ Declined.config = config /\ Declined.store = store
  /\ \A c : Taken(c).ok = TRUE /\ Taken(c).config = c /\ Taken(c).store = TRUE
BY DEF AlreadySet, Declined, Taken

LEMMA Singles == \A a : a \in Byte => <<a>> \in [1 .. 1 -> Byte]
OBVIOUS

LEMMA OneByte ==
  ASSUME NEW v \in [1 .. 1 -> Byte]
  PROVE  v[1] \in Byte /\ v = <<v[1]>> /\ Len(v) = 1
<1>1. v[1] \in Byte /\ DOMAIN v = 1 .. 1
  OBVIOUS
<1>. QED BY <1>1, ByteSeq

LEMMA ByteWide ==
  ASSUME NEW n \in Nat, prop \in DOMAIN Numeric, Numeric[prop].width = 1
  PROVE  \A v \in [1 .. n -> Byte] : ToBin(v) = v /\ FromBin(v) = v
<1>1. \A v \in [1 .. n -> Byte] :
        NumbersToBin(Numeric[prop], v) = v /\ NumbersFromBin(Numeric[prop], v) = v
  BY OneByteFields, Zenon
<1>2. ASSUME NEW v
      PROVE  ToBin(v) = NumbersToBin(Numeric[prop], v) /\ FromBin(v) = NumbersFromBin(Numeric[prop], v)
  <2>1. prop \in {"offset", "minimum_rotation", "motion", "ir_threshold"}
    BY DEF Numeric
  <2> DEFINE d == Numeric[prop]
             words == prop \in DOMAIN Numeric
  <2>2. words /\ prop # "firmware_version" /\ prop # "module_info"
    BY <2>1
  <2>. HIDE DEF d
  <2>. QED BY <2>2 DEF ToBin, FromBin, d
<1>. QED BY <1>1, <1>2, Zenon

LEMMA AnswersOf ==
  ASSUME NEW r, NEW c \in Configured, r \in {AlreadySet, Declined, Taken(c)}
  PROVE  r \in Answers
BY AnswerKinds

LEMMA OffsetConversions ==
  ASSUME prop = "offset", config \in Configured
  PROVE  Conversions
<1>1. /\ Settings = [1 .. 1 -> Byte] /\ Sector = <<255>> /\ Sent = [1 .. 1 -> Byte]
      /\ prop \in DOMAIN Numeric /\ Numeric[prop] = Offset
  BY DEF Settings, Sector, Sent, Numeric
<1>2. Sector \in Settings /\ Configured = Settings /\ config \in [1 .. 1 -> Byte]
  <2>1. 255 \in Byte
    BY ByteRange
  <2>2. Sector \in Settings
    BY <1>1, <2>1, Singles
  <2>. QED BY <1>1, <2>2 DEF Configured
<1>3. \A v \in Sent : ToBin(v) = v /\ FromBin(v) = v
  <2>1. Numeric[prop].width = 1
    BY <1>1 DEF Offset
  <2>. QED BY <1>1, <2>1, ByteWide
<1>4. NodeGet = config /\ FromBin(NodeGet) = config
  <2>1. NodeGet = config
    BY DEF NodeGet
  <2>. QED BY <1>1, <1>2, <1>3, <2>1
<1>5. \A bin, moving : NodeSet(bin, moving) = OffsetSet(bin, moving)
  BY DEF NodeSet
<1>6. ASSUME NEW json \in Json, FromJson(json) # None
      PROVE  FromJson(json) = json /\ json \in Sent /\ Meant(json) = json
  <2>1. PICK n \in Numbers : json = <<n>>
    BY <1>6 DEF Json
  <2>2. FromJson(json) = NumbersFromJson(Offset, json)
    BY <1>1 DEF FromJson
  <2>3. FromJson(json) = json /\ \A i \in DOMAIN json : json[i] \in 0 .. 255
    BY <1>6, <2>2 DEF NumbersFromJson, Offset
  <2>4. json \in [1 .. 1 -> Byte]
    BY <2>1, <2>3, Singles DEF Byte
  <2>. QED BY <1>1, <2>3, <2>4 DEF Meant
<1>7. AcceptedIsSent
  BY <1>6 DEF AcceptedIsSent
<1>8. \A v \in Sent, moving \in BOOLEAN : 
        /\ OffsetSet(v, moving) \in {AlreadySet, Declined, Taken(v)}
        /\ OffsetSet(v, moving) = Declined => moving
        /\ OffsetSet(v, moving) = AlreadySet => config = v
        /\ config = v => OffsetSet(v, moving) = AlreadySet
  BY AnswerParts DEF OffsetSet
<1>9. SetKeepsLimits
  <2>1. \A v \in Sent, moving \in BOOLEAN : OffsetSet(v, moving) \in Answers
    BY <1>1, <1>2, <1>8, AnswersOf
  <2>. QED BY <1>3, <1>5, <2>1 DEF SetKeepsLimits
<1>10. AcceptedIsMeant
  <2>1. ASSUME NEW json \in Json, NEW moving \in BOOLEAN, FromJson(json) # None
        PROVE  /\ OffsetSet(json, FALSE).ok
               /\ OffsetSet(json, moving).ok => OffsetSet(json, moving).config = Meant(json)
    BY <1>6, <1>8, <2>1, AnswerParts
  <2>. QED BY <1>3, <1>5, <1>6, <2>1 DEF AcceptedIsMeant
<1>11. GetIsSent
  BY <1>1, <1>2, <1>4 DEF GetIsSent
<1>12. GetIsShown
  BY <1>4 DEF GetIsShown, ToJson
<1>13. SameIsSilent
  BY <1>3, <1>4, <1>5, <1>8 DEF SameIsSilent
<1>. QED BY <1>7, <1>9, <1>10, <1>11, <1>12, <1>13 DEF Conversions

(* A property of single bytes that a module limits and takes. *)
LEMMA LimitedConversions ==
  ASSUME NEW n \in Nat, config \in Configured,
         prop \in DOMAIN Numeric, Numeric[prop].width = 1, Numeric[prop].top = 255, ~Numeric[prop].rising,
         Sent = [1 .. n -> Byte], Configured \subseteq Sent,
         \A v \in Sent : Meant(v) \in Settings,
         \A v \in Settings : Meant(v) = v,
         \A v \in Sent, moving \in BOOLEAN :
           NodeSet(v, moving) = IF config = v THEN AlreadySet ELSE Taken(Meant(v)),
         NodeGet = config, \A v : ToJson(v) = v,
         \A json \in Json : (\A i \in DOMAIN json : json[i] \in Byte) => json \in Sent
  PROVE  Conversions
<1>1. \A v \in Sent : ToBin(v) = v /\ FromBin(v) = v
  BY ByteWide
<1>2. \A c \in Settings : c \in Configured
  BY DEF Configured
<1>3. config \in Settings \/ config = Sector
  BY DEF Configured
<1>4. \A v \in Sent, moving \in BOOLEAN : NodeSet(v, moving) \in {AlreadySet, Declined, Taken(Meant(v))}
  OBVIOUS
<1>5. \A v \in Sent, moving \in BOOLEAN :
        /\ NodeSet(v, moving).ok
        /\ NodeSet(v, moving).config \in {Meant(v), Sector}
  <2> SUFFICES ASSUME NEW v \in Sent, NEW moving \in BOOLEAN
               PROVE  NodeSet(v, moving).ok /\ NodeSet(v, moving).config \in {Meant(v), Sector}
    OBVIOUS
  <2>1. CASE config = v
    <3>1. NodeSet(v, moving) = AlreadySet /\ v \in {Meant(v), Sector}
      BY <1>3, <2>1
    <3>. QED BY <2>1, <3>1, AnswerParts
  <2>2. CASE config # v
    <3>1. NodeSet(v, moving) = Taken(Meant(v))
      BY <2>2
    <3>. QED BY <3>1, AnswerParts
  <2>. QED BY <2>1, <2>2
<1>6. ASSUME NEW json \in Json, FromJson(json) # None
      PROVE  FromJson(json) = json /\ json \in Sent
  <2>1. FromJson(json) = NumbersFromJson(Numeric[prop], json)
    BY DEF FromJson, Numeric
  <2>2. FromJson(json) = json /\ \A i \in DOMAIN json : json[i] \in 0 .. Numeric[prop].top
    BY <1>6, <2>1 DEF NumbersFromJson
  <2>3. \A i \in DOMAIN json : json[i] \in Byte
    BY <2>2, Zenon DEF Byte
  <2>. QED BY <2>2, <2>3
<1>7. AcceptedIsSent
  BY <1>6 DEF AcceptedIsSent
<1>8. SetKeepsLimits
  <2>1. \A v \in Sent, moving \in BOOLEAN : NodeSet(v, moving) \in Answers
    BY <1>2, <1>4, AnswersOf
  <2>. QED BY <1>1, <2>1 DEF SetKeepsLimits
<1>9. AcceptedIsMeant
  <2>1. ASSUME NEW json \in Json, NEW moving \in BOOLEAN, FromJson(json) # None
        PROVE  /\ NodeSet(ToBin(FromJson(json)), FALSE).ok
               /\ NodeSet(ToBin(FromJson(json)), moving).ok =>
                    NodeSet(ToBin(FromJson(json)), moving).config \in {Meant(json), Sector}
    <3>1. ToBin(FromJson(json)) = json /\ json \in Sent
      BY <1>1, <1>6, <2>1
    <3>2. NodeSet(json, FALSE).ok /\ NodeSet(json, moving).config \in {Meant(json), Sector}
      BY <1>5, <3>1
    <3>. QED BY <3>1, <3>2
  <2>. QED BY <2>1 DEF AcceptedIsMeant
<1>10. GetIsSent
  BY <1>1 DEF GetIsSent
<1>11. GetIsShown
  BY <1>1 DEF GetIsShown
<1>12. SameIsSilent
  BY <1>1 DEF SameIsSilent
<1>. QED BY <1>7, <1>8, <1>9, <1>10, <1>11, <1>12 DEF Conversions

LEMMA RotationConversions ==
  ASSUME prop = "minimum_rotation", config \in Configured
  PROVE  Conversions
<1>1. /\ Settings = {v \in [1 .. 1 -> Byte] : v[1] <= SymbolCnt} /\ Sector = <<255>>
      /\ Sent = [1 .. 1 -> Byte]
      /\ prop \in DOMAIN Numeric /\ Numeric[prop] = MinimumRotation
  BY DEF Settings, Sector, Sent, Numeric
<1>2. Numeric[prop].width = 1 /\ Numeric[prop].top = 255 /\ ~Numeric[prop].rising
  BY <1>1 DEF MinimumRotation
<1>3. Configured \subseteq Sent
  <2>1. 255 \in Byte
    BY ByteRange
  <2>2. Sector \in Sent
    BY <1>1, <2>1, Singles
  <2>. QED BY <1>1, <2>2 DEF Configured
<1>4. SymbolCnt \in Byte
  <2>1. SymbolCnt \in 1 .. 255
    BY PathAssumption, Zenon DEF PathAssumption
  <2>2. SymbolCnt \in Int /\ 0 <= SymbolCnt /\ SymbolCnt <= 255
    BY <2>1
  <2>. QED BY <2>2, ByteRange
<1>5. ASSUME NEW v \in Sent
      PROVE  Meant(v) = <<Least(v[1], SymbolCnt)>> /\ Meant(v) \in Settings
  <2>1. v[1] \in Byte
    BY <1>1
  <2>2. Meant(v) = <<Least(v[1], SymbolCnt)>>
    BY DEF Meant
  <2>3. Least(v[1], SymbolCnt) \in Byte /\ Least(v[1], SymbolCnt) <= SymbolCnt
    BY <1>4, <2>1, ByteRange DEF Least
  <2> DEFINE a == Least(v[1], SymbolCnt)
  <2>. HIDE DEF a
  <2>4. <<a>> \in [1 .. 1 -> Byte] /\ <<a>>[1] = a /\ a <= SymbolCnt
    BY <2>3, Singles DEF a
  <2>5. <<a>> \in Settings
    BY <1>1, <2>4
  <2>. QED BY <2>2, <2>5 DEF a
<1>6. ASSUME NEW v \in Settings
      PROVE  Meant(v) = v
  <2>1. v[1] \in Byte /\ v = <<v[1]>> /\ v[1] <= SymbolCnt /\ v \in Sent
    BY <1>1, OneByte
  <2>2. Least(v[1], SymbolCnt) = v[1]
    BY <2>1, <1>4, ByteRange DEF Least
  <2>. QED BY <1>5, <2>1, <2>2
<1>7. \A v \in Sent, moving \in BOOLEAN :
        NodeSet(v, moving) = IF config = v THEN AlreadySet ELSE Taken(Meant(v))
  BY <1>5 DEF NodeSet, MinimumRotationSet
<1>8. NodeGet = config /\ \A v : ToJson(v) = v
  BY DEF NodeGet, ToJson
<1>9. \A json \in Json : (\A i \in DOMAIN json : json[i] \in Byte) => json \in Sent
  BY <1>1, Singles DEF Json
<1>10. \A v \in Sent : Meant(v) \in Settings
  BY <1>5
<1>11. \A v \in Settings : Meant(v) = v
  BY <1>6
<1>. QED BY <1>1, <1>2, <1>3, <1>7, <1>8, <1>9, <1>10, <1>11, LimitedConversions

LEMMA Fours == \A a, b, c, d \in Byte : <<a, b, c, d>> \in [1 .. 4 -> Byte]
OBVIOUS

LEMMA FourBytes ==
  ASSUME NEW v \in [1 .. 4 -> Byte]
  PROVE  /\ v[1] \in Byte /\ v[2] \in Byte /\ v[3] \in Byte /\ v[4] \in Byte
         /\ v = <<v[1], v[2], v[3], v[4]>> /\ Len(v) = 4
<1>1. Len(v) = 4 /\ v \in Seq(Int)
  BY ByteSeq
<1>2. v[1] \in Byte /\ v[2] \in Byte /\ v[3] \in Byte /\ v[4] \in Byte
  OBVIOUS
<1>3. v = <<v[1], v[2], v[3], v[4]>>
  BY <1>1
<1>. QED BY <1>1, <1>2, <1>3

LEMMA MotionConversions ==
  ASSUME prop = "motion", config \in Configured
  PROVE  Conversions
<1>1. /\ Settings = {v \in [1 .. 4 -> Byte] : v[1] >= 35 /\ v[2] <= 200}
      /\ Sector = <<255, 255, 255, 255>> /\ Sent = [1 .. 4 -> Byte]
      /\ prop \in DOMAIN Numeric /\ Numeric[prop] = Motion
  BY DEF Settings, Sector, Sent, Numeric
<1>2. Numeric[prop].width = 1 /\ Numeric[prop].top = 255 /\ ~Numeric[prop].rising
  BY <1>1 DEF Motion
<1>3. Configured \subseteq Sent
  <2>1. 255 \in Byte
    BY ByteRange
  <2>2. Sector \in Sent
    BY <1>1, <2>1, Fours
  <2>. QED BY <1>1, <2>2 DEF Configured
<1>5. ASSUME NEW v \in Sent
      PROVE  /\ Meant(v) = <<Greatest(v[1], 35), Least(v[2], 200), v[3], v[4]>>
             /\ Meant(v) \in Settings
  <2>1. v[1] \in Byte /\ v[2] \in Byte /\ v[3] \in Byte /\ v[4] \in Byte
    BY <1>1, FourBytes
  <2>2. Meant(v) = <<Greatest(v[1], 35), Least(v[2], 200), v[3], v[4]>>
    BY DEF Meant
  <2> DEFINE a == Greatest(v[1], 35)
             b == Least(v[2], 200)
             w == <<a, b, v[3], v[4]>>
  <2>3. a \in Byte /\ a >= 35 /\ b \in Byte /\ b <= 200
    BY <2>1, ByteRange DEF Greatest, Least
  <2>. HIDE DEF a, b
  <2>4. w \in [1 .. 4 -> Byte] /\ w[1] = a /\ w[2] = b
    BY <2>1, <2>3, Fours
  <2>. HIDE DEF w
  <2>5. w \in Settings
    BY <1>1, <2>3, <2>4
  <2>. QED BY <2>2, <2>5 DEF a, b, w
<1>6. ASSUME NEW v \in Settings
      PROVE  Meant(v) = v
  <2>1. v \in [1 .. 4 -> Byte] /\ v[1] >= 35 /\ v[2] <= 200
    BY <1>1
  <2>2. v[1] \in Byte /\ v[2] \in Byte /\ v = <<v[1], v[2], v[3], v[4]>> /\ v \in Sent
    BY <1>1, <2>1, FourBytes
  <2>3. Greatest(v[1], 35) = v[1] /\ Least(v[2], 200) = v[2]
    BY <2>1, <2>2, ByteRange DEF Greatest, Least
  <2>4. Meant(v) = <<Greatest(v[1], 35), Least(v[2], 200), v[3], v[4]>>
    BY <1>5, <2>2
  <2>. QED BY <2>2, <2>3, <2>4
<1>7. \A v \in Sent, moving \in BOOLEAN :
        NodeSet(v, moving) = IF config = v THEN AlreadySet ELSE Taken(Meant(v))
  BY <1>5 DEF NodeSet, MotionSet
<1>8. NodeGet = config /\ \A v : ToJson(v) = v
  BY DEF NodeGet, ToJson
<1>9. \A json \in Json : (\A i \in DOMAIN json : json[i] \in Byte) => json \in Sent
  <2>1. Json = Numbers \X Numbers \X Ramps \X Ramps
    BY DEF Json
  <2>2. ASSUME NEW json \in Json, \A i \in DOMAIN json : json[i] \in Byte
        PROVE  json \in Sent
    <3>1. /\ json = <<json[1], json[2], json[3], json[4]>> /\ DOMAIN json = 1 .. 4
      BY <2>1
    <3>2. json[1] \in Byte /\ json[2] \in Byte /\ json[3] \in Byte /\ json[4] \in Byte
      BY <2>2, <3>1
    <3>3. <<json[1], json[2], json[3], json[4]>> \in [1 .. 4 -> Byte]
      BY <3>2, Fours
    <3>. QED BY <1>1, <3>1, <3>3
  <2>. QED BY <2>2
<1>10. \A v \in Sent : Meant(v) \in Settings
  BY <1>5
<1>11. \A v \in Settings : Meant(v) = v
  BY <1>6
<1>12. prop \in DOMAIN Numeric /\ Sent = [1 .. 4 -> Byte] /\ 4 \in Nat
  BY <1>1
<1>. QED BY <1>12, <1>2, <1>3, <1>7, <1>8, <1>9, <1>10, <1>11, LimitedConversions

(* Thresholds: the bytes of two words, and the words joined again. *)
HighOf(a) == (a \div 256) % 256
LowOf(a) == a % 256
Bytes(v) == <<HighOf(v[1]), LowOf(v[1]), HighOf(v[2]), LowOf(v[2])>>
Joined(v) == <<256 * HighOf(v[1]) + LowOf(v[1]), 256 * HighOf(v[2]) + LowOf(v[2])>>

LEMMA WordOf ==
  ASSUME NEW a \in Threshold
  PROVE  256 * HighOf(a) + LowOf(a) = a /\ Signed16(a) = a
<1>1. a \in Nat /\ a <= 1024
  BY ThresholdRange, SMT
<1>2. PICK d, m \in Byte : a = 256 * d + m /\ a \div 256 = d /\ a % 256 = m
  BY <1>1, WordBytes, SMT
<1>3. HighOf(a) = d /\ LowOf(a) = m
  BY <1>2, ByteSame, SMT DEF HighOf, LowOf
<1>4. Signed16(a) = a
  BY <1>1, SMT DEF Signed16
<1>. QED BY <1>2, <1>3, <1>4, SMT

LEMMA ErasedWord ==
  /\ HighOf(-1) = 255 /\ LowOf(-1) = 255 /\ HighOf(FullWord) = 255 /\ LowOf(FullWord) = 255
  /\ Signed16(FullWord) = -1
<1>1. \A k, q, r \in Int : k = 256 * q + r /\ 0 <= r /\ r < 256 => k \div 256 = q /\ k % 256 = r
  BY SMT
<1> DEFINE k == -1
<1>2. k \in Int /\ k = 256 * k + 255
  BY SMT
<1>. HIDE DEF k
<1>3. k \div 256 = k /\ k % 256 = 255
  BY <1>1, <1>2, SMT
<1>4. HighOf(k) = 255 /\ LowOf(k) = 255
  BY <1>3, SMT DEF HighOf, LowOf
<1>5. FullWord \div 256 = 255 /\ FullWord % 256 = 255 /\ 255 % 256 = 255
  BY SMT DEF FullWord
<1>6. HighOf(FullWord) = 255 /\ LowOf(FullWord) = 255
  BY <1>5, SMT DEF HighOf, LowOf
<1>7. Signed16(FullWord) = -1
  BY SMT DEF Signed16, FullWord
<1>. QED BY <1>4, <1>6, <1>7, SMT DEF k

LEMMA TwoWords ==
  ASSUME NEW v, NEW d, d.width = 2, Len(v) = 2
  PROVE  NumbersToBin(d, v) = Bytes(v)
<1>1. d.width * Len(v) = 4
  OBVIOUS
<1>2. NumbersToBin(d, v) =
        [i \in 1 .. 4 |-> IF i % 2 = 1 THEN (v[(i + 1) \div 2] \div 256) % 256 ELSE v[i \div 2] % 256]
  BY <1>1 DEF NumbersToBin
<1>3. Bytes(v) = [i \in 1 .. 4 |-> Bytes(v)[i]]
  BY DEF Bytes
<1>4. /\ Bytes(v)[1] = (v[1] \div 256) % 256 /\ Bytes(v)[2] = v[1] % 256
      /\ Bytes(v)[3] = (v[2] \div 256) % 256 /\ Bytes(v)[4] = v[2] % 256
  BY DEF Bytes, HighOf, LowOf
<1>5. \A i \in 1 .. 4 :
        Bytes(v)[i] = IF i % 2 = 1 THEN (v[(i + 1) \div 2] \div 256) % 256 ELSE v[i \div 2] % 256
  <2>1. \A i \in 1 .. 4 : i = 1 \/ i = 2 \/ i = 3 \/ i = 4
    OBVIOUS
  <2>2. /\ 1 % 2 = 1 /\ 2 % 2 = 0 /\ 3 % 2 = 1 /\ 4 % 2 = 0
        /\ (1 + 1) \div 2 = 1 /\ 2 \div 2 = 1 /\ (3 + 1) \div 2 = 2 /\ 4 \div 2 = 2
    BY SMT
  <2>. QED BY <1>4, <2>1, <2>2
<1>. QED BY <1>2, <1>3, <1>5

LEMMA FourFromBin ==
  ASSUME NEW a \in Int, NEW b \in Int, NEW c \in Int, NEW e \in Int, NEW d, d.width = 2
  PROVE  NumbersFromBin(d, <<a, b, c, e>>) = <<Signed16(256 * a + b), Signed16(256 * c + e)>>
<1> DEFINE bin == <<a, b, c, e>>
<1>1. Len(bin) \div d.width = 2
  BY SMT
<1>2. bin[1] = a /\ bin[2] = b /\ bin[3] = c /\ bin[4] = e
  OBVIOUS
<1>. HIDE DEF bin
<1>3. NumbersFromBin(d, bin) = [k \in 1 .. 2 |-> Signed16(256 * bin[2 * k - 1] + bin[2 * k])]
  BY <1>1 DEF NumbersFromBin
<1> DEFINE res == [k \in 1 .. 2 |-> Signed16(256 * bin[2 * k - 1] + bin[2 * k])]
<1>4. res[1] = Signed16(256 * a + b) /\ res[2] = Signed16(256 * c + e)
  <2>1. 2 * 1 - 1 = 1 /\ 2 * 1 = 2 /\ 2 * 2 - 1 = 3 /\ 2 * 2 = 4
    OBVIOUS
  <2>2. \A k \in 1 .. 2 : res[k] = Signed16(256 * bin[2 * k - 1] + bin[2 * k])
    OBVIOUS
  <2>. QED BY <1>2, <2>1, <2>2
<1>5. res = <<res[1], res[2]>>
  OBVIOUS
<1>. QED BY <1>3, <1>4, <1>5 DEF bin

LEMMA Pairs ==
  ASSUME NEW S, NEW v \in [1 .. 2 -> S]
  PROVE  v[1] \in S /\ v[2] \in S /\ v = <<v[1], v[2]>> /\ Len(v) = 2
<1>1. v[1] \in S /\ v[2] \in S /\ v \in Seq(S)
  OBVIOUS
<1>2. Len(v) = 2
  OBVIOUS
<1>3. v = <<v[1], v[2]>>
  BY <1>1, <1>2
<1>. QED BY <1>1, <1>2, <1>3

LEMMA PairIn == \A S : \A a, b \in S : <<a, b>> \in [1 .. 2 -> S]
OBVIOUS

LEMMA ThresholdConversions ==
  ASSUME prop = "ir_threshold", config \in Configured
  PROVE  Conversions
<1> DEFINE rising == {v \in [1 .. 2 -> Threshold] : v[1] < v[2]}
           unset == <<-1, -1>>
<1>1. /\ Settings = rising /\ Sector = <<FullWord, FullWord>> /\ Sent = rising \cup {unset}
      /\ prop \in DOMAIN Numeric /\ Numeric[prop] = IrThreshold
  BY DEF Settings, Sector, Sent, Numeric
<1>2. /\ IrThreshold.width = 2 /\ IrThreshold.top = 1024 /\ IrThreshold.rising
  BY DEF IrThreshold
<1>3. ASSUME NEW v \in rising
      PROVE  /\ v[1] \in Threshold /\ v[2] \in Threshold /\ v = <<v[1], v[2]>> /\ v[1] < v[2]
             /\ Len(v) = 2 /\ Joined(v) = v
  <2>1. v[1] \in Threshold /\ v[2] \in Threshold /\ v = <<v[1], v[2]>> /\ v[1] < v[2] /\ Len(v) = 2
    BY Pairs
  <2>2. Joined(v) = <<v[1], v[2]>>
    BY <2>1, WordOf DEF Joined
  <2>. QED BY <2>1, <2>2
<1>4. /\ Len(unset) = 2 /\ Len(Sector) = 2 /\ Joined(unset) = Sector /\ Joined(Sector) = Sector
      /\ Bytes(Sector) = <<255, 255, 255, 255>>
  <2>1. unset[1] = -1 /\ unset[2] = -1 /\ Sector[1] = FullWord /\ Sector[2] = FullWord
        /\ Len(unset) = 2 /\ Len(Sector) = 2
    BY <1>1
  <2>2. 256 * 255 + 255 = FullWord
    BY SMT DEF FullWord
  <2>3. Joined(unset) = <<FullWord, FullWord>> /\ Joined(Sector) = <<FullWord, FullWord>>
    BY <2>1, <2>2, ErasedWord DEF Joined
  <2>4. Bytes(Sector) = <<255, 255, 255, 255>>
    BY <2>1, ErasedWord DEF Bytes
  <2>. QED BY <1>1, <2>1, <2>3, <2>4
<1>. HIDE DEF rising, unset
<1>5. \A v \in Sent : ToBin(v) = Bytes(v)
  <2>1. \A v \in Sent : Len(v) = 2
    BY <1>1, <1>3, <1>4
  <2>2. \A v \in Sent : NumbersToBin(IrThreshold, v) = Bytes(v)
    BY <1>2, <2>1, TwoWords
  <2>. QED BY <1>1, <2>2 DEF ToBin
<1>6. NodeGet = Bytes(config)
  BY DEF NodeGet, IrThresholdGet, Bytes, HighOf, LowOf
<1>7. \A v, moving :
        NodeSet(Bytes(v), moving) =
          IF config = Joined(v) THEN AlreadySet
          ELSE IF Joined(v)[1] > Joined(v)[2] THEN Declined ELSE Taken(Joined(v))
  <2>1. \A bin, moving : NodeSet(bin, moving) = IrThresholdSet(bin)
    BY DEF NodeSet
  <2>2. \A v : Joined(v) = <<256 * Bytes(v)[1] + Bytes(v)[2], 256 * Bytes(v)[3] + Bytes(v)[4]>>
    BY DEF Joined, Bytes
  <2>. QED BY <2>1, <2>2, Zenon DEF IrThresholdSet
<1>8. \A v \in Sent :
        /\ Joined(v) \in Configured /\ ~(Joined(v)[1] > Joined(v)[2])
        /\ v \in Settings => Joined(v) = v
  <2>1. ASSUME NEW v \in rising
        PROVE  Joined(v) \in Configured /\ ~(Joined(v)[1] > Joined(v)[2]) /\ Joined(v) = v
    <3>1. Joined(v) = v /\ v[1] < v[2] /\ v[1] \in Int /\ v[2] \in Int
      BY <1>3, ThresholdRange
    <3>. QED BY <1>1, <3>1 DEF Configured
  <2>2. Joined(unset) \in Configured /\ ~(Joined(unset)[1] > Joined(unset)[2])
    <3>1. Sector[1] = FullWord /\ Sector[2] = FullWord /\ FullWord \in Nat
      BY <1>1, Nonneg
    <3>2. ~(Sector[1] > Sector[2])
      BY <3>1
    <3>. QED BY <1>4, <3>2 DEF Configured
  <2>3. unset \in Settings => Joined(unset) = unset
    BY <1>1, <2>1
  <2>. QED BY <1>1, <2>1, <2>2, <2>3
<1>9. \A v \in Sent, moving \in BOOLEAN :
        NodeSet(Bytes(v), moving) = IF config = Joined(v) THEN AlreadySet ELSE Taken(Joined(v))
  BY <1>7, <1>8
<1>10. ASSUME NEW json \in Json, FromJson(json) # None
       PROVE  FromJson(json) = json /\ json \in Settings /\ json \in Sent /\ Meant(json) = json
  <2>1. FromJson(json) = NumbersFromJson(IrThreshold, json)
    BY <1>1 DEF FromJson
  <2>2. /\ FromJson(json) = json /\ json[1] < json[2]
        /\ \A i \in DOMAIN json : json[i] \in 0 .. IrThreshold.top
    BY <1>2, <1>10, <2>1 DEF NumbersFromJson
  <2>3. \A i \in DOMAIN json : json[i] \in Threshold
    <3>1. 0 .. IrThreshold.top = Threshold
      BY <1>2, Zenon DEF Threshold
    <3>. QED BY <2>2, <3>1, Zenon
  <2>4. json = <<json[1], json[2]>> /\ DOMAIN json = 1 .. 2
    BY DEF Json
  <2>5. json[1] \in Threshold /\ json[2] \in Threshold
    BY <2>3, <2>4
  <2>6. <<json[1], json[2]>> \in [1 .. 2 -> Threshold]
    BY <2>5, PairIn
  <2>7. json \in Settings
    BY <1>1, <2>2, <2>4, <2>6 DEF rising
  <2>8. Meant(json) = json
    BY DEF Meant
  <2>. QED BY <1>1, <2>2, <2>7, <2>8
<1>11. AcceptedIsSent
  BY <1>10 DEF AcceptedIsSent
<1>12. SetKeepsLimits
  <2>1. \A v \in Sent, moving \in BOOLEAN : NodeSet(Bytes(v), moving) \in Answers
    BY <1>8, <1>9, AnswersOf
  <2>. QED BY <1>5, <2>1 DEF SetKeepsLimits
<1>13. AcceptedIsMeant
  <2>1. ASSUME NEW json \in Json, NEW moving \in BOOLEAN, FromJson(json) # None
        PROVE  /\ NodeSet(ToBin(FromJson(json)), moving).ok
               /\ NodeSet(ToBin(FromJson(json)), moving).config = Meant(json)
    <3>1. /\ ToBin(FromJson(json)) = Bytes(json) /\ json \in Sent
          /\ Joined(json) = json /\ Meant(json) = json
      BY <1>5, <1>8, <1>10, <2>1
    <3>2. NodeSet(Bytes(json), moving) = IF config = json THEN AlreadySet ELSE Taken(json)
      BY <1>9, <3>1
    <3>. QED BY <3>1, <3>2, AnswerParts
  <2>. QED BY <2>1 DEF AcceptedIsMeant
<1>14. FromBin(Bytes(config)) = IF config = Sector THEN unset ELSE config
  <2>1. /\ HighOf(config[1]) \in Int /\ LowOf(config[1]) \in Int
        /\ HighOf(config[2]) \in Int /\ LowOf(config[2]) \in Int
    <3>1. config[1] \in Int /\ config[2] \in Int
      <4>1. CASE config = Sector
        <5>1. config[1] = FullWord /\ config[2] = FullWord
          BY <1>1, <4>1
        <5>. QED BY <5>1, Nonneg
      <4>2. CASE config \in rising
        BY <1>3, <4>2, ThresholdRange
      <4>. QED BY <1>1, <4>1, <4>2 DEF Configured
    <3>. QED BY <3>1, SMT DEF HighOf, LowOf
  <2>2. FromBin(Bytes(config)) = NumbersFromBin(IrThreshold, Bytes(config))
    BY <1>1 DEF FromBin
  <2>3. NumbersFromBin(IrThreshold, Bytes(config)) =
          <<Signed16(256 * HighOf(config[1]) + LowOf(config[1])),
            Signed16(256 * HighOf(config[2]) + LowOf(config[2]))>>
    <3> DEFINE a == HighOf(config[1])
               b == LowOf(config[1])
               c == HighOf(config[2])
               e == LowOf(config[2])
    <3>1. a \in Int /\ b \in Int /\ c \in Int /\ e \in Int
      BY <2>1
    <3>2. Bytes(config) = <<a, b, c, e>>
      BY DEF Bytes
    <3>. HIDE DEF a, b, c, e
    <3>3. NumbersFromBin(IrThreshold, <<a, b, c, e>>) = <<Signed16(256 * a + b), Signed16(256 * c + e)>>
      BY <1>2, <3>1, FourFromBin
    <3>. QED BY <3>2, <3>3 DEF a, b, c, e
  <2>4. CASE config = Sector
    <3>1. config[1] = FullWord /\ config[2] = FullWord
      BY <1>1, <2>4
    <3>2. 256 * 255 + 255 = FullWord
      BY SMT DEF FullWord
    <3>3. NumbersFromBin(IrThreshold, Bytes(config)) = <<-1, -1>>
      BY <2>3, <3>1, <3>2, ErasedWord
    <3>. QED BY <2>2, <2>4, <3>3 DEF unset
  <2>5. CASE config # Sector
    <3>1. config \in rising
      BY <1>1, <2>5 DEF Configured
    <3>2. config[1] \in Threshold /\ config[2] \in Threshold /\ config = <<config[1], config[2]>>
      BY <1>3, <3>1
    <3>3. NumbersFromBin(IrThreshold, Bytes(config)) = <<config[1], config[2]>>
      BY <2>3, <3>2, WordOf
    <3>. QED BY <2>2, <2>5, <3>2, <3>3
  <2>. QED BY <2>4, <2>5
<1>15. GetIsSent
  BY <1>1, <1>6, <1>14 DEF GetIsSent, Configured
<1>16. GetIsShown
  <2>1. ASSUME config \in Settings
        PROVE  config # Sector
    <3>1. config[1] \in Threshold
      BY <1>1, <1>3, <2>1
    <3>2. FullWord \notin Threshold
      BY ThresholdRange, SMT DEF FullWord
    <3>3. Sector[1] = FullWord
      BY <1>1
    <3>. QED BY <3>1, <3>2, <3>3
  <2>2. \A v : ToJson(v) = v
    BY DEF ToJson
  <2>. QED BY <1>6, <1>14, <2>1, <2>2 DEF GetIsShown
<1>17. SameIsSilent
  <2>1. ASSUME NEW v \in Sent, NEW moving \in BOOLEAN, config \in Settings, ToBin(v) = NodeGet
        PROVE  NodeSet(ToBin(v), moving) = AlreadySet
    <3>1. Joined(config) = config
      BY <1>1, <1>3, <2>1
    <3>. QED BY <1>6, <1>7, <2>1, <3>1
  <2>. QED BY <2>1 DEF SameIsSilent
<1>. QED BY <1>11, <1>12, <1>13, <1>15, <1>16, <1>17 DEF Conversions

(* Colours: six bytes joined again. *)
LEMMA Sixes ==
  ASSUME NEW a \in Byte, NEW b \in Byte, NEW c \in Byte, NEW d \in Byte, NEW e \in Byte, NEW f \in Byte
  PROVE  <<a, b, c, d, e, f>> \in [1 .. 6 -> Byte]
OBVIOUS

LEMMA RgbPair ==
  ASSUME NEW x \in Colour, NEW y \in Colour
  PROVE  /\ Rgb(x) \o Rgb(y) \in [1 .. 6 -> Byte]
         /\ Rgb24(Rgb(x) \o Rgb(y), 1) = x /\ Rgb24(Rgb(x) \o Rgb(y), 4) = y
<1>1. PICK a, b, c \in Byte : x = Mixed(a, b, c) /\ Rgb(x) = <<a, b, c>>
  BY ColourBytes
<1>2. PICK d, e, f \in Byte : y = Mixed(d, e, f) /\ Rgb(y) = <<d, e, f>>
  BY ColourBytes
<1>3. a \in Int /\ b \in Int /\ c \in Int /\ d \in Int /\ e \in Int /\ f \in Int
  BY ByteRange
<1>4. Rgb(x) \o Rgb(y) = <<a, b, c, d, e, f>>
  BY <1>1, <1>2, <1>3, ThreeAndThree
<1> DEFINE s == <<a, b, c, d, e, f>>
<1>5. s \in [1 .. 6 -> Byte]
  BY Sixes
<1>6. s[1] = a /\ s[2] = b /\ s[3] = c /\ s[4] = d /\ s[5] = e /\ s[6] = f
  OBVIOUS
<1>. HIDE DEF s
<1>7. Rgb24(s, 1) = Mixed(a, b, c)
  <2>1. 1 + 1 = 2 /\ 1 + 2 = 3
    OBVIOUS
  <2>. QED BY <1>6, <2>1, SMT DEF Rgb24, Mixed
<1>8. Rgb24(s, 4) = Mixed(d, e, f)
  <2>1. 4 + 1 = 5 /\ 4 + 2 = 6
    OBVIOUS
  <2>. QED BY <1>6, <2>1, SMT DEF Rgb24, Mixed
<1>9. Rgb(x) \o Rgb(y) = s
  BY <1>4 DEF s
<1>. QED BY <1>1, <1>2, <1>5, <1>7, <1>8, <1>9

LEMMA SixToPair ==
  ASSUME NEW v \in [1 .. 6 -> Byte]
  PROVE  <<Rgb24(v, 1), Rgb24(v, 4)>> \in [1 .. 2 -> Colour]
<1>1. /\ v[1] \in Byte /\ v[2] \in Byte /\ v[3] \in Byte
      /\ v[4] \in Byte /\ v[5] \in Byte /\ v[6] \in Byte
  OBVIOUS
<1>2. Mixed(v[1], v[2], v[3]) \in Colour /\ Mixed(v[4], v[5], v[6]) \in Colour
  BY <1>1, MixedType
<1>3. 1 + 1 = 2 /\ 1 + 2 = 3 /\ 4 + 1 = 5 /\ 4 + 2 = 6
  OBVIOUS
<1>4. Rgb24(v, 1) = Mixed(v[1], v[2], v[3])
  BY <1>3, SMT DEF Rgb24, Mixed
<1>5. Rgb24(v, 4) = Mixed(v[4], v[5], v[6])
  BY <1>3, SMT DEF Rgb24, Mixed
<1>. QED BY <1>2, <1>4, <1>5, PairIn

LEMMA ColorConversions ==
  ASSUME prop = "color", config \in Configured
  PROVE  Conversions
<1>1. /\ Settings = [1 .. 2 -> Colour] /\ Sector = <<-1, -1>> /\ Sent = [1 .. 6 -> Byte]
      /\ prop \notin DOMAIN Numeric
  BY DEF Settings, Sector, Sent, Numeric
<1>2. /\ \A v : ToBin(v) = v /\ FromBin(v) = v /\ ToJson(v) = ColorToJson(v)
      /\ NodeGet = Rgb(config[1]) \o Rgb(config[2])
      /\ \A bin, moving : NodeSet(bin, moving) = ColorSet(bin)
      /\ \A json : FromJson(json) = ColorFromJson(json)
  <2>1. \A v : ToBin(v) = v
    BY <1>1 DEF ToBin
  <2>2. \A v : FromBin(v) = v
    BY <1>1 DEF FromBin
  <2>3. \A v : ToJson(v) = ColorToJson(v)
    BY DEF ToJson
  <2>4. NodeGet = Rgb(config[1]) \o Rgb(config[2])
    BY DEF NodeGet, ColorGet
  <2>5. \A bin, moving : NodeSet(bin, moving) = ColorSet(bin)
    BY DEF NodeSet
  <2>6. \A json : FromJson(json) = ColorFromJson(json)
    BY <1>1 DEF FromJson
  <2>. QED BY <2>1, <2>2, <2>3, <2>4, <2>5, <2>6
<1> DEFINE Words(v) == <<Rgb24(v, 1), Rgb24(v, 4)>>
<1>3. \A v \in Sent : Words(v) \in Settings
  BY <1>1, SixToPair
<1>4. \A bin : ColorSet(bin) = IF config = Words(bin) THEN AlreadySet ELSE Taken(Words(bin))
  BY DEF ColorSet
<1>5. \A v : ColorToJson(v) = Words(v)
  BY DEF ColorToJson
<1>. HIDE DEF Words
<1>6. config \in Settings => NodeGet \in Sent /\ Words(NodeGet) = config
  <2>1. ASSUME config \in Settings
        PROVE  NodeGet \in Sent /\ Words(NodeGet) = config
    <3>1. config[1] \in Colour /\ config[2] \in Colour /\ config = <<config[1], config[2]>>
      BY <1>1, <2>1, Pairs
    <3>2. Words(NodeGet) = <<config[1], config[2]>>
      BY <1>2, <3>1, RgbPair DEF Words
    <3>. QED BY <1>1, <1>2, <3>1, <3>2, RgbPair
  <2>. QED BY <2>1
<1>7. config = Sector => NodeGet \in Sent
  <2>1. ASSUME config = Sector
        PROVE  NodeGet \in Sent
    <3>1. config[1] = -1 /\ config[2] = -1
      BY <1>1, <2>1
    <3>2. NodeGet = <<255, 255, 255>> \o <<255, 255, 255>>
      BY <1>2, <3>1, ErasedBytes
    <3>3. 255 \in Byte /\ 255 \in Int
      BY ByteRange
    <3>4. NodeGet = <<255, 255, 255, 255, 255, 255>>
      BY <3>2, <3>3, ThreeAndThree
    <3>. QED BY <1>1, <3>3, <3>4, Sixes
  <2>. QED BY <2>1
<1>8. config \in Settings \/ config = Sector
  BY DEF Configured
<1>9. ASSUME NEW json \in Json, FromJson(json) # None
      PROVE  /\ FromJson(json) \in Sent /\ Words(FromJson(json)) = Meant(json)
  <2> DEFINE Shade(c) == IF c = Blank THEN 0 ELSE c
             x == Shade(json[1])
             y == Shade(json[2])
  <2>1. /\ json[1] \in Colours \cup {NotHex, Blank} /\ json[2] \in Colours \cup {NotHex, Blank}
    BY DEF Json
  <2>2. NotHex \notin {json[1], json[2]} /\ FromJson(json) = JsonToColor(json[1]) \o JsonToColor(json[2])
    BY <1>2, <1>9 DEF ColorFromJson
  <2>3. 0 \in Colour
    BY ColourRange, SMT
  <2>4. Colours \subseteq Colour
    BY PathAssumption, Zenon DEF PathAssumption
  <2>5. x \in Colour /\ y \in Colour
    BY <2>1, <2>2, <2>3, <2>4
  <2>6. \A c : JsonToColor(c) = Rgb(Shade(c))
    BY DEF JsonToColor
  <2>7. FromJson(json) = Rgb(x) \o Rgb(y)
    BY <2>2, <2>6
  <2>8. Meant(json) = <<x, y>>
    <3>1. Meant(json) = [i \in 1 .. 2 |-> Shade(json[i])]
      BY DEF Meant
    <3>. HIDE DEF Shade
    <3> DEFINE m == [i \in 1 .. 2 |-> Shade(json[i])]
    <3>2. m[1] = Shade(json[1]) /\ m[2] = Shade(json[2]) /\ m = <<m[1], m[2]>>
      OBVIOUS
    <3>. QED BY <3>1, <3>2
  <2>. HIDE DEF x, y
  <2>9. Words(FromJson(json)) = <<x, y>>
    BY <2>5, <2>7, RgbPair DEF Words
  <2>. QED BY <1>1, <2>5, <2>7, <2>8, <2>9, RgbPair
<1>10. AcceptedIsSent
  BY <1>9 DEF AcceptedIsSent
<1>11. SetKeepsLimits
  <2>1. \A v \in Sent : Words(v) \in Configured
    BY <1>3 DEF Configured
  <2>2. \A v \in Sent : ColorSet(v) \in Answers
    BY <1>4, <2>1, AnswersOf
  <2>. QED BY <1>2, <2>2 DEF SetKeepsLimits
<1>12. AcceptedIsMeant
  <2>1. ASSUME NEW json \in Json, NEW moving \in BOOLEAN, FromJson(json) # None
        PROVE  /\ NodeSet(ToBin(FromJson(json)), moving).ok
               /\ NodeSet(ToBin(FromJson(json)), moving).config = Meant(json)
    <3>1. NodeSet(ToBin(FromJson(json)), moving) =
            IF config = Meant(json) THEN AlreadySet ELSE Taken(Meant(json))
      BY <1>2, <1>4, <1>9, <2>1
    <3>. QED BY <3>1, AnswerParts
  <2>. QED BY <2>1 DEF AcceptedIsMeant
<1>13. GetIsSent
  BY <1>2, <1>6, <1>7, <1>8 DEF GetIsSent
<1>14. GetIsShown
  BY <1>2, <1>5, <1>6 DEF GetIsShown
<1>15. SameIsSilent
  BY <1>2, <1>4, <1>6 DEF SameIsSilent
<1>. QED BY <1>10, <1>11, <1>12, <1>13, <1>14, <1>15 DEF Conversions

LEMMA KeptConversions ==
  ASSUME prop \in Kept, config \in Configured
  PROVE  Conversions
BY OffsetConversions, RotationConversions, MotionConversions, ThresholdConversions, ColorConversions
   DEF Kept

--------------------------------------------------------------------------------
(* The invariant of the way: what is stored, what is being sent, and how   *)
(* the last accepted request, the controller's model and the module's      *)
(* configuration go together.                                              *)

KindInv ==
  /\ prop \in Props /\ due \in BOOLEAN /\ store \in BOOLEAN /\ fresh \in BOOLEAN
  /\ due => model # None /\ prop \in Kept \cup {"character", "character_set"}

KeptInv == prop \in Kept =>
  /\ config \in Configured /\ flash \in Configured
  /\ model # None => model \in Sent

FixedInv == prop \notin Kept => config = Default(prop) /\ flash = config /\ ~store

Flaps == 0 .. SymbolCnt - 1

CharacterInv ==
  /\ prop # "character" => symbols = None
  /\ prop = "character" =>
       /\ flaps \in Flaps \X Flaps
       /\ model # None => \E k \in Flaps : model = <<k>>
       /\ symbols # None => DOMAIN symbols = 1 .. SymbolCnt

ReadInv == fresh => model = FromBin(NodeGet)

PostedInv == posted # None =>
  /\ prop \in Kept =>
       /\ due => posted \in Json /\ model = FromJson(posted)
       /\ ~due => config \in {Meant(posted), Sector}
  /\ prop = "character" =>
       /\ due => config[model[1] + 1] = posted
       /\ ~due => config[flaps[1] + 1] = posted
  /\ prop \notin Kept \cup {"character"} => due

PathInv == KindInv /\ KeptInv /\ FixedInv /\ CharacterInv /\ ReadInv /\ PostedInv

(* What depends on the property alone. *)
LEMMA SameSets ==
  ASSUME prop' = prop
  PROVE  /\ Settings' = Settings /\ Sector' = Sector /\ Sent' = Sent /\ Configured' = Configured
         /\ Json' = Json
         /\ \A j : Meant(j)' = Meant(j)
         /\ \A v : ToBin(v)' = ToBin(v)
<1>1. Settings' = Settings /\ Sector' = Sector /\ Sent' = Sent
  BY DEF Settings, Sector, Sent
<1>2. Configured' = Configured
  BY <1>1 DEF Configured
<1>3. Json' = Json
  BY DEF Json
<1>4. \A j : Meant(j)' = Meant(j)
  BY DEF Meant
<1>5. \A v : ToBin(v)' = ToBin(v)
  BY DEF ToBin
<1>. QED BY <1>1, <1>2, <1>3, <1>4, <1>5

LEMMA SameFromJson ==
  ASSUME prop' = prop, prop \in Kept
  PROVE  \A j : FromJson(j)' = FromJson(j)
<1>1. \A j : FromJson(j) = IF prop = "color" THEN ColorFromJson(j) ELSE NumbersFromJson(Numeric[prop], j)
  BY DEF FromJson, Kept, Numeric
<1>2. \A j : FromJson(j)' = IF prop = "color" THEN ColorFromJson(j) ELSE NumbersFromJson(Numeric[prop], j)
  BY DEF FromJson, Kept, Numeric
<1>. QED BY <1>1, <1>2

LEMMA SameGet ==
  ASSUME prop' = prop, config' = config, flaps'[2] = flaps[2]
  PROVE  FromBin(NodeGet)' = FromBin(NodeGet)
<1>1. NodeGet' = NodeGet
  BY DEF NodeGet, ColorGet, IrThresholdGet, FirmwareGet
<1>. QED BY <1>1 DEF FromBin

LEMMA StartConfigured ==
  ASSUME prop \in Kept
  PROVE  Default(prop) \in Configured
<1>1. CASE prop = "offset"
  <2>1. 0 \in Byte
    BY ByteRange
  <2>. QED BY <1>1, <2>1, Singles DEF Default, Configured, Settings
<1>2. CASE prop = "minimum_rotation"
  <2>1. 1 \in Byte /\ 1 <= SymbolCnt
    <3>1. SymbolCnt \in 1 .. 255
      BY PathAssumption, Zenon DEF PathAssumption
    <3>. QED BY <3>1, ByteRange
  <2>2. <<1>> \in [1 .. 1 -> Byte] /\ <<1>>[1] <= SymbolCnt
    BY <2>1, Singles
  <2>. QED BY <1>2, <2>2 DEF Default, Configured, Settings
<1>3. CASE prop = "motion"
  <2>1. 70 \in Byte /\ 150 \in Byte /\ 5 \in Byte /\ 10 \in Byte
    BY ByteRange
  <2> DEFINE m == <<70, 150, 5, 10>>
  <2>2. m \in [1 .. 4 -> Byte] /\ m[1] = 70 /\ m[2] = 150
    BY <2>1, Fours
  <2>. HIDE DEF m
  <2>3. m \in Settings
    BY <1>3, <2>2 DEF Settings
  <2>. QED BY <1>3, <2>3 DEF Default, Configured, m
<1>4. CASE prop = "ir_threshold"
  <2>1. 90 \in Threshold /\ 110 \in Threshold
    BY ThresholdRange
  <2>2. <<90, 110>> \in [1 .. 2 -> Threshold]
    BY <2>1, PairIn
  <2>3. <<90, 110>> \in Settings
    BY <1>4, <2>2 DEF Settings
  <2>. QED BY <1>4, <2>3 DEF Default, Configured
<1>5. CASE prop = "color"
  <2>1. White \in Colour /\ 0 \in Colour
    <3>1. White <= 16777215
      BY SMT DEF White
    <3>. QED BY <3>1, Nonneg, ColourRange, SMT
  <2>2. <<White, 0>> \in [1 .. 2 -> Colour]
    BY <2>1, PairIn
  <2>. QED BY <1>5, <2>2 DEF Default, Configured, Settings
<1>. QED BY <1>1, <1>2, <1>3, <1>4, <1>5 DEF Kept

(* An erased sector, whatever was in it. *)
LEMMA ErasedSector ==
  ASSUME prop \in Kept, config \in Configured
  PROVE  Erased = Sector
<1>1. CASE prop \in {"offset", "minimum_rotation"}
  <2>1. DOMAIN config = 1 .. 1
    BY <1>1 DEF Configured, Settings, Sector
  <2>2. Erased = [i \in DOMAIN config |-> 255]
    BY <1>1 DEF Erased
  <2>3. [i \in 1 .. 1 |-> 255] = <<255>>
    OBVIOUS
  <2>. QED BY <1>1, <2>1, <2>2, <2>3 DEF Sector
<1>2. CASE prop = "motion"
  <2>1. DOMAIN config = 1 .. 4
    BY <1>2 DEF Configured, Settings, Sector
  <2>2. Erased = [i \in DOMAIN config |-> 255]
    BY <1>2 DEF Erased
  <2>3. [i \in 1 .. 4 |-> 255] = <<255, 255, 255, 255>>
    OBVIOUS
  <2>. QED BY <1>2, <2>1, <2>2, <2>3 DEF Sector
<1>3. CASE prop \in {"ir_threshold", "color"}
  BY <1>3 DEF Erased, Sector
<1>. QED BY <1>1, <1>2, <1>3 DEF Kept

LEMMA CharacterKinds ==
  ASSUME prop \in {"character", "character_set"}
  PROVE  /\ prop \notin Kept /\ prop \notin DOMAIN Numeric
         /\ \A v : ToBin(v) = v
         /\ \A v : FromBin(v) = v
         /\ \A bin, moving :
              NodeSet(bin, moving) = IF prop = "character" THEN AlreadySet ELSE Declined
<1>1. prop \notin Kept /\ prop \notin DOMAIN Numeric
  BY DEF Kept, Numeric
<1>2. \A v : ToBin(v) = v
  BY <1>1 DEF ToBin
<1>3. \A v : FromBin(v) = v
  BY <1>1 DEF FromBin
<1>4. \A bin, moving : NodeSet(bin, moving) = IF prop = "character" THEN AlreadySet ELSE Declined
  BY DEF NodeSet, CharacterSetSet
<1>. QED BY <1>1, <1>2, <1>3, <1>4

(* The first flap with a symbol is a flap with it. *)
LEMMA FirstFlap ==
  ASSUME prop = "character", symbols # None, DOMAIN symbols = 1 .. SymbolCnt,
         NEW json, FromJson(json) # None
  PROVE  \E k \in Flaps : FromJson(json) = <<k>> /\ symbols[k + 1] = json
<1> DEFINE At == {i \in DOMAIN symbols : symbols[i] = json}
           i == CHOOSE i \in At : \A j \in At : i <= j
<1>1. FromJson(json) = CharacterFromJson(json)
  BY DEF FromJson, Numeric
<1>2. At # {} /\ FromJson(json) = <<i - 1>>
  BY <1>1 DEF CharacterFromJson
<1>3. SymbolCnt \in Nat
  <2>1. SymbolCnt \in 1 .. 255
    BY PathAssumption, Zenon DEF PathAssumption
  <2>. QED BY <2>1
<1>4. At \subseteq Nat
  BY <1>3
<1>5. \E k \in At : \A j \in At : k <= j
  <2>1. PICK k \in At : \A j \in At : <<j, k>> \notin OpToRel(<, Nat)
    BY <1>2, <1>4, NatLessThanWellFounded, WFMin
  <2>2. \A j \in At : ~(j < k)
    BY <1>4, <2>1 DEF OpToRel
  <2>. QED BY <1>4, <2>2
<1>. HIDE DEF At
<1>6. i \in At
  BY <1>5
<1>. HIDE DEF i
<1>7. i \in 1 .. SymbolCnt /\ symbols[i] = json
  BY <1>6 DEF At
<1> DEFINE k == i - 1
<1>8. k \in Flaps /\ k + 1 = i
  BY <1>3, <1>7 DEF Flaps
<1>. HIDE DEF k
<1>9. FromJson(json) = <<k>>
  BY <1>2 DEF k
<1>. QED BY <1>7, <1>8, <1>9

--------------------------------------------------------------------------------
(* The invariant holds *)

LEMMA SymbolCntType == SymbolCnt \in Nat /\ SymbolCnt >= 1 /\ SymbolCnt <= 255 /\ 0 \in Flaps
<1>1. SymbolCnt \in 1 .. 255
  BY PathAssumption, Zenon DEF PathAssumption
<1>. QED BY <1>1 DEF Flaps

LEMMA PathStart == Init => PathInv
<1> SUFFICES ASSUME Init PROVE PathInv
  OBVIOUS
<1>1. /\ prop \in Props /\ model = None /\ due = FALSE /\ config = Default(prop) /\ flash = config
      /\ store = FALSE /\ symbols = None /\ flaps = <<0, 0>> /\ posted = None /\ fresh = FALSE
  BY DEF Init
<1>2. KindInv
  BY <1>1 DEF KindInv
<1>3. KeptInv
  BY <1>1, StartConfigured DEF KeptInv
<1>4. FixedInv
  BY <1>1 DEF FixedInv
<1>5. CharacterInv
  BY <1>1, SymbolCntType DEF CharacterInv
<1>6. ReadInv /\ PostedInv
  BY <1>1 DEF ReadInv, PostedInv
<1>. QED BY <1>2, <1>3, <1>4, <1>5, <1>6 DEF PathInv

(* Nothing of the module changes: the configuration stays as it is. *)
LEMMA ModuleStays ==
  ASSUME PathInv, prop' = prop, UNCHANGED moduleVars
  PROVE  /\ prop' \in Props /\ store' \in BOOLEAN
         /\ prop \in Kept => config' \in Configured' /\ flash' \in Configured'
         /\ FixedInv'
<1>1. config' = config /\ flash' = flash /\ store' = store
  BY DEF moduleVars
<1>2. FixedInv'
  BY <1>1, SymbolCntType DEF PathInv, FixedInv, Default
<1>. QED BY <1>1, <1>2, SameSets DEF PathInv, KindInv, KeptInv

LEMMA PostStep ==
  ASSUME PathInv, NEW json \in Json, Post(json)
  PROVE  PathInv'
<1> DEFINE v == FromJson(json)
<1>1. /\ v # None /\ model' = v /\ due' = TRUE /\ fresh' = FALSE
      /\ prop = "character" => symbols # None
      /\ posted' = IF prop = "character" /\ symbols # config THEN None ELSE json
      /\ prop' = prop /\ symbols' = symbols /\ flaps' = flaps
      /\ config' = config /\ flash' = flash /\ store' = store
  BY DEF Post, moduleVars, characterVars
<1>2. /\ prop \in Props /\ (prop \in Kept => config \in Configured)
  BY DEF PathInv, KindInv, KeptInv
<1>3. prop \in Kept \cup {"character", "character_set"}
  BY DEF Json, Kept
<1>4. UNCHANGED moduleVars
  BY <1>1 DEF moduleVars
<1>5. KindInv'
  BY <1>1, <1>3, <1>4, ModuleStays DEF KindInv
<1>6. prop \in Kept => v \in Sent
  BY <1>1, <1>2, KeptConversions DEF Conversions, AcceptedIsSent
<1>7. KeptInv'
  BY <1>1, <1>4, <1>6, ModuleStays, SameSets DEF KeptInv
<1>8. prop = "character" => \E k \in Flaps : v = <<k>> /\ symbols[k + 1] = json
  BY <1>1, FirstFlap DEF PathInv, CharacterInv
<1>. HIDE DEF v
<1>9. CharacterInv'
  BY <1>1, <1>8 DEF PathInv, CharacterInv
<1>10. ReadInv'
  BY <1>1 DEF ReadInv
<1>11. PostedInv'
  <2>1. ASSUME prop \in Kept
        PROVE  posted' \in Json' /\ model' = FromJson(posted)'
    <3>1. posted' = json /\ prop # "character"
      BY <1>1, <2>1 DEF Kept
    <3>2. FromJson(posted)' = FromJson(json)' /\ Json' = Json
      BY <1>1, <3>1, SameSets DEF FromJson
    <3>3. FromJson(json)' = FromJson(json)
      BY <1>1, <2>1, SameFromJson
    <3>. QED BY <1>1, <3>1, <3>2, <3>3 DEF v
  <2>2. ASSUME prop = "character", posted' # None
        PROVE  config'[model'[1] + 1] = posted'
    <3>1. PICK k \in Flaps : v = <<k>> /\ symbols[k + 1] = json
      BY <1>8, <2>2
    <3>. QED BY <1>1, <2>2, <3>1
  <2>. QED BY <1>1, <2>1, <2>2 DEF PostedInv
<1>. QED BY <1>4, <1>1, <1>5, <1>7, <1>9, <1>10, <1>11, ModuleStays DEF PathInv

LEMMA ReadStep ==
  ASSUME PathInv, NEW answered \in BOOLEAN, Read(answered)
  PROVE  PathInv'
<1>1. /\ model' = FromBin(NodeGet) /\ fresh' = TRUE /\ due' = (due /\ ~answered)
      /\ posted' = IF due THEN None ELSE posted
      /\ prop' = prop /\ symbols' = symbols /\ flaps' = flaps
      /\ config' = config /\ flash' = flash /\ store' = store
  BY DEF Read, moduleVars, characterVars
<1>2. UNCHANGED moduleVars
  BY <1>1 DEF moduleVars
<1>3. prop \in Kept => model' \in Sent
  BY <1>1, KeptConversions DEF Conversions, GetIsSent, PathInv, KeptInv
<1>4. prop = "character" => model' = <<flaps[2]>> /\ flaps[2] \in Flaps
  <2>1. ASSUME prop = "character"
        PROVE  model' = <<flaps[2]>> /\ flaps[2] \in Flaps
    <3>1. NodeGet = <<flaps[2]>>
      BY <2>1 DEF NodeGet
    <3>. QED BY <1>1, <2>1, <3>1, CharacterKinds DEF PathInv, CharacterInv
  <2>. QED BY <2>1
<1>5. due => model' # None /\ prop \in Kept \cup {"character", "character_set"}
  <2>1. ASSUME due
        PROVE  prop \in Kept \cup {"character", "character_set"}
    BY <2>1 DEF PathInv, KindInv
  <2>2. None \notin Seq(Int)
    BY PathAssumption, Zenon DEF PathAssumption
  <2>3. ASSUME prop \in Kept
        PROVE  model' \in Seq(Int)
    <3>1. CASE prop \in {"offset", "minimum_rotation"}
      <4>1. model' \in [1 .. 1 -> Byte]
        BY <1>3, <2>3, <3>1 DEF Sent
      <4>. QED BY <4>1, ByteSeq
    <3>2. CASE prop = "motion"
      <4>1. model' \in [1 .. 4 -> Byte]
        BY <1>3, <2>3, <3>2 DEF Sent
      <4>. QED BY <4>1, ByteSeq
    <3>3. CASE prop = "color"
      <4>1. model' \in [1 .. 6 -> Byte]
        BY <1>3, <2>3, <3>3 DEF Sent
      <4>. QED BY <4>1, ByteSeq
    <3>4. CASE prop = "ir_threshold"
      <4>1. model' = <<-1, -1>> \/ model' \in [1 .. 2 -> Threshold]
        BY <1>3, <2>3, <3>4 DEF Sent
      <4>2. CASE model' = <<-1, -1>>
        BY <4>2
      <4>3. CASE model' \in [1 .. 2 -> Threshold]
        <5>1. model'[1] \in Int /\ model'[2] \in Int /\ model' = <<model'[1], model'[2]>>
          BY <4>3, Pairs, ThresholdRange
        <5>2. \A a, b \in Int : <<a, b>> \in Seq(Int)
          OBVIOUS
        <5>. QED BY <5>1, <5>2, Zenon
      <4>. QED BY <4>1, <4>2, <4>3
    <3>. QED BY <2>3, <3>1, <3>2, <3>3, <3>4 DEF Kept
  <2>4. ASSUME prop = "character"
        PROVE  model' \in Seq(Int)
    <3>1. flaps[2] \in Int /\ model' = <<flaps[2]>>
      BY <1>4, <2>4, SymbolCntType DEF Flaps
    <3>. QED BY <3>1
  <2>5. ASSUME prop = "character_set"
        PROVE  model' \in Seq(Int)
    <3>1. NodeGet = config
      BY <2>5 DEF NodeGet
    <3>2. model' = config
      BY <1>1, <2>5, <3>1, CharacterKinds
    <3>3. config = [i \in 1 .. SymbolCnt |-> i]
      BY <2>5 DEF PathInv, FixedInv, Default, Kept
    <3>. QED BY <3>2, <3>3, SymbolCntType
  <2>. QED BY <2>1, <2>2, <2>3, <2>4, <2>5
<1>6. KindInv'
  BY <1>1, <1>2, <1>5, ModuleStays DEF KindInv, PathInv
<1>7. KeptInv'
  BY <1>1, <1>2, <1>3, ModuleStays, SameSets DEF KeptInv
<1>8. CharacterInv'
  BY <1>1, <1>4 DEF PathInv, CharacterInv
<1>9. ReadInv'
  BY <1>1, SameGet DEF ReadInv
<1>10. PostedInv'
  <2>1. ASSUME posted' # None
        PROVE  ~due /\ posted' = posted /\ due' = FALSE
    BY <1>1, <2>1 DEF PathInv, KindInv
  <2>2. posted' # None /\ prop \in Kept => config' \in {Meant(posted)', Sector'}
    <3>1. posted' = posted => Meant(posted)' = Meant(posted)
      BY <1>1 DEF Meant
    <3>. QED BY <1>1, <2>1, <3>1, SameSets DEF PathInv, PostedInv
  <2>3. posted' # None /\ prop = "character" => config'[flaps'[1] + 1] = posted'
    BY <1>1, <2>1 DEF PathInv, PostedInv
  <2>4. posted' # None => prop \in Kept \cup {"character"}
    BY <2>1 DEF PathInv, PostedInv
  <2>. QED BY <1>1, <2>1, <2>2, <2>3, <2>4 DEF PostedInv
<1>. QED BY <1>1, <1>2, <1>6, <1>7, <1>8, <1>9, <1>10, ModuleStays DEF PathInv

LEMMA WriteStep ==
  ASSUME PathInv, NEW moving \in BOOLEAN, NEW answered \in BOOLEAN, Write(moving, answered)
  PROVE  PathInv'
<1> DEFINE r == NodeSet(ToBin(model), moving)
<1>1. /\ due /\ model # None
      /\ config' = r.config /\ store' = r.store /\ due' = ~(r.ok /\ answered)
      /\ fresh' = (fresh /\ r.config = config)
      /\ flaps' = IF prop = "character" THEN <<ToBin(model)[1], flaps[2]>> ELSE flaps
      /\ prop' = prop /\ model' = model /\ flash' = flash /\ symbols' = symbols /\ posted' = posted
  BY DEF Write, CharacterSet, PathInv, KindInv
<1>2. prop \in Kept => r \in Answers
  <2>1. ASSUME prop \in Kept
        PROVE  r \in Answers
    <3>1. config \in Configured /\ model \in Sent
      BY <1>1, <2>1 DEF PathInv, KeptInv
    <3>. QED BY <2>1, <3>1, KeptConversions DEF Conversions, SetKeepsLimits
  <2>. QED BY <2>1
<1>3. prop \notin Kept => prop \in {"character", "character_set"} /\ ToBin(model) = model
                          /\ r = IF prop = "character" THEN AlreadySet ELSE Declined
  <2>1. prop \in Kept \cup {"character", "character_set"}
    BY <1>1 DEF PathInv, KindInv
  <2>. QED BY <2>1, CharacterKinds
<1>. HIDE DEF r
<1>4. r.ok \in BOOLEAN /\ r.store \in BOOLEAN
  <2>1. ASSUME r \in Answers
        PROVE  r.ok \in BOOLEAN /\ r.store \in BOOLEAN
    <3>1. r = AlreadySet \/ r = Declined \/ \E c \in Configured : r = Taken(c)
      BY <2>1 DEF Answers
    <3>. QED BY <3>1, AnswerParts DEF PathInv, KindInv
  <2>2. ASSUME prop \notin Kept
        PROVE  r.ok \in BOOLEAN /\ r.store \in BOOLEAN
    BY <1>3, <2>2, AnswerParts DEF PathInv, KindInv
  <2>. QED BY <1>2, <2>1, <2>2
<1>5. KindInv'
  BY <1>1, <1>4 DEF KindInv, PathInv
<1>6. prop \in Kept => config' \in Configured
  <2>1. ASSUME prop \in Kept
        PROVE  config' \in Configured
    <3>1. config \in Configured
      BY <2>1 DEF PathInv, KeptInv
    <3>2. r = AlreadySet \/ r = Declined \/ \E c \in Configured : r = Taken(c)
      BY <1>2, <2>1 DEF Answers
    <3>. QED BY <1>1, <3>1, <3>2, AnswerParts
  <2>. QED BY <2>1
<1>7. KeptInv'
  BY <1>1, <1>6, SameSets DEF KeptInv, PathInv
<1>8. prop \notin Kept => config' = config /\ store' = store
  BY <1>1, <1>3, AnswerParts
<1>9. FixedInv'
  <2>1. Default(prop)' = Default(prop)
    BY <1>1 DEF Default
  <2>. QED BY <1>1, <1>8, <2>1 DEF FixedInv, PathInv
<1>10. prop = "character" => \E k \in Flaps : model = <<k>> /\ flaps' = <<k, flaps[2]>> /\ flaps[2] \in Flaps
  <2>1. ASSUME prop = "character"
        PROVE  \E k \in Flaps : model = <<k>> /\ flaps' = <<k, flaps[2]>> /\ flaps[2] \in Flaps
    <3>1. PICK k \in Flaps : model = <<k>>
      BY <1>1, <2>1 DEF PathInv, CharacterInv
    <3>2. ToBin(model)[1] = k
      BY <1>3, <2>1, <3>1 DEF Kept
    <3>3. flaps[2] \in Flaps
      BY <2>1 DEF PathInv, CharacterInv
    <3>. QED BY <1>1, <2>1, <3>1, <3>2, <3>3
  <2>. QED BY <2>1
<1>11. CharacterInv'
  BY <1>1, <1>10 DEF CharacterInv, PathInv
<1>12. ReadInv'
  <2>1. ASSUME fresh'
        PROVE  model' = FromBin(NodeGet)'
    <3>1. fresh /\ config' = config
      BY <1>1, <2>1
    <3>2. flaps'[2] = flaps[2]
      BY <1>1, <1>10
    <3>3. FromBin(NodeGet)' = FromBin(NodeGet)
      BY <1>1, <3>1, <3>2, SameGet
    <3>. QED BY <1>1, <3>1, <3>3 DEF PathInv, ReadInv
  <2>. QED BY <2>1 DEF ReadInv
<1>13. PostedInv'
  <2> SUFFICES ASSUME posted # None
               PROVE  /\ prop \in Kept =>
                           /\ due' => posted' \in Json' /\ model' = FromJson(posted)'
                           /\ ~due' => config' \in {Meant(posted)', Sector'}
                      /\ prop = "character" =>
                           /\ due' => config'[model'[1] + 1] = posted'
                           /\ ~due' => config'[flaps'[1] + 1] = posted'
                      /\ prop \notin Kept \cup {"character"} => due'
    BY <1>1 DEF PostedInv
  <2>1. ASSUME prop \in Kept
        PROVE  /\ due' => posted' \in Json' /\ model' = FromJson(posted)'
               /\ ~due' => config' \in {Meant(posted)', Sector'}
    <3>1. posted \in Json /\ model = FromJson(posted) /\ config \in Configured
      BY <1>1, <2>1 DEF PathInv, PostedInv, KeptInv
    <3>2. Json' = Json /\ Sector' = Sector /\ Meant(posted)' = Meant(posted)
      <4>1. Meant(posted)' = Meant(posted)
        BY <1>1 DEF Meant
      <4>. QED BY <1>1, <4>1, SameSets
    <3>3. FromJson(posted)' = FromJson(posted)
      <4>1. FromJson(posted) =
              IF prop = "color" THEN ColorFromJson(posted) ELSE NumbersFromJson(Numeric[prop], posted)
        BY <2>1 DEF FromJson, Kept, Numeric
      <4>2. FromJson(posted)' =
              IF prop = "color" THEN ColorFromJson(posted) ELSE NumbersFromJson(Numeric[prop], posted)
        BY <1>1, <2>1 DEF FromJson, Kept, Numeric
      <4>. QED BY <4>1, <4>2
    <3>4. r.ok => r.config \in {Meant(posted), Sector}
      BY <1>1, <2>1, <3>1, KeptConversions DEF r, Conversions, AcceptedIsMeant
    <3>5. ~due' => r.ok
      BY <1>1
    <3>. QED BY <1>1, <3>1, <3>2, <3>3, <3>4, <3>5
  <2>2. ASSUME prop = "character"
        PROVE  /\ config'[model'[1] + 1] = posted'
               /\ config'[flaps'[1] + 1] = posted'
    <3>1. PICK k \in Flaps : model = <<k>> /\ flaps' = <<k, flaps[2]>>
      BY <1>10, <2>2
    <3>2. config[model[1] + 1] = posted /\ config' = config
      BY <1>1, <1>8, <2>2 DEF PathInv, PostedInv, Kept
    <3>. QED BY <1>1, <3>1, <3>2
  <2>3. ASSUME prop \notin Kept \cup {"character"}
        PROVE  due'
    BY <1>1, <1>3, <2>3, AnswerParts
  <2>. QED BY <2>1, <2>2, <2>3
<1>. QED BY <1>5, <1>7, <1>9, <1>11, <1>12, <1>13 DEF PathInv

LEMMA QuietStep ==
  ASSUME PathInv, SymbolsChange \/ Arrive \/ Store \/ OffsetReset
  PROVE  PathInv'
<1>1. prop' = prop /\ model' = model /\ due' = due
  BY DEF SymbolsChange, Arrive, Store, OffsetReset
<1>2. CASE SymbolsChange
  <2>1. /\ prop = "character" /\ UNCHANGED <<moduleVars, flaps, posted, fresh>>
        /\ symbols' = config \/ (symbols # None /\ \E s \in Symbols : symbols' = [i \in DOMAIN symbols |-> s])
    BY <1>2 DEF SymbolsChange
  <2>2. UNCHANGED moduleVars /\ config' = config /\ flaps' = flaps /\ posted' = posted /\ fresh' = fresh
    BY <2>1 DEF moduleVars
  <2>3. config = [i \in 1 .. SymbolCnt |-> i] /\ prop \notin Kept
    BY <2>1 DEF PathInv, FixedInv, Kept, Default
  <2>4. symbols' # None => DOMAIN symbols' = 1 .. SymbolCnt
    BY <2>1, <2>3 DEF PathInv, CharacterInv
  <2>5. CharacterInv'
    BY <1>1, <2>1, <2>2, <2>4 DEF PathInv, CharacterInv
  <2>6. ReadInv'
    BY <1>1, <2>2, SameGet DEF PathInv, ReadInv
  <2>7. PostedInv'
    BY <1>1, <2>1, <2>2, <2>3 DEF PathInv, PostedInv
  <2>8. KindInv' /\ KeptInv'
    BY <1>1, <2>2, <2>3, ModuleStays DEF KindInv, KeptInv, PathInv
  <2>. QED BY <1>1, <2>2, <2>5, <2>6, <2>7, <2>8, ModuleStays DEF PathInv
<1>3. CASE Arrive
  <2>1. /\ prop = "character" /\ UNCHANGED <<moduleVars, symbols, posted>>
        /\ flaps' = <<flaps[1], flaps[1]>> /\ fresh' = FALSE
    BY <1>3 DEF Arrive
  <2>2. UNCHANGED moduleVars /\ config' = config /\ symbols' = symbols /\ posted' = posted
    BY <2>1 DEF moduleVars
  <2>3. prop \notin Kept
    BY <2>1 DEF Kept
  <2>4. flaps[1] \in Flaps /\ flaps'[1] = flaps[1] /\ flaps' \in Flaps \X Flaps
    BY <2>1 DEF PathInv, CharacterInv
  <2>5. CharacterInv'
    BY <1>1, <2>1, <2>2, <2>4 DEF PathInv, CharacterInv
  <2>6. ReadInv'
    BY <2>1 DEF ReadInv
  <2>7. PostedInv'
    BY <1>1, <2>1, <2>2, <2>3, <2>4 DEF PathInv, PostedInv
  <2>8. KindInv' /\ KeptInv'
    BY <1>1, <2>1, <2>2, <2>3, ModuleStays DEF KindInv, KeptInv, PathInv
  <2>. QED BY <1>1, <2>2, <2>5, <2>6, <2>7, <2>8, ModuleStays DEF PathInv
<1>4. CASE Store
  <2>1. /\ store /\ store' = FALSE /\ flash' = config /\ config' = config
        /\ symbols' = symbols /\ flaps' = flaps /\ posted' = posted /\ fresh' = fresh
    BY <1>4 DEF Store, characterVars
  <2>2. prop \in Kept
    BY <2>1 DEF PathInv, FixedInv
  <2>3. KindInv'
    BY <1>1, <2>1 DEF KindInv, PathInv
  <2>4. KeptInv' /\ FixedInv'
    BY <1>1, <2>1, <2>2, SameSets DEF KeptInv, FixedInv, PathInv
  <2>5. CharacterInv'
    BY <1>1, <2>1 DEF PathInv, CharacterInv
  <2>6. ReadInv'
    BY <1>1, <2>1, SameGet DEF PathInv, ReadInv
  <2>7. PostedInv'
    <3>1. FromJson(posted)' = FromJson(posted) /\ Meant(posted)' = Meant(posted)
      <4>1. FromJson(posted) =
              IF prop = "color" THEN ColorFromJson(posted) ELSE NumbersFromJson(Numeric[prop], posted)
        BY <2>2 DEF FromJson, Kept, Numeric
      <4>2. FromJson(posted)' =
              IF prop = "color" THEN ColorFromJson(posted) ELSE NumbersFromJson(Numeric[prop], posted)
        BY <1>1, <2>1, <2>2 DEF FromJson, Kept, Numeric
      <4>3. Meant(posted)' = Meant(posted)
        BY <1>1, <2>1 DEF Meant
      <4>. QED BY <4>1, <4>2, <4>3
    <3>2. Json' = Json /\ Sector' = Sector
      BY <1>1, SameSets
    <3>3. prop # "character"
      BY <2>2 DEF Kept
    <3>. QED BY <1>1, <2>1, <2>2, <3>1, <3>2, <3>3 DEF PathInv, PostedInv
  <2>. QED BY <2>3, <2>4, <2>5, <2>6, <2>7 DEF PathInv
<1>5. CASE OffsetReset
  <2>1. /\ prop = "offset" /\ config' = <<0>> /\ store' = TRUE /\ posted' = None /\ fresh' = FALSE
        /\ flash' = flash /\ symbols' = symbols /\ flaps' = flaps
    BY <1>5 DEF OffsetReset, characterVars
  <2>2. prop \in Kept
    BY <2>1 DEF Kept
  <2>3. <<0>> \in Configured
    BY <2>1, <2>2, StartConfigured DEF Default
  <2>4. KindInv'
    BY <1>1, <2>1 DEF KindInv, PathInv
  <2>5. KeptInv' /\ FixedInv'
    BY <1>1, <2>1, <2>2, <2>3, SameSets DEF KeptInv, FixedInv, PathInv
  <2>6. CharacterInv' /\ ReadInv' /\ PostedInv'
    BY <1>1, <2>1 DEF PathInv, CharacterInv, ReadInv, PostedInv
  <2>. QED BY <2>4, <2>5, <2>6 DEF PathInv
<1>. QED BY <1>2, <1>3, <1>4, <1>5

LEMMA RestartStep ==
  ASSUME PathInv, Loss \/ LossInStore
  PROVE  PathInv'
<1>1. /\ prop' = prop /\ model' = model /\ due' = due /\ symbols' = symbols /\ store' = FALSE
      /\ flaps' = <<0, 0>> /\ posted' = None /\ fresh' = FALSE /\ config' = flash'
      /\ flash' = flash \/ (store /\ flash' = Erased)
  BY DEF Loss, LossInStore, Restart
<1>2. prop \in Kept => flash' \in Configured
  <2>1. Sector \in Configured
    BY DEF Configured
  <2>. QED BY <1>1, <2>1, ErasedSector DEF PathInv, KeptInv
<1>3. KindInv'
  BY <1>1 DEF KindInv, PathInv
<1>4. KeptInv'
  BY <1>1, <1>2, SameSets DEF KeptInv, PathInv
<1>5. FixedInv'
  <2>1. Default(prop)' = Default(prop)
    BY <1>1 DEF Default
  <2>. QED BY <1>1, <2>1 DEF FixedInv, PathInv
<1>6. CharacterInv'
  BY <1>1, SymbolCntType DEF CharacterInv, PathInv
<1>7. ReadInv' /\ PostedInv'
  BY <1>1 DEF ReadInv, PostedInv
<1>. QED BY <1>3, <1>4, <1>5, <1>6, <1>7 DEF PathInv

LEMMA PathStutter ==
  ASSUME PathInv, UNCHANGED vars
  PROVE  PathInv'
<1>1. /\ prop' = prop /\ model' = model /\ due' = due /\ config' = config /\ store' = store
      /\ flash' = flash /\ symbols' = symbols /\ flaps' = flaps /\ posted' = posted /\ fresh' = fresh
  BY DEF vars, moduleVars, characterVars
<1>2. KindInv' /\ CharacterInv'
  BY <1>1 DEF KindInv, CharacterInv, PathInv
<1>3. KeptInv' /\ FixedInv'
  <2>1. Default(prop)' = Default(prop)
    BY <1>1 DEF Default
  <2>. QED BY <1>1, <2>1, SameSets DEF KeptInv, FixedInv, PathInv
<1>4. ReadInv'
  BY <1>1, SameGet DEF PathInv, ReadInv
<1>5. PostedInv'
  <2>1. prop \in Kept => FromJson(posted)' = FromJson(posted)
    <3>1. FromJson(posted)' = FromJson(posted)
      BY <1>1 DEF FromJson, CharacterSetFromJson, CharacterFromJson
    <3>. QED BY <3>1
  <2>2. Meant(posted)' = Meant(posted)
    BY <1>1 DEF Meant
  <2>. QED BY <1>1, <2>1, <2>2, SameSets DEF PathInv, PostedInv
<1>. QED BY <1>2, <1>3, <1>4, <1>5 DEF PathInv

LEMMA PathNext == PathInv /\ [Next]_vars => PathInv'
<1> SUFFICES ASSUME PathInv, [Next]_vars PROVE PathInv'
  OBVIOUS
<1>1. ASSUME NEW json \in Json, Post(json) PROVE PathInv'
  BY <1>1, PostStep
<1>2. ASSUME NEW answered \in BOOLEAN, Read(answered) PROVE PathInv'
  BY <1>2, ReadStep
<1>3. ASSUME NEW answered \in BOOLEAN, NEW moving \in BOOLEAN, Write(moving, answered) PROVE PathInv'
  BY <1>3, WriteStep
<1>4. CASE SymbolsChange \/ Arrive \/ Store \/ OffsetReset
  BY <1>4, QuietStep
<1>5. CASE Loss \/ LossInStore
  BY <1>5, RestartStep
<1>6. CASE UNCHANGED vars
  BY <1>6, PathStutter
<1>. QED BY <1>1, <1>2, <1>3, <1>4, <1>5, <1>6 DEF Next

THEOREM PathHolds == Spec => []PathInv
BY PathStart, PathNext, PTL DEF Spec

--------------------------------------------------------------------------------
(* What follows of it *)

LEMMA ConfiguredFits ==
  ASSUME prop \in Kept, NEW c \in Configured
  PROVE  c \in Configs
<1>1. c \in Settings \/ c = Sector
  BY DEF Configured
<1>2. CASE prop \in {"offset", "minimum_rotation"}
  <2>1. Configs = [1 .. 1 -> Byte]
    <3>1. Numeric[prop].fields = 1
      BY <1>2 DEF Numeric, Offset, MinimumRotation
    <3>2. Configs = [1 .. Numeric[prop].fields -> Byte]
      BY <1>2 DEF Configs
    <3>. QED BY <3>1, <3>2
  <2>2. Sector \in [1 .. 1 -> Byte]
    <3>1. 255 \in Byte
      BY ByteRange
    <3>. QED BY <1>2, <3>1, Singles DEF Sector
  <2>3. c \in Settings => c \in [1 .. 1 -> Byte]
    BY <1>2 DEF Settings
  <2>. QED BY <1>1, <2>1, <2>2, <2>3
<1>3. CASE prop = "motion"
  <2>1. Configs = [1 .. 4 -> Byte]
    <3>1. Numeric[prop].fields = 4
      BY <1>3 DEF Numeric, Motion
    <3>2. Configs = [1 .. Numeric[prop].fields -> Byte]
      BY <1>3 DEF Configs
    <3>. QED BY <3>1, <3>2
  <2>2. Sector \in [1 .. 4 -> Byte]
    <3>1. 255 \in Byte
      BY ByteRange
    <3>. QED BY <1>3, <3>1, Fours DEF Sector
  <2>3. c \in Settings => c \in [1 .. 4 -> Byte]
    BY <1>3 DEF Settings
  <2>. QED BY <1>1, <2>1, <2>2, <2>3
<1>4. CASE prop = "ir_threshold"
  <2>1. Configs = (0 .. FullWord) \X (0 .. FullWord)
    BY <1>4 DEF Configs
  <2>2. \A a \in Threshold : a \in 0 .. FullWord
    <3>1. \A a \in Threshold : a \in Int /\ 0 <= a /\ a <= FullWord
      BY ThresholdRange, SMT DEF FullWord
    <3>. QED BY <3>1, Nonneg
  <2>3. CASE c = Sector
    <3>1. c = <<FullWord, FullWord>>
      BY <1>4, <2>3 DEF Sector
    <3>2. FullWord \in 0 .. FullWord
      BY Nonneg
    <3>. QED BY <2>1, <3>1, <3>2
  <2>4. CASE c \in Settings
    <3>1. c[1] \in Threshold /\ c[2] \in Threshold /\ c = <<c[1], c[2]>>
      BY <1>4, <2>4, Pairs DEF Settings
    <3>. QED BY <2>1, <2>2, <3>1
  <2>. QED BY <1>1, <2>3, <2>4
<1>5. CASE prop = "color"
  <2>1. Configs = (-1 .. White) \X (-1 .. White)
    BY <1>5 DEF Configs
  <2>2. \A a \in Colour : a \in -1 .. White
    BY Nonneg DEF Colour
  <2>3. CASE c = Sector
    <3>1. c = <<-1, -1>>
      BY <1>5, <2>3 DEF Sector
    <3>2. -1 \in -1 .. White
      BY Nonneg
    <3>. QED BY <2>1, <3>1, <3>2
  <2>4. CASE c \in Settings
    <3>1. c[1] \in Colour /\ c[2] \in Colour /\ c = <<c[1], c[2]>>
      BY <1>5, <2>4, Pairs DEF Settings
    <3>. QED BY <2>1, <2>2, <3>1
  <2>. QED BY <1>1, <2>3, <2>4
<1>. QED BY <1>2, <1>3, <1>4, <1>5 DEF Kept

LEMMA FixedFits == PathInv /\ prop \notin Kept => config \in Configs /\ flash \in Configs
<1> SUFFICES ASSUME PathInv, prop \notin Kept PROVE config \in Configs /\ flash \in Configs
  OBVIOUS
<1>1. config = Default(prop) /\ flash = config
  BY DEF PathInv, FixedInv
<1>2. Configs = {Default(prop)}
  BY DEF Configs, Kept, Numeric
<1>. QED BY <1>1, <1>2

(* Every state is well-formed: a module's configuration fits its fields,   *)
(* whatever the controller sends and whatever is lost on the way.          *)
THEOREM PathTypes == Spec => []TypeOK
<1>1. PathInv => TypeOK
  <2> SUFFICES ASSUME PathInv PROVE TypeOK
    OBVIOUS
  <2>1. config \in Configs /\ flash \in Configs
    BY ConfiguredFits, FixedFits DEF PathInv, KeptInv
  <2>2. symbols = None \/ DOMAIN symbols = 1 .. SymbolCnt
    BY DEF PathInv, CharacterInv
  <2>. QED BY <2>1, <2>2 DEF TypeOK, PathInv, KindInv
<1>. QED BY <1>1, PathHolds, PTL

(* A module that does not run from an erased sector has settings it was    *)
(* given or started with.                                                  *)
LEMMA NotErased ==
  ASSUME PathInv, prop \in Kept, config # Erased
  PROVE  config \in Settings
BY ErasedSector DEF PathInv, KeptInv, Configured

(* The limits of motion_property_set, minimum_rotation_property_set and    *)
(* ir_threshold_property_set hold whatever was posted, read back, repeated *)
(* or lost, and only flaps that exist are set.                             *)
THEOREM LimitsHold == Spec => []InLimits
<1>1. PathInv => InLimits
  <2> SUFFICES ASSUME PathInv, config # Erased
               PROVE  CASE prop = "motion"           -> config[1] >= 35 /\ config[2] <= 200
                        [] prop = "minimum_rotation" -> config[1] <= SymbolCnt
                        [] prop = "ir_threshold"     -> config[1] < config[2]
                        [] prop = "character"        -> flaps[1] < SymbolCnt
                        [] OTHER                     -> TRUE
    BY DEF InLimits
  <2>1. ASSUME prop = "motion" PROVE config[1] >= 35 /\ config[2] <= 200
    BY <2>1, NotErased DEF Kept, Settings
  <2>2. ASSUME prop = "minimum_rotation" PROVE config[1] <= SymbolCnt
    BY <2>2, NotErased DEF Kept, Settings
  <2>3. ASSUME prop = "ir_threshold" PROVE config[1] < config[2]
    BY <2>3, NotErased DEF Kept, Settings
  <2>4. ASSUME prop = "character" PROVE flaps[1] < SymbolCnt
    BY <2>4, SymbolCntType DEF PathInv, CharacterInv, Flaps
  <2>. QED BY <2>1, <2>2, <2>3, <2>4
<1>. QED BY <1>1, PathHolds, PTL

(* The two ends agree on what is acceptable, and what arrives is what the  *)
(* JSON said.                                                              *)
THEOREM RequestsArrive == Spec => []PostedArrives
<1>1. PathInv => AcceptedIsTaken
  <2> SUFFICES ASSUME PathInv, due, posted # None, prop # "character_set"
               PROVE  NodeSet(ToBin(model), FALSE).ok
    BY DEF AcceptedIsTaken
  <2>1. CASE prop \in Kept
    <3>1. posted \in Json /\ model = FromJson(posted) /\ model # None /\ config \in Configured
      BY <2>1 DEF PathInv, PostedInv, KindInv, KeptInv
    <3>. QED BY <2>1, <3>1, KeptConversions DEF Conversions, AcceptedIsMeant
  <2>2. CASE prop = "character"
    BY <2>2, CharacterKinds, AnswerParts
  <2>. QED BY <2>1, <2>2 DEF PathInv, KindInv
<1>2. PathInv => WrittenAsPosted
  <2> SUFFICES ASSUME PathInv, ~due, posted # None, config # Erased
               PROVE  IF prop = "character" THEN config[flaps[1] + 1] = posted ELSE config = Meant(posted)
    BY DEF WrittenAsPosted
  <2>1. CASE prop \in Kept
    <3>1. config \in {Meant(posted), Sector} /\ config # Sector
      BY <2>1, ErasedSector DEF PathInv, PostedInv, KeptInv
    <3>. QED BY <2>1, <3>1 DEF Kept
  <2>2. CASE prop \notin Kept
    BY <2>2 DEF PathInv, PostedInv
  <2>. QED BY <2>1, <2>2
<1>. QED BY <1>1, <1>2, PathHolds, PTL DEF PostedArrives

(* The controller takes the version and the checksum of a module apart as  *)
(* the module put them together.                                           *)
LEMMA VersionShown ==
  ASSUME prop = "firmware_version", config = Version
  PROVE  ToJson(FromBin(NodeGet)) = [description |-> Version, crc |-> Checksum]
<1> DEFINE tail == [i \in 1 .. 4 |-> Checksum[5 - i]]
           bin == Version \o tail
<1>1. Version \in Seq(Byte) /\ Checksum \in [1 .. 4 -> Byte]
  BY PathAssumption, Zenon DEF PathAssumption
<1>2. \A i \in 1 .. 4 : Checksum[5 - i] \in Byte /\ tail[i] = Checksum[5 - i] /\ tail[5 - i] = Checksum[i]
  <2>1. \A i \in 1 .. 4 : 5 - i \in 1 .. 4 /\ 5 - (5 - i) = i
    OBVIOUS
  <2>. QED BY <1>1, <2>1
<1>3. tail \in Seq(Byte) /\ Len(tail) = 4
  <2>1. tail \in [1 .. 4 -> Byte]
    BY <1>2
  <2>. QED BY <2>1, ByteSeq
<1>. HIDE DEF tail
<1>4. /\ bin \in Seq(Byte) /\ Len(bin) = Len(Version) + 4
      /\ \A i \in 1 .. Len(Version) + 4 :
           bin[i] = IF i <= Len(Version) THEN Version[i] ELSE tail[i - Len(Version)]
  <2>1. /\ Version \o tail \in Seq(Byte) /\ Len(Version \o tail) = Len(Version) + Len(tail)
        /\ \A i \in 1 .. Len(Version) + Len(tail) : (Version \o tail)[i] =
             IF i <= Len(Version) THEN Version[i] ELSE tail[i - Len(Version)]
    BY <1>1, <1>3, ConcatProperties, Zenon
  <2>. QED BY <1>3, <2>1, Zenon
<1>5. NodeGet = bin
  BY DEF NodeGet, FirmwareGet, tail
<1>. HIDE DEF bin
<1>6. Len(Version) \in Nat
  BY <1>1
<1>7. SubSeq(bin, 1, Len(bin) - 4) = Version
  <2>1. Len(bin) - 4 = Len(Version)
    BY <1>4, <1>6
  <2> DEFINE s == SubSeq(bin, 1, Len(Version))
  <2>2. s = [i \in 1 .. Len(Version) |-> bin[i]]
    BY <1>4, <1>6
  <2>3. s = [i \in 1 .. Len(Version) |-> Version[i]]
    BY <1>4, <1>6, <2>2
  <2>4. Version = [i \in 1 .. Len(Version) |-> Version[i]]
    BY <1>1
  <2>. HIDE DEF s
  <2>5. s = Version
    BY <2>3, <2>4
  <2>. QED BY <2>1, <2>5 DEF s
<1>8. [i \in 1 .. 4 |-> bin[Len(bin) - 4 + i]] = [i \in 1 .. 4 |-> tail[i]]
  <2>1. \A i \in 1 .. 4 : bin[Len(bin) - 4 + i] = tail[i]
    <3> SUFFICES ASSUME NEW i \in 1 .. 4 PROVE bin[Len(bin) - 4 + i] = tail[i]
      OBVIOUS
    <3> DEFINE j == Len(Version) + i
    <3>1. Len(bin) - 4 + i = j /\ j \in 1 .. Len(Version) + 4 /\ ~(j <= Len(Version)) /\ j - Len(Version) = i
      BY <1>4, <1>6
    <3>. HIDE DEF j
    <3>. QED BY <1>4, <3>1
  <2>. QED BY <2>1
<1> DEFINE v == FirmwareVersionFromBin(bin)
<1>9. v.str = Version /\ \A i \in 1 .. 4 : v.crc[i] = tail[i]
  BY <1>7, <1>8 DEF FirmwareVersionFromBin
<1>10. FromBin(bin) = v
  BY DEF FromBin, Numeric
<1>. HIDE DEF v
<1>11. ToJson(v) = FirmwareVersionToJson(v)
  BY DEF ToJson
<1>12. [i \in 1 .. 4 |-> v.crc[5 - i]] = Checksum
  <2>1. \A i \in 1 .. 4 : v.crc[5 - i] = Checksum[i]
    <3>1. \A i \in 1 .. 4 : 5 - i \in 1 .. 4
      OBVIOUS
    <3>. QED BY <1>2, <1>9, <3>1
  <2>2. [i \in 1 .. 4 |-> v.crc[5 - i]] = [i \in 1 .. 4 |-> Checksum[i]]
    BY <2>1
  <2>. QED BY <1>1, <2>2
<1>13. FirmwareVersionToJson(v) = [description |-> Version, crc |-> Checksum]
  BY <1>9, <1>12 DEF FirmwareVersionToJson
<1>. QED BY <1>5, <1>10, <1>11, <1>13

(* What was read and not touched since is shown as the module would show   *)
(* it itself.                                                              *)
THEOREM ReadingsAreShown == Spec => []ShownAsConfigured
<1>1. PathInv => ShownAsConfigured
  <2> SUFFICES ASSUME PathInv, fresh, config # Erased, prop = "character" => symbols = config
               PROVE  ToJson(model) =
                        CASE prop = "firmware_version" -> [description |-> Version, crc |-> Checksum]
                          [] prop = "module_info"      -> config[1] = 1
                          [] prop = "character"        -> config[flaps[2] + 1]
                          [] OTHER                     -> config
    BY DEF ShownAsConfigured
  <2>1. model = FromBin(NodeGet)
    BY DEF PathInv, ReadInv
  <2>2. CASE prop \in Kept
    <3>1. config \in Settings /\ config \in Configured
      BY <2>2, NotErased DEF PathInv, KeptInv
    <3>2. ToJson(model) = config
      BY <2>1, <2>2, <3>1, KeptConversions DEF Conversions, GetIsShown
    <3>. QED BY <2>2, <3>2 DEF Kept
  <2>3. CASE prop = "firmware_version"
    <3>1. config = Version
      BY <2>3 DEF PathInv, FixedInv, Kept, Default
    <3>. QED BY <2>1, <2>3, <3>1, VersionShown
  <2>4. CASE prop = "module_info"
    <3>1. NodeGet = config
      BY <2>4 DEF NodeGet
    <3>2. FromBin(config) = (config[1] = 1)
      BY <2>4 DEF FromBin, ColumnEnd, Numeric
    <3>3. ToJson(config[1] = 1) = (config[1] = 1)
      BY <2>4 DEF ToJson
    <3>. QED BY <2>1, <2>4, <3>1, <3>2, <3>3
  <2>5. CASE prop = "character"
    <3>1. NodeGet = <<flaps[2]>>
      BY <2>5 DEF NodeGet
    <3>2. model = <<flaps[2]>>
      BY <2>1, <2>5, <3>1, CharacterKinds
    <3>3. ToJson(model) = symbols[model[1] + 1]
      BY <2>5 DEF ToJson, CharacterToJson
    <3>. QED BY <2>5, <3>2, <3>3
  <2>6. CASE prop = "character_set"
    <3>1. NodeGet = config
      BY <2>6 DEF NodeGet
    <3>2. model = config
      BY <2>1, <2>6, <3>1, CharacterKinds
    <3>3. ToJson(model) = model
      BY <2>6 DEF ToJson
    <3>. QED BY <2>6, <3>2, <3>3
  <2>7. prop \in Kept \cup {"character", "character_set", "firmware_version", "module_info"}
    <3>1. Props \subseteq Kept \cup {"character", "character_set", "firmware_version", "module_info"}
      BY PathAssumption DEF PathAssumption, Kept
    <3>. QED BY <3>1 DEF PathInv, KindInv
  <2>. QED BY <2>2, <2>3, <2>4, <2>5, <2>6, <2>7
<1>. QED BY <1>1, PathHolds, PTL

(* Writing back what a module already has changes nothing in it, not even  *)
(* that its flash is written again.                                        *)
THEOREM SilentRewrites == Spec => RewriteIsSilent
<1>1. PathInv /\ [Next]_vars =>
        [(\E moving, answered \in BOOLEAN : Write(moving, answered)) /\ ToBin(model) = NodeGet
           /\ config # Erased => UNCHANGED moduleVars]_vars
  <2> SUFFICES ASSUME PathInv, NEW moving \in BOOLEAN, NEW answered \in BOOLEAN,
                      Write(moving, answered), ToBin(model) = NodeGet, config # Erased
               PROVE  UNCHANGED moduleVars
    OBVIOUS
  <2> DEFINE r == NodeSet(ToBin(model), moving)
  <2>1. due /\ model # None /\ config' = r.config /\ store' = r.store /\ flash' = flash
    BY DEF Write, PathInv, KindInv
  <2>2. CASE prop \in Kept
    <3>1. config \in Settings /\ config \in Configured /\ model \in Sent
      BY <2>1, <2>2, NotErased DEF PathInv, KeptInv
    <3>2. r \in {AlreadySet, Declined}
      BY <2>2, <3>1, KeptConversions DEF Conversions, SameIsSilent
    <3>. QED BY <2>1, <3>2, AnswerParts DEF moduleVars
  <2>3. CASE prop \notin Kept
    <3>1. prop \in {"character", "character_set"}
      BY <2>1, <2>3 DEF PathInv, KindInv
    <3>2. r \in {AlreadySet, Declined}
      BY <3>1, CharacterKinds
    <3>. QED BY <2>1, <3>2, AnswerParts DEF moduleVars
  <2>. QED BY <2>2, <2>3
<1>. QED BY <1>1, PathHolds, PTL DEF Spec, RewriteIsSilent

================================================================================
