---------------------------- MODULE SerialProofs ----------------------------
(***************************************************************************)
(* Theorems about the serial ports.                                        *)
(***************************************************************************)
EXTENDS UsbAdapters, SerialBridge, SequenceTheorems, TLAPS

-----------------------------------------------------------------------------
(* Bytes in order, in pieces.                                              *)

UartByte == [unit : Units, n : Nat]
Bytes == Seq(UartByte)
After(s, t) == \A i \in DOMAIN s, j \in DOMAIN t : s[i].n < t[j].n
UpTo(s, n) == \A i \in DOMAIN s : s[i].n <= n

\* Each byte has a number.
LEMMA ByteOf ==
  ASSUME NEW s \in Bytes, NEW i \in DOMAIN s
  PROVE  s[i] \in UartByte /\ s[i].n \in Nat /\ s[i].unit \in Units
<1>1. s \in Seq(UartByte) /\ DOMAIN s = 1 .. Len(s)
  BY LenProperties DEF Bytes
<1>2. s[i] \in UartByte
  BY <1>1, ElementOfSeq
<1>3. QED
  BY <1>2 DEF UartByte

\* Two pieces are in order when each is, and the second comes after the first.
LEMMA JoinOf ==
  ASSUME NEW s \in Bytes, NEW t \in Bytes
  PROVE  /\ s \o t \in Bytes
         /\ DOMAIN (s \o t) = 1 .. Len(s) + Len(t)
         /\ \A i \in DOMAIN s : (s \o t)[i] = s[i]
         /\ \A j \in DOMAIN t : (s \o t)[Len(s) + j] = t[j]
         /\ \A k \in DOMAIN (s \o t) : k \in DOMAIN s \/ (k - Len(s) \in DOMAIN t /\ k > Len(s) /\ (s \o t)[k] = t[k - Len(s)])
         /\ InOrder(s) /\ InOrder(t) /\ After(s, t) => InOrder(s \o t)
<1> DEFINE st == s \o t
<1>1. /\ s \in Seq(UartByte) /\ t \in Seq(UartByte) /\ Len(s) \in Nat /\ Len(t) \in Nat
      /\ DOMAIN s = 1 .. Len(s) /\ DOMAIN t = 1 .. Len(t)
  BY LenProperties DEF Bytes
<1>2. /\ st \in Seq(UartByte) /\ Len(st) = Len(s) + Len(t)
      /\ \A i \in 1 .. Len(s) + Len(t) : st[i] = IF i <= Len(s) THEN s[i] ELSE t[i - Len(s)]
  BY <1>1, ConcatProperties
<1>3. DOMAIN st = 1 .. Len(s) + Len(t)
  BY <1>2, LenProperties
<1> HIDE DEF st
<1>4. \A i \in DOMAIN s : st[i] = s[i]
  BY <1>1, <1>2
<1>5. \A j \in DOMAIN t : st[Len(s) + j] = t[j]
  <2> SUFFICES ASSUME NEW j \in DOMAIN t PROVE st[Len(s) + j] = t[j]
    OBVIOUS
  <2>1. j \in Nat /\ j >= 1 /\ Len(s) + j \in 1 .. Len(s) + Len(t) /\ ~(Len(s) + j <= Len(s)) /\ Len(s) + j - Len(s) = j
    BY <1>1
  <2>2. QED
    BY <1>2, <2>1
<1>6. \A k \in DOMAIN st : k \in DOMAIN s \/ (k - Len(s) \in DOMAIN t /\ k > Len(s) /\ st[k] = t[k - Len(s)])
  BY <1>1, <1>2, <1>3
<1>7. ASSUME InOrder(s), InOrder(t), After(s, t) PROVE InOrder(st)
  <2> SUFFICES ASSUME NEW i \in DOMAIN st, NEW j \in DOMAIN st, i < j PROVE st[i].n < st[j].n
    BY DEF InOrder
  <2>0. i \in Nat /\ j \in Nat
    BY <1>1, <1>3
  <2>1. CASE i \in DOMAIN s /\ j \in DOMAIN s
    BY <1>4, <1>7, <2>1 DEF InOrder
  <2>2. CASE i \in DOMAIN s /\ j \notin DOMAIN s
    BY <1>4, <1>6, <1>7, <2>2 DEF After
  <2>3. CASE i \notin DOMAIN s
    <3>1. i > Len(s) /\ j > Len(s) /\ i - Len(s) < j - Len(s)
      BY <1>1, <1>6, <2>0, <2>3
    <3>2. j \notin DOMAIN s
      BY <1>1, <3>1
    <3>3. i - Len(s) \in DOMAIN t /\ j - Len(s) \in DOMAIN t /\ st[i] = t[i - Len(s)] /\ st[j] = t[j - Len(s)]
      BY <1>6, <2>3, <3>2
    <3>4. QED
      BY <1>7, <3>1, <3>3 DEF InOrder
  <2>4. QED
    BY <2>1, <2>2, <2>3
<1>8. QED
  BY <1>2, <1>3, <1>4, <1>5, <1>6, <1>7 DEF st, Bytes

\* One byte more.
LEMMA AddOf ==
  ASSUME NEW s \in Bytes, NEW e \in UartByte
  PROVE  /\ Append(s, e) \in Bytes
         /\ DOMAIN Append(s, e) = DOMAIN s \cup {Len(s) + 1}
         /\ \A i \in DOMAIN s : Append(s, e)[i] = s[i]
         /\ Append(s, e)[Len(s) + 1] = e
         /\ InOrder(s) /\ (\A i \in DOMAIN s : s[i].n < e.n) => InOrder(Append(s, e))
<1>1. s \in Seq(UartByte) /\ Len(s) \in Nat /\ DOMAIN s = 1 .. Len(s)
  BY LenProperties DEF Bytes
<1> DEFINE r == Append(s, e)
<1>2. /\ r \in Seq(UartByte) /\ Len(r) = Len(s) + 1
      /\ \A i \in 1 .. Len(s) : r[i] = s[i]
      /\ r[Len(s) + 1] = e
  BY <1>1, AppendProperties
<1>3. DOMAIN r = 1 .. Len(s) + 1
  BY <1>2, LenProperties
<1> HIDE DEF r
<1>4. DOMAIN r = DOMAIN s \cup {Len(s) + 1}
  BY <1>1, <1>3
<1>5. ASSUME InOrder(s), \A i \in DOMAIN s : s[i].n < e.n PROVE InOrder(r)
  <2> SUFFICES ASSUME NEW i \in DOMAIN r, NEW j \in DOMAIN r, i < j PROVE r[i].n < r[j].n
    BY DEF InOrder
  <2>1. i \in DOMAIN s
    BY <1>1, <1>3
  <2>2. CASE j \in DOMAIN s
    BY <1>1, <1>2, <1>5, <2>1, <2>2 DEF InOrder
  <2>3. CASE j = Len(s) + 1
    BY <1>1, <1>2, <1>5, <2>1, <2>3
  <2>4. QED
    BY <1>4, <2>2, <2>3
<1>6. QED
  BY <1>1, <1>2, <1>4, <1>5 DEF r, Bytes

\* The first n bytes and the rest.
LEMMA CutOf ==
  ASSUME NEW s \in Bytes, NEW n \in 0 .. Len(s)
  PROVE  LET a == SubSeq(s, 1, n)  b == SubSeq(s, n + 1, Len(s))
         IN /\ a \in Bytes /\ b \in Bytes /\ Len(a) = n
            /\ \A i \in DOMAIN a : i \in DOMAIN s /\ a[i] = s[i]
            /\ \A i \in DOMAIN b : n + i \in DOMAIN s /\ b[i] = s[n + i]
            /\ InOrder(s) => InOrder(a) /\ InOrder(b) /\ After(a, b)
<1> DEFINE a == SubSeq(s, 1, n)
           b == SubSeq(s, n + 1, Len(s))
<1>1. s \in Seq(UartByte) /\ Len(s) \in Nat /\ DOMAIN s = 1 .. Len(s) /\ n \in Nat /\ n <= Len(s)
  BY LenProperties DEF Bytes
<1>2. \A i \in 1 .. Len(s) : s[i] \in UartByte
  BY <1>1, ElementOfSeq
<1>3. /\ a \in Seq(UartByte) /\ Len(a) = IF 1 <= n THEN n - 1 + 1 ELSE 0
      /\ \A i \in 1 .. n - 1 + 1 : a[i] = s[1 + i - 1]
  <2>1. 1 \in Int /\ n \in Int /\ \A i \in 1 .. n : s[i] \in UartByte
    BY <1>1, <1>2
  <2>2. QED
    BY <2>1, SubSeqProperties
<1>4. /\ b \in Seq(UartByte) /\ Len(b) = IF n + 1 <= Len(s) THEN Len(s) - (n + 1) + 1 ELSE 0
      /\ \A i \in 1 .. Len(s) - (n + 1) + 1 : b[i] = s[n + 1 + i - 1]
  <2>1. n + 1 \in Int /\ Len(s) \in Int /\ \A i \in n + 1 .. Len(s) : s[i] \in UartByte
    BY <1>1, <1>2
  <2>2. QED
    BY <2>1, SubSeqProperties
<1>5. DOMAIN a = 1 .. n /\ DOMAIN b = 1 .. Len(s) - n /\ Len(a) = n
  <2>1. /\ n - 1 + 1 = n /\ (~(1 <= n) => n = 0)
        /\ Len(s) - (n + 1) + 1 = Len(s) - n /\ (~(n + 1 <= Len(s)) => Len(s) - n = 0)
    <3>1. \A m, k \in Nat : k <= m => /\ k - 1 + 1 = k /\ (~(1 <= k) => k = 0)
                                      /\ m - (k + 1) + 1 = m - k /\ (~(k + 1 <= m) => m - k = 0)
      OBVIOUS
    <3>2. QED
      BY <1>1, <3>1
  <2>2. QED
    BY <1>3, <1>4, <2>1, LenProperties
<1> HIDE DEF a, b
<1>6. \A i \in DOMAIN a : i \in DOMAIN s /\ a[i] = s[i]
  <2> SUFFICES ASSUME NEW i \in 1 .. n PROVE i \in DOMAIN s /\ a[i] = s[i]
    BY <1>5
  <2>1. i \in 1 .. n - 1 + 1 /\ 1 + i - 1 = i /\ i \in 1 .. Len(s)
    BY <1>1
  <2>2. QED
    BY <1>1, <1>3, <2>1
<1>7. \A i \in DOMAIN b : n + i \in DOMAIN s /\ b[i] = s[n + i]
  <2> SUFFICES ASSUME NEW i \in 1 .. Len(s) - n PROVE n + i \in DOMAIN s /\ b[i] = s[n + i]
    BY <1>5
  <2>1. i \in 1 .. Len(s) - (n + 1) + 1 /\ n + 1 + i - 1 = n + i /\ n + i \in 1 .. Len(s)
    BY <1>1
  <2>2. QED
    BY <1>1, <1>4, <2>1
<1>8. ASSUME InOrder(s) PROVE InOrder(a) /\ InOrder(b) /\ After(a, b)
  <2>1. InOrder(a)
    BY <1>6, <1>8 DEF InOrder
  <2>2. InOrder(b)
    <3> SUFFICES ASSUME NEW i \in DOMAIN b, NEW j \in DOMAIN b, i < j PROVE b[i].n < b[j].n
      BY DEF InOrder
    <3>1. n + i < n + j
      BY <1>1, <1>5
    <3>2. QED
      BY <1>7, <1>8, <3>1 DEF InOrder
  <2>3. After(a, b)
    <3> SUFFICES ASSUME NEW i \in DOMAIN a, NEW j \in DOMAIN b PROVE a[i].n < b[j].n
      BY DEF After
    <3>1. i < n + j
      BY <1>1, <1>5
    <3>2. QED
      BY <1>6, <1>7, <1>8, <3>1 DEF InOrder
  <2>4. QED
    BY <2>1, <2>2, <2>3
<1>9. QED
  BY <1>3, <1>4, <1>5, <1>6, <1>7, <1>8 DEF a, b, Bytes

\* All but the first byte.
LEMMA TailOf ==
  ASSUME NEW s \in Bytes, s # <<>>
  PROVE  /\ Head(s) = s[1] /\ 1 \in DOMAIN s /\ Head(s) \in UartByte
         /\ Tail(s) \in Bytes
         /\ \A i \in DOMAIN Tail(s) : i + 1 \in DOMAIN s /\ Tail(s)[i] = s[i + 1]
         /\ InOrder(s) => InOrder(Tail(s)) /\ \A i \in DOMAIN Tail(s) : s[1].n < Tail(s)[i].n
<1>1. s \in Seq(UartByte) /\ Len(s) \in Nat /\ DOMAIN s = 1 .. Len(s) /\ Len(s) # 0
  BY LenProperties, EmptySeq DEF Bytes
<1>2. /\ Head(s) = s[1] /\ Head(s) \in UartByte /\ Tail(s) \in Seq(UartByte) /\ Len(Tail(s)) = Len(s) - 1
      /\ \A i \in 1 .. Len(Tail(s)) : Tail(s)[i] = s[i + 1]
  BY <1>1, HeadTailProperties
<1>3. DOMAIN Tail(s) = 1 .. Len(s) - 1
  BY <1>2, LenProperties
<1>4. \A i \in DOMAIN Tail(s) : i + 1 \in DOMAIN s /\ Tail(s)[i] = s[i + 1]
  BY <1>1, <1>2, <1>3
<1>5. InOrder(s) => InOrder(Tail(s)) /\ \A i \in DOMAIN Tail(s) : s[1].n < Tail(s)[i].n
  BY <1>1, <1>3, <1>4 DEF InOrder
<1>6. QED
  BY <1>1, <1>2, <1>4, <1>5 DEF Bytes

-----------------------------------------------------------------------------
(* The USB-UART adapter: the inductive invariant.                          *)

Speeds == WholeSpeeds \cup {0}
Registers == {"dll", "dlm"}

UartPasts == [units : 0 .. MaxAdapters, written : Nat, sent : Nat, bauds : Nat]

UartTypes ==
  /\ cdc_idx \in 0 .. MaxAdapters /\ plugged \subseteq Units
  /\ rx \in Bytes /\ tx \in Bytes /\ taken \in Bytes /\ got \in [Units -> Bytes]
  /\ uartPast \in UartPasts
  /\ rate \in [Units -> WholeSpeeds] /\ refused \in [Units -> SUBSET WholeSpeeds]
  /\ xfer \in [unit : 0 .. MaxAdapters, baud : Speeds]
  /\ want_baud \in WholeSpeeds /\ cur_baud \in Speeds /\ baud_busy \in BOOLEAN

\* Adapters are numbered as they come: none but those that came has anything.
Numbered ==
  /\ cdc_idx # NoAdapter => cdc_idx \in plugged
  /\ \A u \in plugged : u <= uartPast.units
  /\ \A u \in Units : u > uartPast.units => got[u] = <<>> /\ rate[u] = BaudOnEnum

\* What comes from the adapter.
Reads ==
  /\ InOrder(taken) /\ InOrder(rx) /\ After(taken, rx)
  /\ UpTo(taken, uartPast.sent) /\ UpTo(rx, uartPast.sent)
  /\ \A i \in DOMAIN rx : rx[i].unit = cdc_idx
  /\ cdc_idx = NoAdapter => rx = <<>>

\* What goes to it: a byte in core_out() may be for the adapter before, then it is the first.
Own(u, s) == \A i \in DOMAIN s : s[i].unit = u \/ (i = 1 /\ s[i].unit < u)
Sends ==
  /\ \A u \in Units : InOrder(got[u]) /\ UpTo(got[u], uartPast.written) /\ Own(u, got[u])
  /\ InOrder(tx) /\ UpTo(tx, uartPast.written)
  /\ cdc_idx = NoAdapter => tx = <<>>
  /\ cdc_idx # NoAdapter =>
       /\ After(got[cdc_idx], tx) /\ Own(cdc_idx, tx)
       /\ got[cdc_idx] # <<>> => \A i \in DOMAIN tx : tx[i].unit = cdc_idx

Writes ==
  writer # <<>> =>
    \E w \in UartByte :
      /\ writer = <<w>> /\ w.n = uartPast.written /\ w.unit <= uartPast.units
      /\ \A i \in DOMAIN tx : tx[i].n < w.n
      /\ \A u \in Units : \A i \in DOMAIN got[u] : got[u][i].n < w.n
      /\ cdc_idx # NoAdapter =>
           w.unit <= cdc_idx /\ (w.unit # cdc_idx => tx = <<>> /\ got[cdc_idx] = <<>>)

\* The speed: a transfer is for the adapter there is.
Speed ==
  /\ xfer # NoXfer => cdc_idx # NoAdapter /\ xfer.unit = cdc_idx /\ xfer.baud \in WholeSpeeds /\ baud_busy
  /\ cdc_idx # NoAdapter =>
       /\ baud_busy => xfer # NoXfer
       /\ cur_baud # rate[cdc_idx] => cur_baud \in refused[cdc_idx]

Octets == 0 .. 255
Serials ==
  [dll : Octets, dlm : Octets, speed : Int, changed : BOOLEAN, next : {<<>>} \cup (Registers \X Octets)]

\* Between its two writes a divisor is half there, and the speed has just changed.
Divisor ==
  /\ serial \in Serials
  /\ serial.changed \/ serial.speed \in WholeSpeeds
  /\ serial.next = <<>> => serial.speed \in WholeSpeeds
  /\ serial.next # <<>> =>
       \E d \in Divisors : \/ serial.dll = d[1] /\ serial.next = <<"dlm", d[2]>>
                           \/ serial.dlm = d[2] /\ serial.next = <<"dll", d[1]>>

UartInv == UartTypes /\ Numbered /\ Reads /\ Sends /\ Writes /\ Speed /\ Divisor

\* A quotient is between the number and any m that fits into it so often.
LEMMA DivBounds ==
  ASSUME NEW a \in Nat, NEW k \in Nat \ {0}, NEW m \in Nat, m * k <= a
  PROVE  a \div k \in Nat /\ m <= a \div k /\ a \div k <= a
<1> DEFINE q == a \div k
<1>1. q \in Int /\ k * q <= a /\ a < k * (q + 1)
  BY SMT
<1> HIDE DEF q
<1>2. m <= q
  <2> SUFFICES ASSUME q + 1 <= m PROVE FALSE
    BY <1>1
  <2>1. k * (q + 1) <= k * m
    BY <1>1, SMT
  <2>2. k * m = m * k
    BY SMT
  <2>3. QED
    BY <1>1, <2>1, <2>2, SMT
<1>3. q \in Nat
  BY <1>1, <1>2
<1>4. q <= k * q
  BY <1>3, SMT
<1>5. k * q \in Int
  BY <1>1
<1>6. QED
  BY <1>1, <1>2, <1>3, <1>4, <1>5 DEF q

\* No registers stop the bytes: none of the divisors makes the speed zero.
LEMMA SpeedOf ==
  ASSUME NEW dll \in Octets, NEW dlm \in Octets
  PROVE  /\ serial_set_speed(dll, dlm) \in Int
         /\ 3 <= serial_set_speed(dll, dlm) /\ serial_set_speed(dll, dlm) <= 691200
<1>0. dll \in Int /\ 0 <= dll /\ dll <= 255 /\ dlm \in Int /\ 0 <= dlm /\ dlm <= 255
  BY SMT DEF Octets
<1>1. CASE dll = 0 /\ dlm = 0
  BY <1>0, <1>1, SMTT(30) DEF serial_set_speed
<1>2. CASE ~(dll = 0 /\ dlm = 0) /\ dlm >= 128
  <2> DEFINE k == ((dlm - 128) * 256) + dll + 1
  <2>1. k \in Nat \ {0} /\ 3 * k <= 691200
    BY <1>0, <1>2, SMT
  <2>2. serial_set_speed(dll, dlm) = 691200 \div k
    BY <1>0, <1>2, SMT DEF serial_set_speed
  <2> HIDE DEF k
  <2>3. 691200 \div k \in Nat /\ 3 <= 691200 \div k /\ 691200 \div k <= 691200
    BY <2>1, DivBounds, SMT
  <2>4. QED
    BY <2>2, <2>3, SMT
<1>3. CASE ~(dll = 0 /\ dlm = 0) /\ ~(dlm >= 128)
  <2> DEFINE k == (dlm * 256) + dll
  <2>1. k \in Nat \ {0} /\ 3 * k <= 115200
    BY <1>0, <1>3, SMT
  <2>2. serial_set_speed(dll, dlm) = 115200 \div k
    BY <1>0, <1>3, SMT DEF serial_set_speed
  <2> HIDE DEF k
  <2>3. 115200 \div k \in Nat /\ 3 <= 115200 \div k /\ 115200 \div k <= 115200
    BY <2>1, DivBounds, SMT
  <2>4. QED
    BY <2>2, <2>3, SMT
<1>4. QED
  BY <1>1, <1>2, <1>3, SMT

-----------------------------------------------------------------------------
(* The speed: what the core writes, and the transfer to the adapter.       *)

\* A register that is written: the speed follows, and has changed if it is another.
LEMMA RegisterOf ==
  ASSUME Divisor, NEW r \in Registers, NEW v \in Octets
  PROVE  LET new == [serial EXCEPT ![r] = v]
             s   == SetRegister(serial, r, v)
         IN /\ s \in Serials
            /\ s.dll = (IF r = "dll" THEN v ELSE serial.dll)
            /\ s.dlm = (IF r = "dlm" THEN v ELSE serial.dlm)
            /\ s.speed = serial_set_speed(s.dll, s.dlm)
            /\ s.changed \/ s.speed = serial.speed
            /\ serial.changed => s.changed
<1> DEFINE new == [serial EXCEPT ![r] = v]
           speed == serial_set_speed(new.dll, new.dlm)
           changed == new.changed \/ speed # new.speed
<1>1. serial \in Serials
  BY DEF Divisor
<1>2. /\ new \in Serials /\ new.speed = serial.speed /\ new.changed = serial.changed
      /\ new.dll = (IF r = "dll" THEN v ELSE serial.dll)
      /\ new.dlm = (IF r = "dlm" THEN v ELSE serial.dlm)
  <2>1. CASE r = "dll"
    <3>1. new = [serial EXCEPT !.dll = v]
      BY <2>1
    <3>2. QED
      BY <1>1, <2>1, <3>1 DEF Serials
  <2>2. CASE r = "dlm"
    <3>1. new = [serial EXCEPT !.dlm = v]
      BY <2>2
    <3>2. QED
      BY <1>1, <2>2, <3>1 DEF Serials
  <2>3. QED
    BY <2>1, <2>2 DEF Registers
<1>3. speed \in Int
  <2>1. new.dll \in Octets /\ new.dlm \in Octets
    BY <1>2 DEF Serials
  <2>2. QED
    BY <2>1, SpeedOf, SMT
<1>4. SetRegister(serial, r, v) = [new EXCEPT !.speed = speed, !.changed = changed]
  BY DEF SetRegister, Faster
<1> HIDE DEF new, speed
<1>5. changed \in BOOLEAN /\ (changed \/ speed = serial.speed) /\ (serial.changed => changed)
  BY <1>2 DEF changed, Serials
<1> HIDE DEF changed
<1> DEFINE s == [new EXCEPT !.speed = speed, !.changed = changed]
<1>6. s \in Serials /\ s.dll = new.dll /\ s.dlm = new.dlm /\ s.speed = speed /\ s.changed = changed
  BY <1>2, <1>3, <1>5 DEF Serials
<1> HIDE DEF s
<1>7. SetRegister(serial, r, v) = s
  BY <1>4 DEF s
<1>8. QED
  BY <1>2, <1>5, <1>6, <1>7 DEF speed

\* After one of the two writes the other half of a divisor is still to come.
LEMMA FirstKept == ASSUME UartInv, FirstRegister PROVE Divisor'
<1>1. Divisor /\ serial.next = <<>>
  BY DEF UartInv, FirstRegister
<1>2. PICK d \in Divisors :
        \/ serial' = [SetRegister(serial, "dll", d[1]) EXCEPT !.next = <<"dlm", d[2]>>]
        \/ serial' = [SetRegister(serial, "dlm", d[2]) EXCEPT !.next = <<"dll", d[1]>>]
  BY DEF FirstRegister
<1>3. d[1] \in Octets /\ d[2] \in Octets
  BY UartAssumption DEF Octets
<1>4. serial.speed \in WholeSpeeds
  BY <1>1 DEF Divisor
<1>5. ASSUME NEW r \in Registers, NEW v \in Octets, NEW q \in Registers, NEW w \in Octets,
             serial' = [SetRegister(serial, r, v) EXCEPT !.next = <<q, w>>],
             \/ r = "dll" /\ q = "dlm" /\ v = d[1] /\ w = d[2]
             \/ r = "dlm" /\ q = "dll" /\ v = d[2] /\ w = d[1]
      PROVE  Divisor'
  <2> DEFINE s == SetRegister(serial, r, v)
  <2>1. /\ s \in Serials
        /\ s.dll = (IF r = "dll" THEN v ELSE serial.dll)
        /\ s.dlm = (IF r = "dlm" THEN v ELSE serial.dlm)
        /\ s.changed \/ s.speed = serial.speed
    BY <1>1, RegisterOf
  <2> HIDE DEF s
  <2>2. <<q, w>> \in Registers \X (Octets) /\ <<q, w>> # <<>>
    BY <1>5
  <2>3. /\ serial' \in Serials
        /\ serial'.dll = s.dll /\ serial'.dlm = s.dlm /\ serial'.speed = s.speed /\ serial'.changed = s.changed
        /\ serial'.next = <<q, w>>
    BY <1>5, <2>1, <2>2 DEF s, Serials
  <2>4. \/ serial'.dll = d[1] /\ serial'.next = <<"dlm", d[2]>>
        \/ serial'.dlm = d[2] /\ serial'.next = <<"dll", d[1]>>
    BY <1>5, <2>1, <2>3
  <2>5. QED
    BY <1>4, <2>1, <2>2, <2>3, <2>4 DEF Divisor
<1>6. QED
  BY <1>2, <1>3, <1>5 DEF Registers

\* After both the speed is that of a whole divisor.
LEMMA SecondKept == ASSUME UartInv, SecondRegister PROVE Divisor'
<1>1. Divisor /\ serial.next # <<>>
      /\ serial' = [SetRegister(serial, serial.next[1], serial.next[2]) EXCEPT !.next = <<>>]
  BY DEF UartInv, SecondRegister
<1>2. PICK d \in Divisors : \/ serial.dll = d[1] /\ serial.next = <<"dlm", d[2]>>
                            \/ serial.dlm = d[2] /\ serial.next = <<"dll", d[1]>>
  BY <1>1 DEF Divisor
<1>3. d[1] \in Octets /\ d[2] \in Octets /\ d = <<d[1], d[2]>>
  BY UartAssumption DEF Octets
<1> DEFINE r == serial.next[1]
           v == serial.next[2]
           s == SetRegister(serial, r, v)
<1>4. r \in Registers /\ v \in Octets
      /\ \/ r = "dlm" /\ v = d[2] /\ serial.dll = d[1]
         \/ r = "dll" /\ v = d[1] /\ serial.dlm = d[2]
  BY <1>2, <1>3 DEF Registers
<1> HIDE DEF r, v
<1>5. /\ s \in Serials
      /\ s.dll = (IF r = "dll" THEN v ELSE serial.dll)
      /\ s.dlm = (IF r = "dlm" THEN v ELSE serial.dlm)
      /\ s.speed = serial_set_speed(s.dll, s.dlm)
  BY <1>1, <1>4, RegisterOf
<1> HIDE DEF s
<1>6. s.dll = d[1] /\ s.dlm = d[2]
  BY <1>4, <1>5
<1>7. s.speed \in WholeSpeeds
  BY <1>5, <1>6 DEF WholeSpeeds
<1>8. serial' = [s EXCEPT !.next = <<>>]
  BY <1>1 DEF s, r, v
<1>9. /\ serial' \in Serials
      /\ serial'.speed = s.speed /\ serial'.next = <<>>
  BY <1>5, <1>8 DEF Serials
<1>10. QED
  BY <1>7, <1>9 DEF Divisor

\* The speed that is still is that of a whole divisor.
LEMMA StillKept == ASSUME UartInv, SpeedStays PROVE Divisor'
<1>1. Divisor /\ serial.next = <<>> /\ serial' = [serial EXCEPT !.changed = FALSE]
  BY DEF UartInv, SpeedStays
<1>2. serial \in Serials /\ serial.speed \in WholeSpeeds
  BY <1>1 DEF Divisor
<1>3. serial' \in Serials /\ serial'.speed = serial.speed /\ serial'.next = <<>>
  BY <1>1, <1>2 DEF Serials
<1>4. QED
  BY <1>2, <1>3 DEF Divisor

\* So is that of a byte of the ZiFi port.
LEMMA ZiFiKept == ASSUME UartInv, CoreOut PROVE Divisor'
<1>1. Divisor /\ serial.next = <<>> /\ serial' \in {serial, Faster(serial, BaudOnEnum)}
  BY DEF UartInv, CoreOut
<1>2. CASE serial' = serial
  BY <1>1, <1>2 DEF Divisor
<1>3. CASE serial' = Faster(serial, BaudOnEnum)
  <2>1. BaudOnEnum \in WholeSpeeds /\ BaudOnEnum \in Int
    BY SMT DEF WholeSpeeds, BaudOnEnum
  <2>2. serial \in Serials
    BY <1>1 DEF Divisor
  <2> DEFINE changed == serial.changed \/ BaudOnEnum # serial.speed
  <2>3. serial' = [serial EXCEPT !.speed = BaudOnEnum, !.changed = changed]
    BY <1>3 DEF Faster
  <2>4. changed \in BOOLEAN
    BY <2>2 DEF Serials
  <2> HIDE DEF changed
  <2>5. serial' \in Serials /\ serial'.speed = BaudOnEnum /\ serial'.next = <<>>
    BY <1>1, <2>1, <2>2, <2>3, <2>4 DEF Serials
  <2>6. QED
    BY <2>1, <2>5 DEF Divisor
<1>4. QED
  BY <1>1, <1>2, <1>3

-----------------------------------------------------------------------------
(* What a step leaves alone.                                               *)

\* The bytes from the adapter.
LEMMA ReadsFrame ==
  ASSUME Reads, UNCHANGED <<cdc_idx, rx, taken>>, uartPast'.sent = uartPast.sent
  PROVE  Reads'
BY DEF Reads

\* The bytes for it.
LEMMA SendsFrame ==
  ASSUME Sends, UNCHANGED <<cdc_idx, tx, got>>, uartPast'.written = uartPast.written
  PROVE  Sends'
BY DEF Sends

\* The byte in core_out().
LEMMA WritesFrame ==
  ASSUME Writes, UNCHANGED <<cdc_idx, tx, got, writer>>, uartPast'.written = uartPast.written,
         uartPast'.units = uartPast.units
  PROVE  Writes'
BY DEF Writes

\* The speed of the adapter.
LEMMA SpeedFrame ==
  ASSUME Speed, UNCHANGED <<cdc_idx, cur_baud, baud_busy, xfer, rate, refused>>
  PROVE  Speed'
BY DEF Speed

\* The divisor.
LEMMA DivisorFrame == ASSUME Divisor, UNCHANGED serial PROVE Divisor'
BY DEF Divisor

-----------------------------------------------------------------------------
(* APP.                                                                    *)

\* The registers change the speed and no byte.
LEMMA RegistersKept ==
  ASSUME UartInv, FirstRegister \/ SecondRegister \/ SpeedStays
  PROVE  UartInv'
<1>1. /\ UNCHANGED <<cdc_idx, plugged, rx, tx, want_baud, cur_baud, baud_busy, xfer, rate, refused>>
      /\ UNCHANGED <<writer, got, taken>>
      /\ uartPast' = uartPast \/ uartPast' = [uartPast EXCEPT !.bauds = @ + 1]
  BY DEF FirstRegister, SecondRegister, SpeedStays
<1>2. UartTypes /\ Numbered /\ Reads /\ Sends /\ Writes /\ Speed
  BY DEF UartInv
<1>3. /\ uartPast' \in UartPasts /\ uartPast'.units = uartPast.units
      /\ uartPast'.written = uartPast.written /\ uartPast'.sent = uartPast.sent
  BY <1>1, <1>2 DEF UartTypes, UartPasts
<1>4. UartTypes'
  BY <1>1, <1>2, <1>3 DEF UartTypes
<1>5. Numbered'
  BY <1>1, <1>2, <1>3 DEF Numbered
<1>6. Reads' /\ Sends' /\ Writes' /\ Speed'
  BY <1>1, <1>2, <1>3, ReadsFrame, SendsFrame, WritesFrame, SpeedFrame
<1>7. Divisor'
  BY FirstKept, SecondKept, StillKept
<1>8. QED
  BY <1>4, <1>5, <1>6, <1>7 DEF UartInv

\* The speed that is asked for is that of a whole divisor.
LEMMA SetBaudKept == ASSUME UartInv, usb_uart_set_baud PROVE UartInv'
<1>1. /\ want_baud' = serial.speed /\ ~serial.changed
      /\ UNCHANGED <<cdc_idx, plugged, rx, tx, cur_baud, baud_busy, xfer, rate, refused>>
      /\ UNCHANGED <<serial, writer, got, taken, uartPast>>
  BY DEF usb_uart_set_baud, still
<1>2. UartTypes /\ Numbered /\ Reads /\ Sends /\ Writes /\ Speed /\ Divisor
  BY DEF UartInv
<1>3. serial.speed \in WholeSpeeds
  BY <1>1, <1>2 DEF Divisor
<1>4. UartTypes'
  BY <1>1, <1>2, <1>3 DEF UartTypes
<1>5. Numbered'
  BY <1>1, <1>2 DEF Numbered
<1>6. Reads' /\ Sends' /\ Writes' /\ Speed' /\ Divisor'
  BY <1>1, <1>2, ReadsFrame, SendsFrame, WritesFrame, SpeedFrame, DivisorFrame
<1>7. QED
  BY <1>4, <1>5, <1>6 DEF UartInv

\* A byte between the check and the write is the newest, for the adapter there is.
LEMMA CoreOutKept == ASSUME UartInv, CoreOut PROVE UartInv'
<1>1. /\ writer = <<>> /\ cdc_idx # NoAdapter
      /\ uartPast' = [uartPast EXCEPT !.written = @ + 1]
      /\ writer' = <<[unit |-> cdc_idx, n |-> uartPast.written + 1]>>
      /\ UNCHANGED <<cdc_idx, plugged, rx, tx, want_baud, cur_baud, baud_busy, xfer, rate, refused, got, taken>>
  BY DEF CoreOut
<1>2. UartTypes /\ Numbered /\ Reads /\ Sends /\ Speed
  BY DEF UartInv
<1>3. /\ uartPast' \in UartPasts /\ uartPast'.units = uartPast.units /\ uartPast'.sent = uartPast.sent
      /\ uartPast.written \in Nat /\ uartPast'.written = uartPast.written + 1
  BY <1>1, <1>2 DEF UartTypes, UartPasts
<1>4. UartTypes'
  BY <1>1, <1>2, <1>3 DEF UartTypes
<1>5. Numbered'
  BY <1>1, <1>2, <1>3 DEF Numbered
<1>6. Reads' /\ Speed'
  BY <1>1, <1>2, <1>3, ReadsFrame, SpeedFrame
<1>7. ASSUME NEW s \in Bytes, UpTo(s, uartPast.written)
      PROVE  UpTo(s, uartPast.written + 1) /\ \A i \in DOMAIN s : s[i].n < uartPast.written + 1
  <2>1. \A i \in DOMAIN s : s[i].n \in Nat
    BY ByteOf
  <2>2. QED
    BY <1>3, <1>7, <2>1 DEF UpTo
<1>8. tx \in Bytes /\ \A u \in Units : got[u] \in Bytes
  BY <1>2 DEF UartTypes
<1>9. Sends'
  <2>1. UpTo(tx, uartPast.written + 1) /\ \A u \in Units : UpTo(got[u], uartPast.written + 1)
    BY <1>2, <1>7, <1>8 DEF Sends
  <2>2. QED
    BY <1>1, <1>2, <1>3, <2>1 DEF Sends
<1>10. Writes'
  <2> DEFINE w == [unit |-> cdc_idx, n |-> uartPast.written + 1]
  <2>1. cdc_idx \in Units /\ cdc_idx <= uartPast.units
    BY <1>1, <1>2 DEF UartTypes, Numbered
  <2>2. w \in UartByte /\ w.n = uartPast.written + 1 /\ w.unit = cdc_idx
    BY <1>3, <2>1 DEF UartByte
  <2>3. /\ \A i \in DOMAIN tx : tx[i].n < w.n
        /\ \A u \in Units : \A i \in DOMAIN got[u] : got[u][i].n < w.n
    BY <1>2, <1>7, <1>8, <2>2 DEF Sends
  <2>4. writer' = <<w>>
    BY <1>1
  <2> HIDE DEF w
  <2>5. w.unit <= cdc_idx
    BY <2>1, <2>2 DEF Units
  <2>6. QED
    BY <1>1, <1>3, <2>1, <2>2, <2>3, <2>4, <2>5 DEF Writes
<1>11. QED
  BY <1>4, <1>5, <1>6, <1>9, <1>10, ZiFiKept DEF UartInv

\* It goes into the ring of the adapter there is, the newest one.
LEMMA WriteKept == ASSUME UartInv, usb_uart_write PROVE UartInv'
<1>1. /\ writer # <<>> /\ writer' = <<>>
      /\ tx' = IF cdc_idx # NoAdapter /\ Len(tx) < TxSize THEN tx \o writer ELSE tx
      /\ UNCHANGED <<cdc_idx, plugged, rx, want_baud, cur_baud, baud_busy, xfer, rate, refused, serial>>
      /\ UNCHANGED <<got, taken, uartPast>>
  BY DEF usb_uart_write, baudVars
<1>2. UartTypes /\ Numbered /\ Reads /\ Sends /\ Writes /\ Speed /\ Divisor
  BY DEF UartInv
<1>3. Numbered' /\ Reads' /\ Speed' /\ Divisor'
  BY <1>1, <1>2, ReadsFrame, SpeedFrame, DivisorFrame DEF Numbered
<1>4. Writes'
  BY <1>1 DEF Writes
<1>5. CASE ~(cdc_idx # NoAdapter /\ Len(tx) < TxSize)
  <2>1. tx' = tx
    BY <1>1, <1>5
  <2>2. UartTypes' /\ Sends'
    BY <1>1, <1>2, <2>1, SendsFrame DEF UartTypes
  <2>3. QED
    BY <1>3, <1>4, <2>2 DEF UartInv
<1>6. CASE cdc_idx # NoAdapter /\ Len(tx) < TxSize
  <2>1. PICK w \in UartByte :
          /\ writer = <<w>> /\ w.n = uartPast.written
          /\ \A i \in DOMAIN tx : tx[i].n < w.n
          /\ \A u \in Units : \A i \in DOMAIN got[u] : got[u][i].n < w.n
          /\ w.unit <= cdc_idx /\ (w.unit # cdc_idx => tx = <<>> /\ got[cdc_idx] = <<>>)
    BY <1>1, <1>2, <1>6 DEF Writes
  <2>2. tx \in Bytes /\ cdc_idx \in Units
    BY <1>2, <1>6 DEF UartTypes, Numbered
  <2>3. tx' = Append(tx, w)
    <3>1. tx' = tx \o <<w>>
      BY <1>1, <1>6, <2>1
    <3>2. QED
      BY <2>2, <3>1, AppendProperties DEF Bytes
  <2>4. /\ tx' \in Bytes /\ DOMAIN tx' = DOMAIN tx \cup {Len(tx) + 1}
        /\ \A i \in DOMAIN tx : tx'[i] = tx[i]
        /\ tx'[Len(tx) + 1] = w
        /\ InOrder(tx) => InOrder(tx')
    BY <2>1, <2>2, <2>3, AddOf
  <2>5. UartTypes'
    BY <1>1, <1>2, <2>4 DEF UartTypes
  <2>6. InOrder(tx')
    BY <1>2, <2>4 DEF Sends
  <2>7. UpTo(tx', uartPast.written)
    <3>1. UpTo(tx, uartPast.written) /\ uartPast.written \in Nat
      BY <1>2 DEF Sends, UartTypes, UartPasts
    <3>2. QED
      BY <2>1, <2>4, <3>1 DEF UpTo
  <2>8. After(got[cdc_idx], tx')
    <3>1. After(got[cdc_idx], tx)
      BY <1>2, <1>6 DEF Sends
    <3>2. QED
      BY <2>1, <2>2, <2>4, <3>1 DEF After
  <2>9. Own(cdc_idx, tx')
    <3>1. Own(cdc_idx, tx)
      BY <1>2, <1>6 DEF Sends
    <3>2. CASE w.unit = cdc_idx
      BY <2>4, <3>1, <3>2 DEF Own
    <3>3. CASE w.unit # cdc_idx
      <4>1. tx = <<>> /\ w.unit < cdc_idx
        <5>1. w.unit \in Int /\ cdc_idx \in Int
          BY <2>2 DEF UartByte, Units
        <5>2. QED
          BY <2>1, <3>3, <5>1
      <4>2. DOMAIN tx = {} /\ Len(tx) + 1 = 1
        BY <4>1
      <4>3. QED
        BY <2>4, <4>1, <4>2 DEF Own
    <3>4. QED
      BY <3>2, <3>3
  <2>10. got[cdc_idx] # <<>> => \A i \in DOMAIN tx' : tx'[i].unit = cdc_idx
    BY <1>2, <1>6, <2>1, <2>4 DEF Sends
  <2>11. Sends'
    BY <1>1, <1>2, <1>6, <2>6, <2>7, <2>8, <2>9, <2>10 DEF Sends
  <2>12. QED
    BY <1>3, <1>4, <2>5, <2>11 DEF UartInv
<1>7. QED
  BY <1>5, <1>6

\* The first byte of the ring is the next APP has.
LEMMA ReadKept == ASSUME UartInv, usb_uart_read PROVE UartInv'
<1>1. /\ rx # <<>> /\ rx' = Tail(rx) /\ taken' = Append(taken, Head(rx))
      /\ UNCHANGED <<cdc_idx, plugged, tx, want_baud, cur_baud, baud_busy, xfer, rate, refused, serial>>
      /\ UNCHANGED <<writer, got, uartPast>>
  BY DEF usb_uart_read, baudVars
<1>2. UartTypes /\ Numbered /\ Reads /\ Sends /\ Writes /\ Speed /\ Divisor
  BY DEF UartInv
<1>3. Numbered' /\ Sends' /\ Writes' /\ Speed' /\ Divisor'
  BY <1>1, <1>2, SendsFrame, WritesFrame, SpeedFrame, DivisorFrame DEF Numbered
<1>4. rx \in Bytes /\ taken \in Bytes
  BY <1>2 DEF UartTypes
<1>5. /\ Head(rx) = rx[1] /\ 1 \in DOMAIN rx /\ Head(rx) \in UartByte
      /\ rx' \in Bytes
      /\ \A i \in DOMAIN rx' : i + 1 \in DOMAIN rx /\ rx'[i] = rx[i + 1]
      /\ InOrder(rx) => InOrder(rx') /\ \A i \in DOMAIN rx' : rx[1].n < rx'[i].n
  BY <1>1, <1>4, TailOf
<1>6. /\ taken' \in Bytes /\ DOMAIN taken' = DOMAIN taken \cup {Len(taken) + 1}
      /\ \A i \in DOMAIN taken : taken'[i] = taken[i]
      /\ taken'[Len(taken) + 1] = Head(rx)
      /\ InOrder(taken) /\ (\A i \in DOMAIN taken : taken[i].n < Head(rx).n) => InOrder(taken')
  BY <1>1, <1>4, <1>5, AddOf
<1>7. UartTypes'
  BY <1>1, <1>2, <1>5, <1>6 DEF UartTypes
<1>8. InOrder(rx') /\ InOrder(taken')
  BY <1>2, <1>5, <1>6 DEF Reads, After
<1>9. After(taken', rx')
  BY <1>2, <1>5, <1>6 DEF Reads, After
<1>10. UpTo(taken', uartPast.sent) /\ UpTo(rx', uartPast.sent)
  BY <1>2, <1>5, <1>6 DEF Reads, UpTo
<1>11. \A i \in DOMAIN rx' : rx'[i].unit = cdc_idx
  BY <1>2, <1>5 DEF Reads
<1>12. cdc_idx # NoAdapter
  BY <1>1, <1>2 DEF Reads
<1>13. Reads'
  BY <1>1, <1>8, <1>9, <1>10, <1>11, <1>12 DEF Reads
<1>14. QED
  BY <1>3, <1>7, <1>13 DEF UartInv

-----------------------------------------------------------------------------
(* The USB task.                                                           *)

\* The first adapter has the port, with nothing under way.
LEMMA MountedKept == ASSUME UartInv, tuh_cdc_mount_cb PROVE UartInv'
<1> DEFINE u == uartPast.units + 1
<1>1. /\ uartPast.units < MaxAdapters /\ uartPast' = [uartPast EXCEPT !.units = @ + 1]
      /\ plugged' = plugged \cup {u}
      /\ UNCHANGED <<want_baud, xfer, rate, refused, serial, writer, got, taken>>
  BY DEF tuh_cdc_mount_cb
<1>2. UartTypes /\ Numbered /\ Reads /\ Sends /\ Writes /\ Speed /\ Divisor
  BY DEF UartInv
<1>3. /\ uartPast.units \in Nat /\ u \in Units /\ u # NoAdapter
      /\ uartPast' \in UartPasts /\ uartPast'.units = u
      /\ uartPast'.written = uartPast.written /\ uartPast'.sent = uartPast.sent
  <2>1. uartPast \in UartPasts /\ MaxAdapters \in Nat
    BY <1>2, UartAssumption DEF UartTypes
  <2>2. uartPast.units \in 0 .. MaxAdapters /\ uartPast.units \in Nat /\ uartPast.units < MaxAdapters
    BY <1>1, <2>1 DEF UartPasts
  <2>3. u \in Units /\ u \in 0 .. MaxAdapters /\ u # NoAdapter
    BY <2>1, <2>2 DEF Units, NoAdapter
  <2> HIDE DEF u
  <2>4. uartPast' = [uartPast EXCEPT !.units = u]
    BY <1>1 DEF u
  <2>5. QED
    BY <2>1, <2>2, <2>3, <2>4 DEF UartPasts
<1>4. got[u] = <<>> /\ rate[u] = BaudOnEnum /\ \A v \in plugged : v <= uartPast.units
  BY <1>2, <1>3 DEF Numbered
<1>5. plugged \subseteq Units /\ \A v \in Units : v \in Nat
  BY <1>2 DEF UartTypes, Units
<1>6. /\ \A v \in plugged' : v <= u
      /\ \A v \in Units : v > u => got[v] = <<>> /\ rate[v] = BaudOnEnum
  BY <1>1, <1>2, <1>3, <1>4, <1>5 DEF Numbered
<1>7. Divisor'
  BY <1>1, <1>2, DivisorFrame
<1>8. CASE cdc_idx # NoAdapter
  <2>1. UNCHANGED <<cdc_idx, rx, tx, cur_baud, baud_busy>>
    BY <1>8 DEF tuh_cdc_mount_cb
  <2>2. UartTypes'
    BY <1>1, <1>2, <1>3, <2>1 DEF UartTypes
  <2>3. Numbered'
    BY <1>1, <1>2, <1>3, <1>6, <2>1 DEF Numbered
  <2>4. Reads' /\ Sends' /\ Speed'
    BY <1>1, <1>2, <1>3, <2>1, ReadsFrame, SendsFrame, SpeedFrame
  <2>5. Writes'
    <3>1. \A w \in UartByte : w.unit <= uartPast.units => w.unit <= u
      BY <1>3 DEF UartByte, Units
    <3>2. QED
      BY <1>1, <1>2, <1>3, <2>1, <3>1 DEF Writes
  <2>6. QED
    BY <1>7, <2>2, <2>3, <2>4, <2>5 DEF UartInv
<1>9. CASE cdc_idx = NoAdapter
  <2>1. cdc_idx' = u /\ rx' = <<>> /\ tx' = <<>> /\ cur_baud' = BaudOnEnum /\ baud_busy' = FALSE
    BY <1>9 DEF tuh_cdc_mount_cb, idle_again
  <2>2. <<>> \in Bytes /\ BaudOnEnum \in Speeds /\ u \in 0 .. MaxAdapters
    BY <1>3 DEF Bytes, Speeds, WholeSpeeds, Units
  <2>3. UartTypes'
    BY <1>1, <1>2, <1>3, <2>1, <2>2 DEF UartTypes
  <2>4. Numbered'
    BY <1>1, <1>3, <1>6, <2>1 DEF Numbered
  <2>5. Reads'
    BY <1>1, <1>2, <1>3, <2>1 DEF Reads, InOrder, After, UpTo
  <2>6. Sends'
    BY <1>1, <1>2, <1>3, <1>4, <2>1 DEF Sends, InOrder, After, UpTo, Own
  <2>7. Writes'
    <3> SUFFICES ASSUME writer # <<>> PROVE Writes'
      BY <1>1 DEF Writes
    <3>1. PICK w \in UartByte :
            /\ writer = <<w>> /\ w.n = uartPast.written /\ w.unit <= uartPast.units
            /\ \A v \in Units : \A i \in DOMAIN got[v] : got[v][i].n < w.n
      BY <1>2 DEF Writes
    <3>2. w.unit <= u
      BY <1>3, <3>1 DEF UartByte, Units
    <3>3. QED
      BY <1>1, <1>3, <1>4, <2>1, <3>1, <3>2 DEF Writes
  <2>8. Speed'
    <3>1. xfer = NoXfer
      BY <1>2, <1>9 DEF Speed
    <3>2. QED
      BY <1>1, <1>4, <2>1, <3>1 DEF Speed
  <2>9. QED
    BY <1>7, <2>3, <2>4, <2>5, <2>6, <2>7, <2>8 DEF UartInv
<1>10. QED
  BY <1>8, <1>9

\* Nothing is under way to an adapter that is gone.
LEMMA UnmountedKept == ASSUME UartInv, tuh_cdc_umount_cb PROVE UartInv'
<1>1. PICK u \in plugged :
        /\ plugged' = plugged \ {u}
        /\ IF u = cdc_idx THEN cdc_idx' = NoAdapter /\ rx' = <<>> /\ tx' = <<>>
           ELSE UNCHANGED <<cdc_idx, rx, tx>>
        /\ xfer' = IF xfer.unit = u THEN NoXfer ELSE xfer
  BY DEF tuh_cdc_umount_cb
<1>2. UNCHANGED <<want_baud, cur_baud, baud_busy, rate, refused, serial, writer, got, taken, uartPast>>
  BY DEF tuh_cdc_umount_cb
<1>3. UartTypes /\ Numbered /\ Reads /\ Sends /\ Writes /\ Speed /\ Divisor
  BY DEF UartInv
<1>4. u \in Units /\ u # NoAdapter
  BY <1>3 DEF UartTypes, Units, NoAdapter
<1>5. NoXfer.unit = NoAdapter /\ NoXfer \in [unit : 0 .. MaxAdapters, baud : Speeds]
  BY UartAssumption DEF NoXfer, NoAdapter, Speeds
<1>6. Divisor'
  BY <1>2, <1>3, DivisorFrame
<1>7. CASE u = cdc_idx
  <2>1. cdc_idx' = NoAdapter /\ rx' = <<>> /\ tx' = <<>> /\ xfer' = NoXfer
    BY <1>1, <1>3, <1>7 DEF Speed
  <2>2. UartTypes'
    BY <1>1, <1>2, <1>3, <1>5, <2>1, UartAssumption DEF UartTypes, Bytes, NoAdapter
  <2>3. Numbered'
    BY <1>1, <1>2, <1>3, <2>1 DEF Numbered
  <2>4. Reads'
    BY <1>2, <1>3, <2>1 DEF Reads, InOrder, After, UpTo
  <2>5. Sends'
    BY <1>2, <1>3, <2>1 DEF Sends, InOrder, After, UpTo
  <2>6. Writes'
    BY <1>2, <1>3, <2>1 DEF Writes
  <2>7. Speed'
    BY <2>1 DEF Speed
  <2>8. QED
    BY <1>6, <2>2, <2>3, <2>4, <2>5, <2>6, <2>7 DEF UartInv
<1>8. CASE u # cdc_idx
  <2>1. UNCHANGED <<cdc_idx, rx, tx>>
    BY <1>1, <1>8
  <2>2. xfer' = xfer
    BY <1>1, <1>3, <1>4, <1>5, <1>8 DEF Speed
  <2>3. UartTypes'
    BY <1>1, <1>2, <1>3, <2>1, <2>2 DEF UartTypes
  <2>4. Numbered'
    BY <1>1, <1>2, <1>3, <1>8, <2>1 DEF Numbered
  <2>5. Reads' /\ Sends' /\ Writes' /\ Speed'
    BY <1>2, <1>3, <2>1, <2>2, ReadsFrame, SendsFrame, WritesFrame, SpeedFrame
  <2>6. QED
    BY <1>6, <2>3, <2>4, <2>5 DEF UartInv
<1>9. QED
  BY <1>7, <1>8

\* A byte from the adapter is the newest.
LEMMA ReceivedKept == ASSUME UartInv, tuh_cdc_rx_cb PROVE UartInv'
<1>1. /\ uartPast' = [uartPast EXCEPT !.sent = @ + 1]
      /\ UNCHANGED <<cdc_idx, plugged, tx, want_baud, cur_baud, baud_busy, xfer, rate, refused, serial>>
      /\ UNCHANGED <<writer, got, taken>>
  BY DEF tuh_cdc_rx_cb, baudVars
<1>2. PICK u \in plugged :
        rx' = IF u = cdc_idx /\ Len(rx) < RxSize THEN Append(rx, [unit |-> u, n |-> uartPast.sent + 1]) ELSE rx
  BY DEF tuh_cdc_rx_cb
<1>3. UartTypes /\ Numbered /\ Reads /\ Sends /\ Writes /\ Speed /\ Divisor
  BY DEF UartInv
<1>4. /\ uartPast' \in UartPasts /\ uartPast'.units = uartPast.units /\ uartPast'.written = uartPast.written
      /\ uartPast.sent \in Nat /\ uartPast'.sent = uartPast.sent + 1
  BY <1>1, <1>3 DEF UartTypes, UartPasts
<1>5. Numbered'
  BY <1>1, <1>3, <1>4 DEF Numbered
<1>6. Sends' /\ Writes' /\ Speed' /\ Divisor'
  BY <1>1, <1>3, <1>4, SendsFrame, WritesFrame, SpeedFrame, DivisorFrame
<1>7. ASSUME NEW s \in Bytes, UpTo(s, uartPast.sent)
      PROVE  UpTo(s, uartPast.sent + 1) /\ \A i \in DOMAIN s : s[i].n < uartPast.sent + 1
  <2>1. \A i \in DOMAIN s : s[i].n \in Nat
    BY ByteOf
  <2>2. QED
    BY <1>4, <1>7, <2>1 DEF UpTo
<1>8. rx \in Bytes /\ taken \in Bytes
  BY <1>3 DEF UartTypes
<1>9. /\ UpTo(rx, uartPast.sent + 1) /\ \A i \in DOMAIN rx : rx[i].n < uartPast.sent + 1
      /\ UpTo(taken, uartPast.sent + 1) /\ \A i \in DOMAIN taken : taken[i].n < uartPast.sent + 1
  BY <1>3, <1>7, <1>8 DEF Reads
<1>10. UartTypes' /\ Reads'
  <2>1. CASE rx' = rx
    BY <1>1, <1>3, <1>4, <1>9, <2>1 DEF UartTypes, Reads
  <2>2. CASE rx' # rx
    <3> DEFINE e == [unit |-> u, n |-> uartPast.sent + 1]
    <3>1. u = cdc_idx /\ rx' = Append(rx, e)
      BY <1>2, <2>2
    <3>2. e \in UartByte /\ e.n = uartPast.sent + 1 /\ e.unit = cdc_idx
      BY <1>3, <1>4, <3>1 DEF UartByte, UartTypes
    <3> HIDE DEF e
    <3>3. /\ rx' \in Bytes /\ DOMAIN rx' = DOMAIN rx \cup {Len(rx) + 1}
          /\ \A i \in DOMAIN rx : rx'[i] = rx[i]
          /\ rx'[Len(rx) + 1] = e
          /\ InOrder(rx) /\ (\A i \in DOMAIN rx : rx[i].n < e.n) => InOrder(rx')
      BY <1>8, <3>1, <3>2, AddOf
    <3>4. UartTypes'
      BY <1>1, <1>3, <1>4, <3>3 DEF UartTypes
    <3>5. InOrder(rx')
      BY <1>3, <1>9, <3>2, <3>3 DEF Reads
    <3>6. After(taken, rx')
      BY <1>3, <1>9, <3>2, <3>3 DEF Reads, After
    <3>7. UpTo(rx', uartPast.sent + 1)
      BY <1>4, <1>9, <3>2, <3>3 DEF UpTo
    <3>8. \A i \in DOMAIN rx' : rx'[i].unit = cdc_idx
      BY <1>3, <3>2, <3>3 DEF Reads
    <3>9. cdc_idx # NoAdapter
      BY <1>3, <3>1 DEF UartTypes, Units, NoAdapter
    <3>10. Reads'
      BY <1>1, <1>3, <1>4, <1>9, <3>5, <3>6, <3>7, <3>8, <3>9 DEF Reads
    <3>11. QED
      BY <3>4, <3>10
  <2>3. QED
    BY <2>1, <2>2
<1>11. QED
  BY <1>5, <1>6, <1>10 DEF UartInv

\* One speed at a time is under way, to the adapter there is.
LEMMA SetBaudrateKept == ASSUME UartInv, SetBaudrate PROVE UartInv'
<1>1. /\ cdc_idx # NoAdapter /\ ~baud_busy
      /\ baud_busy' = TRUE /\ xfer' = [unit |-> cdc_idx, baud |-> want_baud]
      /\ UNCHANGED <<cdc_idx, plugged, rx, tx, want_baud, cur_baud, rate, refused, serial, writer, got, taken, uartPast>>
  BY DEF SetBaudrate
<1>2. UartTypes /\ Numbered /\ Reads /\ Sends /\ Writes /\ Speed /\ Divisor
  BY DEF UartInv
<1>3. /\ xfer' \in [unit : 0 .. MaxAdapters, baud : Speeds]
      /\ xfer'.unit = cdc_idx /\ xfer'.baud = want_baud /\ want_baud \in WholeSpeeds
      /\ xfer' # NoXfer
  BY <1>1, <1>2 DEF UartTypes, Speeds, NoXfer, NoAdapter
<1>4. UartTypes'
  BY <1>1, <1>2, <1>3 DEF UartTypes
<1>5. Numbered'
  BY <1>1, <1>2 DEF Numbered
<1>6. Reads' /\ Sends' /\ Writes' /\ Divisor'
  BY <1>1, <1>2, ReadsFrame, SendsFrame, WritesFrame, DivisorFrame
<1>7. Speed'
  BY <1>1, <1>2, <1>3 DEF Speed
<1>8. QED
  BY <1>4, <1>5, <1>6, <1>7 DEF UartInv

\* What the adapter got follows what it had, and what is left follows that.
LEMMA SendKept == ASSUME UartInv, SendBytes PROVE UartInv'
<1> DEFINE u == cdc_idx
<1>1. /\ u # NoAdapter /\ tx # <<>>
      /\ UNCHANGED <<cdc_idx, plugged, rx, want_baud, cur_baud, baud_busy, xfer, rate, refused, serial>>
      /\ UNCHANGED <<writer, taken, uartPast>>
  BY DEF SendBytes, baudVars
<1>2. PICK n \in 1 .. Len(tx) :
        got' = [got EXCEPT ![cdc_idx] = @ \o SubSeq(tx, 1, n)] /\ tx' = SubSeq(tx, n + 1, Len(tx))
  BY DEF SendBytes
<1>3. UartTypes /\ Numbered /\ Reads /\ Sends /\ Writes /\ Speed /\ Divisor
  BY DEF UartInv
<1>4. /\ tx \in Bytes /\ u \in Units /\ got \in [Units -> Bytes] /\ got[u] \in Bytes
      /\ Len(tx) \in Nat /\ n \in Nat /\ 1 <= n /\ n \in 0 .. Len(tx)
  <2>1. tx \in Bytes /\ u \in Units /\ got \in [Units -> Bytes]
    BY <1>1, <1>3 DEF UartTypes, Numbered
  <2>2. Len(tx) \in Nat
    BY <2>1, LenProperties DEF Bytes
  <2>3. QED
    BY <2>1, <2>2
<1> DEFINE a == SubSeq(tx, 1, n)
           b == SubSeq(tx, n + 1, Len(tx))
<1>5. /\ a \in Bytes /\ b \in Bytes /\ Len(a) = n
      /\ \A i \in DOMAIN a : i \in DOMAIN tx /\ a[i] = tx[i]
      /\ \A i \in DOMAIN b : n + i \in DOMAIN tx /\ b[i] = tx[n + i]
      /\ InOrder(tx) => InOrder(a) /\ InOrder(b) /\ After(a, b)
  BY <1>4, CutOf
<1>6. tx' = b /\ got' = [got EXCEPT ![u] = @ \o a]
  BY <1>2
<1> HIDE DEF a, b
<1> DEFINE g == got[u]
           ga == g \o a
<1>7. /\ ga \in Bytes
      /\ DOMAIN ga = 1 .. Len(g) + Len(a)
      /\ \A i \in DOMAIN g : ga[i] = g[i]
      /\ \A j \in DOMAIN a : ga[Len(g) + j] = a[j]
      /\ \A k \in DOMAIN ga : k \in DOMAIN g \/ (k - Len(g) \in DOMAIN a /\ k > Len(g) /\ ga[k] = a[k - Len(g)])
      /\ InOrder(g) /\ InOrder(a) /\ After(g, a) => InOrder(ga)
  BY <1>4, <1>5, JoinOf
<1>8. got' = [got EXCEPT ![u] = ga] /\ got' \in [Units -> Bytes]
  BY <1>4, <1>6, <1>7
<1> HIDE DEF ga
<1>9. got'[u] = ga /\ \A v \in Units : v # u => got'[v] = got[v]
  BY <1>4, <1>8
<1>10. InOrder(tx) /\ UpTo(tx, uartPast.written) /\ After(g, tx) /\ Own(u, tx) /\ Own(u, g)
       /\ InOrder(g) /\ UpTo(g, uartPast.written)
       /\ (g # <<>> => \A i \in DOMAIN tx : tx[i].unit = u)
  BY <1>1, <1>3, <1>4 DEF Sends
<1>11. UartTypes'
  BY <1>1, <1>3, <1>5, <1>6, <1>8 DEF UartTypes
<1>12. Numbered'
  <2>1. u <= uartPast.units /\ u \in Nat /\ uartPast.units \in Nat
    BY <1>1, <1>3, <1>4 DEF Numbered, UartTypes, UartPasts, Units
  <2>2. \A v \in Units : v > uartPast.units => v # u
    BY <2>1
  <2>3. QED
    BY <1>1, <1>3, <1>9, <2>2 DEF Numbered
<1>13. Reads' /\ Speed' /\ Divisor'
  BY <1>1, <1>3, ReadsFrame, SpeedFrame, DivisorFrame
<1>14. After(g, a)
  BY <1>5, <1>10 DEF After
<1>15. InOrder(ga)
  BY <1>5, <1>7, <1>10, <1>14
<1>16. UpTo(ga, uartPast.written)
  BY <1>5, <1>7, <1>10 DEF UpTo
<1>17. Own(u, ga)
  <2> SUFFICES ASSUME NEW k \in DOMAIN ga PROVE ga[k].unit = u \/ (k = 1 /\ ga[k].unit < u)
    BY DEF Own
  <2>1. CASE k \in DOMAIN g
    BY <1>7, <1>10, <2>1 DEF Own
  <2>2. CASE k \notin DOMAIN g
    <3>1. k - Len(g) \in DOMAIN a /\ ga[k] = tx[k - Len(g)] /\ k - Len(g) \in DOMAIN tx
      BY <1>5, <1>7, <2>2
    <3>2. CASE g # <<>>
      BY <1>10, <3>1, <3>2
    <3>3. CASE g = <<>>
      <4>1. Len(g) = 0 /\ k \in Int
        BY <1>4, <1>7, <3>3, LenProperties DEF Bytes
      <4>2. k - Len(g) = k
        BY <4>1
      <4>3. QED
        BY <1>10, <3>1, <4>2 DEF Own
    <3>4. QED
      BY <3>2, <3>3
  <2>3. QED
    BY <2>1, <2>2
<1>18. After(ga, b)
  <2> SUFFICES ASSUME NEW k \in DOMAIN ga, NEW j \in DOMAIN b PROVE ga[k].n < b[j].n
    BY DEF After
  <2>1. CASE k \in DOMAIN g
    BY <1>5, <1>7, <1>10, <2>1 DEF After
  <2>2. CASE k \notin DOMAIN g
    BY <1>5, <1>7, <1>10, <2>2 DEF After
  <2>3. QED
    BY <2>1, <2>2
<1>19. \A j \in DOMAIN b : b[j].unit = u
  <2> SUFFICES ASSUME NEW j \in DOMAIN b PROVE b[j].unit = u
    OBVIOUS
  <2>1. n + j \in DOMAIN tx /\ b[j] = tx[n + j]
    BY <1>5
  <2>2. DOMAIN b = 1 .. Len(b)
    BY <1>5, LenProperties DEF Bytes
  <2>3. n + j # 1
    BY <1>4, <2>2
  <2>4. QED
    BY <1>10, <2>1, <2>3 DEF Own
<1>20. Sends'
  <2>1. InOrder(b) /\ UpTo(b, uartPast.written)
    BY <1>5, <1>10 DEF UpTo
  <2>2. \A v \in Units : InOrder(got'[v]) /\ UpTo(got'[v], uartPast.written) /\ Own(v, got'[v])
    BY <1>3, <1>9, <1>15, <1>16, <1>17 DEF Sends
  <2>3. Own(u, b)
    BY <1>19 DEF Own
  <2>4. QED
    BY <1>1, <1>6, <1>9, <1>18, <1>19, <2>1, <2>2, <2>3 DEF Sends
<1>21. Writes'
  <2> SUFFICES ASSUME writer # <<>> PROVE Writes'
    BY <1>1 DEF Writes
  <2>1. PICK w \in UartByte :
          /\ writer = <<w>> /\ w.n = uartPast.written /\ w.unit <= uartPast.units
          /\ \A i \in DOMAIN tx : tx[i].n < w.n
          /\ \A v \in Units : \A i \in DOMAIN got[v] : got[v][i].n < w.n
          /\ w.unit = u
    BY <1>1, <1>3 DEF Writes
  <2>2. \A i \in DOMAIN b : b[i].n < w.n
    BY <1>5, <2>1
  <2>3. \A i \in DOMAIN ga : ga[i].n < w.n
    BY <1>4, <1>5, <1>7, <2>1
  <2>4. \A v \in Units : \A i \in DOMAIN got'[v] : got'[v][i].n < w.n
    BY <1>9, <2>1, <2>3
  <2>5. w.unit <= u
    BY <1>4, <2>1 DEF Units
  <2>6. QED
    BY <1>1, <1>6, <2>1, <2>2, <2>4, <2>5 DEF Writes
<1>22. QED
  BY <1>11, <1>12, <1>13, <1>20, <1>21 DEF UartInv

\* The adapter has the speed, or it is known to refuse it.
LEMMA BaudDoneKept == ASSUME UartInv, baud_done PROVE UartInv'
<1>1. /\ xfer # NoXfer /\ xfer' = NoXfer /\ cur_baud' = xfer.baud /\ baud_busy' = FALSE
      /\ UNCHANGED <<cdc_idx, plugged, rx, tx, want_baud, serial, writer, got, taken, uartPast>>
  BY DEF baud_done
<1>2. PICK ok \in BOOLEAN :
        /\ rate' = IF ok THEN [rate EXCEPT ![xfer.unit] = xfer.baud] ELSE rate
        /\ refused' = IF ok THEN refused ELSE [refused EXCEPT ![xfer.unit] = @ \cup {xfer.baud}]
  BY DEF baud_done
<1>3. UartTypes /\ Numbered /\ Reads /\ Sends /\ Writes /\ Speed /\ Divisor
  BY DEF UartInv
<1>4. /\ xfer.unit = cdc_idx /\ cdc_idx # NoAdapter /\ cdc_idx \in Units /\ cdc_idx <= uartPast.units
      /\ xfer.baud \in WholeSpeeds /\ uartPast.units \in Nat
  BY <1>1, <1>3 DEF Speed, Numbered, UartTypes, UartPasts
<1>5. NoXfer \in [unit : 0 .. MaxAdapters, baud : Speeds]
  BY UartAssumption DEF NoXfer, NoAdapter, Speeds
<1>6. rate' \in [Units -> WholeSpeeds] /\ refused' \in [Units -> SUBSET WholeSpeeds]
      /\ (\A v \in Units : v # cdc_idx => rate'[v] = rate[v])
      /\ (xfer.baud # rate'[cdc_idx] => xfer.baud \in refused'[cdc_idx])
  <2>1. rate \in [Units -> WholeSpeeds] /\ refused \in [Units -> SUBSET WholeSpeeds]
    BY <1>3 DEF UartTypes
  <2>2. CASE ok
    BY <1>2, <1>4, <2>1, <2>2
  <2>3. CASE ~ok
    BY <1>2, <1>4, <2>1, <2>3
  <2>4. QED
    BY <2>2, <2>3
<1>7. UartTypes'
  BY <1>1, <1>3, <1>4, <1>5, <1>6 DEF UartTypes, Speeds
<1>8. Numbered'
  <2>1. \A v \in Units : v > uartPast.units => v # cdc_idx
    BY <1>4 DEF Units
  <2>2. QED
    BY <1>1, <1>3, <1>6, <2>1 DEF Numbered
<1>9. Reads' /\ Sends' /\ Writes' /\ Divisor'
  BY <1>1, <1>3, ReadsFrame, SendsFrame, WritesFrame, DivisorFrame
<1>10. Speed'
  BY <1>1, <1>6 DEF Speed
<1>11. QED
  BY <1>7, <1>8, <1>9, <1>10 DEF UartInv

-----------------------------------------------------------------------------
(* The theorems of the adapter.                                            *)

\* The inductive invariant of the USB-UART adapter: whose each byte in the rings is, and
\* what the speeds and the transfer of one mean.
THEOREM UartInvariant == UartSpec => []UartInv
<1>1. UartInit => UartInv
  <2> SUFFICES ASSUME UartInit PROVE UartInv
    OBVIOUS
  <2> USE DEF UartInit
  <2>1. /\ <<>> \in Bytes /\ BaudOnEnum \in WholeSpeeds /\ BaudOnEnum \in Int /\ 0 \in Speeds
        /\ 0 \in 0 .. MaxAdapters
    BY UartAssumption DEF Bytes, Speeds, WholeSpeeds, BaudOnEnum
  <2>2. UartTypes
    BY <2>1 DEF UartTypes, UartPasts, NoAdapter, NoXfer
  <2>3. Numbered
    BY DEF Numbered
  <2>4. Reads
    BY DEF Reads, InOrder, After, UpTo
  <2>5. Sends
    BY DEF Sends, InOrder, UpTo, Own
  <2>6. Writes /\ Speed
    BY DEF Writes, Speed
  <2>7. Divisor
    <3>1. 0 \in Octets
      BY DEF Octets
    <3>2. serial \in Serials /\ serial.next = <<>> /\ serial.speed = BaudOnEnum
      BY <2>1, <3>1 DEF Serials
    <3>3. QED
      BY <2>1, <3>2 DEF Divisor
  <2>8. QED
    BY <2>2, <2>3, <2>4, <2>5, <2>6, <2>7 DEF UartInv
<1>2. UartInv /\ [UartNext]_uartVars => UartInv'
  <2> SUFFICES ASSUME UartInv, [UartNext]_uartVars PROVE UartInv'
    OBVIOUS
  <2>1. CASE CoreOut
    BY <2>1, CoreOutKept
  <2>2. CASE usb_uart_write
    BY <2>2, WriteKept
  <2>3. CASE usb_uart_read
    BY <2>3, ReadKept
  <2>4. CASE FirstRegister \/ SecondRegister \/ SpeedStays
    BY <2>4, RegistersKept
  <2>5. CASE usb_uart_set_baud
    BY <2>5, SetBaudKept
  <2>6. CASE tuh_cdc_mount_cb
    BY <2>6, MountedKept
  <2>7. CASE tuh_cdc_umount_cb
    BY <2>7, UnmountedKept
  <2>8. CASE tuh_cdc_rx_cb
    BY <2>8, ReceivedKept
  <2>9. CASE SetBaudrate
    BY <2>9, SetBaudrateKept
  <2>10. CASE SendBytes
    BY <2>10, SendKept
  <2>11. CASE baud_done
    BY <2>11, BaudDoneKept
  <2>12. CASE UNCHANGED uartVars
    <3>1. /\ UNCHANGED <<cdc_idx, plugged, rx, tx, want_baud, cur_baud, baud_busy, xfer, rate, refused>>
          /\ UNCHANGED <<serial, writer, got, taken, uartPast>>
      BY <2>12 DEF uartVars
    <3>2. UartTypes' /\ Numbered'
      BY <3>1 DEF UartInv, UartTypes, Numbered
    <3>3. Reads' /\ Sends' /\ Writes' /\ Speed' /\ Divisor'
      BY <3>1, ReadsFrame, SendsFrame, WritesFrame, SpeedFrame, DivisorFrame DEF UartInv
    <3>4. QED
      BY <3>2, <3>3 DEF UartInv
  <2>13. QED
    BY <2>1, <2>2, <2>3, <2>4, <2>5, <2>6, <2>7, <2>8, <2>9, <2>10, <2>11, <2>12 DEF UartNext
<1>3. QED
  BY <1>1, <1>2, PTL DEF UartSpec

\* An adapter gets its own bytes, in order, APP the adapter's, and the adapter has a speed of
\* a whole divisor, for rings of any size, any divisors and any number of adapters that come
\* and go at any time (usb_uart_host.c, serial_bridge.c).
THEOREM UartIsRight == UartSpec => []UartRight
<1>1. UartInv => UartRight
  <2> SUFFICES ASSUME UartInv PROVE UartRight
    OBVIOUS
  <2>1. UartTypes /\ Reads /\ Sends /\ Speed /\ Divisor
    BY DEF UartInv
  <2>2. OwnBytes
    BY <2>1 DEF OwnBytes, Sends, Own
  <2>3. ReadInOrder
    BY <2>1, JoinOf DEF ReadInOrder, Reads, UartTypes
  <2>4. BaudRight
    BY <2>1 DEF BaudRight, Speed
  <2>5. SpeedWhole
    BY <2>1 DEF SpeedWhole, UartTypes, Divisor
  <2>6. SpeedsKnown
    <3>1. \A dll, dlm \in Octets : Possible(serial_set_speed(dll, dlm))
      BY SpeedOf, SMT DEF Possible
    <3>2. QED
      BY <3>1, Zenon DEF SpeedsKnown, Octets
  <2>7. QED
    BY <2>2, <2>3, <2>4, <2>5, <2>6 DEF UartRight
<1>2. QED
  BY <1>1, UartInvariant, PTL

-----------------------------------------------------------------------------
(* The MIDI keyboard: the inductive invariant.                             *)

MidiBytes == [seq : Nat, n : Nat, i : Nat, len : Nat, from : Nat]
CoreBytes == [seq : Nat, n : Nat, i : Nat, len : Nat, from : Nat \X Nat]

MidiDevs == [dev : Nat, armed : BOOLEAN, seq : Nat, caps : BOOLEAN]
Sendings == [i : Nat, len : Nat, take : BOOLEAN, core : Nat]
MidiWays == [queue : Seq(MidiBytes), hand : Seq(MidiBytes), load : {"no", "bitstream", "setup"}, core : Nat]
MidiPasts ==
  [units : Nat, packets : Nat, loads : Nat, n : Nat, got : Seq(CoreBytes), takes : Seq(BOOLEAN), stopped : BOOLEAN]

MidiTypes ==
  /\ midi \in MidiDevs /\ sending \in Sendings /\ midiPast \in MidiPasts
  /\ midiWay \in MidiWays /\ Len(midiWay.hand) <= 1

\* The keyboard is read, or what came is sent, or reading has stopped.
Keyboard ==
  /\ midi.dev # 0 => midi.armed \/ midiPast.stopped \/ sending # NoneSending
  /\ midi.armed => midi.dev # 0
  /\ sending # NoneSending => midi.dev # 0 /\ 1 <= sending.i /\ sending.i <= sending.len

\* The count goes round with the bytes.
Counted(b) == 1 <= b.n /\ b.n <= midiPast.n /\ b.seq = (b.n - 1) % SEQ
Counts ==
  /\ midi.seq = midiPast.n % SEQ
  /\ \A k \in DOMAIN midiWay.queue : Counted(midiWay.queue[k])
  /\ midiWay.hand # <<>> => Counted(midiWay.hand[1])
  /\ \A k \in DOMAIN midiPast.got : Counted(midiPast.got[k])

\* From the core over the byte in hand to the end of the queue each follows the one before.
FollowedBy(b) == IF b.i < b.len THEN b.i + 1 ELSE 1
Follows(b, c) == b.n < c.n /\ (c.n = b.n + 1 => c.i = FollowedBy(b))
Chained(s) == \A k \in 1 .. Len(s) - 1 : Follows(s[k], s[k + 1])
LastOf(s) == s[Len(s)]
Chain ==
  /\ Chained(midiWay.queue) /\ Chained(midiPast.got)
  /\ midiWay.hand # <<>> /\ midiWay.queue # <<>> => Follows(midiWay.hand[1], midiWay.queue[1])
  /\ midiPast.got # <<>> /\ midiWay.hand # <<>> => Follows(LastOf(midiPast.got), midiWay.hand[1])
  /\ midiPast.got # <<>> /\ midiWay.hand = <<>> /\ midiWay.queue # <<>> =>
       Follows(LastOf(midiPast.got), midiWay.queue[1])

\* The newest byte is the one before the next that is sent.
Goes(b) == b.n = midiPast.n => IF sending.take THEN sending.i = FollowedBy(b) ELSE b.i = b.len
Newest ==
  /\ midiWay.queue # <<>> => Goes(LastOf(midiWay.queue))
  /\ midiWay.queue = <<>> /\ midiWay.hand # <<>> => Goes(midiWay.hand[1])
  /\ midiWay.queue = <<>> /\ midiWay.hand = <<>> /\ midiPast.got # <<>> => Goes(LastOf(midiPast.got))

\* What is under way is for a core that takes it, that there is or was.
ForTaker(core) == core \in 1 .. midiWay.core /\ midiPast.takes[core]
Came(from) ==
  /\ from[1] \in 1 .. midiWay.core /\ from[2] \in 1 .. midiWay.core
  /\ ~midiPast.takes[from[2]] => from[1] < from[2]
Cores ==
  /\ Len(midiPast.takes) = midiWay.core
  /\ midi.caps => ForTaker(midiWay.core)
  /\ sending.take => ForTaker(sending.core)
  /\ \A k \in DOMAIN midiWay.queue : ForTaker(midiWay.queue[k].from)
  /\ midiWay.hand # <<>> => ForTaker(midiWay.hand[1].from)
  /\ \A k \in DOMAIN midiPast.got : Came(midiPast.got[k].from)

MidiInv == MidiTypes /\ Keyboard /\ Counts /\ Chain /\ Newest /\ Cores

-----------------------------------------------------------------------------
(* Counts that wrap, and chains of bytes.                                  *)

\* The remainder and the quotient.
LEMMA ModOf ==
  ASSUME NEW m \in Nat \ {0}, NEW a \in Nat
  PROVE  /\ a % m \in Nat /\ a % m < m /\ a \div m \in Int
         /\ a = m * (a \div m) + (a % m)
<1>1. a \div m \in Int
  BY SMT
<1>2. a % m \in Nat /\ a % m \in Int /\ a % m < m
  BY SMT
<1>3. a = m * (a \div m) + (a % m)
  BY SMT
<1>4. QED
  BY <1>1, <1>2, <1>3

\* No other number below m is a remainder.
LEMMA ModIs ==
  ASSUME NEW m \in Nat \ {0}, NEW a \in Nat, NEW q \in Int, NEW r \in Nat, r < m, a = m * q + r
  PROVE  a % m = r
<1> DEFINE p == a \div m
           s == a % m
<1>1. s \in Nat /\ s < m /\ p \in Int /\ a = m * p + s
  BY ModOf
<1> HIDE DEF p, s
<1>2. m * p \in Int /\ m * q \in Int
  BY <1>1
<1>3. CASE p < q
  <2>1. m * (p + 1) <= m * q
    BY <1>1, <1>3
  <2>2. m * (p + 1) = m * p + m
    BY <1>1
  <2>3. QED
    BY <1>1, <1>2, <2>1, <2>2
<1>4. CASE q < p
  <2>1. m * (q + 1) <= m * p
    BY <1>1, <1>4
  <2>2. m * (q + 1) = m * q + m
    BY <1>1
  <2>3. QED
    BY <1>1, <1>2, <2>1, <2>2
<1>5. CASE p = q
  <2>1. s = r
    BY <1>1, <1>2, <1>5
  <2>2. QED
    BY <2>1 DEF s
<1>6. QED
  BY <1>1, <1>3, <1>4, <1>5

\* A count that wraps is the remainder of the count.
LEMMA ModNext ==
  ASSUME NEW m \in Nat \ {0}, NEW a \in Nat
  PROVE  ((a % m) + 1) % m = (a + 1) % m
<1> DEFINE p == a \div m
           s == a % m
<1>1. s \in Nat /\ s < m /\ p \in Int /\ a = m * p + s
  BY ModOf
<1> HIDE DEF p, s
<1>2. m * p \in Int /\ m * (p + 1) = m * p + m /\ m * 0 = 0 /\ m * 1 = m
  BY <1>1
<1>3. CASE s + 1 < m
  <2>1. s + 1 \in Nat /\ a + 1 \in Nat /\ a + 1 = m * p + (s + 1) /\ s + 1 = m * 0 + (s + 1)
    BY <1>1, <1>2
  <2>2. (a + 1) % m = s + 1
    BY <1>1, <1>3, <2>1, ModIs
  <2>3. (s + 1) % m = s + 1
    BY <1>1, <1>3, <2>1, ModIs
  <2>4. QED
    BY <2>2, <2>3 DEF s
<1>4. CASE ~(s + 1 < m)
  <2>1. s + 1 = m
    BY <1>1, <1>4
  <2>2. a + 1 \in Nat /\ s + 1 \in Nat /\ a + 1 = m * (p + 1) + 0 /\ s + 1 = m * 1 + 0
    BY <1>1, <1>2, <2>1
  <2>3. 0 \in Nat /\ 0 < m /\ p + 1 \in Int /\ 1 \in Int
    BY <1>1
  <2>4. (a + 1) % m = 0
    BY <2>2, <2>3, ModIs
  <2>5. (s + 1) % m = 0
    BY <2>2, <2>3, ModIs
  <2>6. QED
    BY <2>4, <2>5 DEF s
<1>5. QED
  BY <1>3, <1>4

\* Less than m apart, two remainders are equal only for the same number.
LEMMA ModSame ==
  ASSUME NEW m \in Nat \ {0}, NEW x \in Nat, NEW y \in Nat, x <= y, y < x + m, x % m = y % m
  PROVE  x = y
<1> DEFINE p == x \div m
           q == y \div m
           r == x % m
<1>1. r \in Nat /\ r < m /\ p \in Int /\ q \in Int /\ x = m * p + r /\ y = m * q + r
  BY ModOf
<1> HIDE DEF p, q, r
<1>2. m * p \in Int /\ m * q \in Int
  BY <1>1
<1>3. CASE p < q
  <2>1. m * (p + 1) <= m * q
    BY <1>1, <1>3
  <2>2. m * (p + 1) = m * p + m
    BY <1>1
  <2>3. QED
    BY <1>1, <1>2, <2>1, <2>2
<1>4. CASE q < p
  <2>1. m * (q + 1) <= m * p
    BY <1>1, <1>4
  <2>2. m * (q + 1) = m * q + m
    BY <1>1
  <2>3. QED
    BY <1>1, <1>2, <2>1, <2>2
<1>5. CASE p = q
  BY <1>1, <1>5
<1>6. QED
  BY <1>1, <1>3, <1>4, <1>5

\* One element more.
LEMMA LongerBy ==
  ASSUME NEW S, NEW s \in Seq(S), NEW e \in S
  PROVE  /\ Append(s, e) \in Seq(S) /\ Append(s, e) # <<>> /\ Len(Append(s, e)) = Len(s) + 1
         /\ DOMAIN Append(s, e) = 1 .. Len(s) + 1 /\ Len(s) \in Nat /\ DOMAIN s = 1 .. Len(s)
         /\ \A k \in 1 .. Len(s) : Append(s, e)[k] = s[k]
         /\ LastOf(Append(s, e)) = e /\ Append(s, e)[Len(s) + 1] = e
<1>1. Len(s) \in Nat /\ DOMAIN s = 1 .. Len(s)
  BY LenProperties
<1>2. /\ Append(s, e) \in Seq(S) /\ Len(Append(s, e)) = Len(s) + 1
      /\ \A i \in 1 .. Len(s) : Append(s, e)[i] = s[i]
      /\ Append(s, e)[Len(s) + 1] = e
  BY AppendProperties
<1>3. DOMAIN Append(s, e) = 1 .. Len(s) + 1
  BY <1>2, LenProperties
<1>4. Append(s, e) # <<>>
  BY <1>1, <1>2, EmptySeq
<1>5. QED
  BY <1>1, <1>2, <1>3, <1>4 DEF LastOf

\* One element less.
LEMMA ShorterBy ==
  ASSUME NEW S, NEW s \in Seq(S), s # <<>>
  PROVE  /\ Tail(s) \in Seq(S) /\ Head(s) = s[1] /\ Head(s) \in S /\ 1 \in DOMAIN s
         /\ Len(s) \in Nat /\ Len(s) >= 1 /\ DOMAIN s = 1 .. Len(s)
         /\ Len(Tail(s)) = Len(s) - 1 /\ DOMAIN Tail(s) = 1 .. Len(s) - 1
         /\ \A k \in 1 .. Len(s) - 1 : Tail(s)[k] = s[k + 1]
         /\ Tail(s) = <<>> => LastOf(s) = s[1]
         /\ Tail(s) # <<>> => LastOf(Tail(s)) = LastOf(s) /\ 1 \in 1 .. Len(s) - 1
<1>1. Len(s) \in Nat /\ DOMAIN s = 1 .. Len(s) /\ Len(s) # 0
  BY LenProperties, EmptySeq
<1>2. /\ Head(s) = s[1] /\ Head(s) \in S /\ Tail(s) \in Seq(S) /\ Len(Tail(s)) = Len(s) - 1
      /\ \A k \in 1 .. Len(Tail(s)) : Tail(s)[k] = s[k + 1]
  BY HeadTailProperties
<1>3. DOMAIN Tail(s) = 1 .. Len(s) - 1
  BY <1>2, LenProperties
<1>4. Tail(s) = <<>> => LastOf(s) = s[1]
  <2>1. Tail(s) = <<>> => Len(s) = 1
    BY <1>1, <1>2
  <2>2. QED
    BY <2>1 DEF LastOf
<1>5. Tail(s) # <<>> => LastOf(Tail(s)) = LastOf(s) /\ 1 \in 1 .. Len(s) - 1
  <2> SUFFICES ASSUME Tail(s) # <<>> PROVE LastOf(Tail(s)) = LastOf(s) /\ 1 \in 1 .. Len(s) - 1
    OBVIOUS
  <2>1. Len(s) - 1 # 0
    BY <1>2, EmptySeq
  <2>2. Len(s) - 1 \in 1 .. Len(s) - 1 /\ 1 \in 1 .. Len(s) - 1 /\ Len(s) - 1 + 1 = Len(s)
    BY <1>1, <2>1
  <2>3. Tail(s)[Len(s) - 1] = s[Len(s) - 1 + 1]
    BY <1>2, <2>2
  <2>4. QED
    BY <1>2, <2>2, <2>3 DEF LastOf
<1>6. QED
  BY <1>1, <1>2, <1>3, <1>4, <1>5

\* A chain grows by a byte that follows.
LEMMA ChainAdd ==
  ASSUME NEW S, NEW s \in Seq(S), NEW e \in S, Chained(s), s # <<>> => Follows(LastOf(s), e)
  PROVE  Chained(Append(s, e))
<1> DEFINE r == Append(s, e)
<1>1. /\ Len(r) = Len(s) + 1 /\ Len(s) \in Nat
      /\ \A k \in 1 .. Len(s) : r[k] = s[k]
      /\ r[Len(s) + 1] = e
  BY LongerBy
<1> HIDE DEF r
<1> SUFFICES ASSUME NEW k \in 1 .. Len(s) PROVE Follows(r[k], r[k + 1])
  <2>1. Len(r) - 1 = Len(s)
    BY <1>1
  <2>2. QED
    BY <2>1 DEF Chained, r
<1>2. CASE k = Len(s)
  <2>1. s # <<>>
    BY <1>2
  <2>2. QED
    BY <1>1, <1>2, <2>1 DEF LastOf
<1>3. CASE k # Len(s)
  <2>1. k \in 1 .. Len(s) - 1 /\ k + 1 \in 1 .. Len(s)
    BY <1>1, <1>3
  <2>2. QED
    BY <1>1, <2>1 DEF Chained
<1>4. QED
  BY <1>2, <1>3

\* Its rest is a chain, that follows the first.
LEMMA ChainRest ==
  ASSUME NEW S, NEW s \in Seq(S), s # <<>>, Chained(s)
  PROVE  Chained(Tail(s)) /\ (Tail(s) # <<>> => Follows(s[1], Tail(s)[1]))
<1> DEFINE r == Tail(s)
<1>1. /\ Len(r) = Len(s) - 1 /\ Len(s) \in Nat
      /\ \A k \in 1 .. Len(s) - 1 : r[k] = s[k + 1]
      /\ r # <<>> => 1 \in 1 .. Len(s) - 1
  BY ShorterBy
<1> HIDE DEF r
<1>2. Chained(r)
  <2> SUFFICES ASSUME NEW k \in 1 .. Len(r) - 1 PROVE Follows(r[k], r[k + 1])
    BY DEF Chained
  <2>1. k \in 1 .. Len(s) - 1 /\ k + 1 \in 1 .. Len(s) - 1
    BY <1>1
  <2>2. r[k] = s[k + 1] /\ r[k + 1] = s[k + 1 + 1]
    BY <1>1, <2>1
  <2>3. QED
    BY <2>1, <2>2 DEF Chained
<1>3. r # <<>> => Follows(s[1], r[1])
  <2>1. r # <<>> => r[1] = s[1 + 1]
    BY <1>1
  <2>2. QED
    BY <1>1, <2>1 DEF Chained
<1>4. QED
  BY <1>2, <1>3 DEF r

-----------------------------------------------------------------------------
(* The steps of the MIDI keyboard.                                         *)

SameBytes ==
  midiWay'.queue = midiWay.queue /\ midiWay'.hand = midiWay.hand /\ midiPast'.got = midiPast.got

\* The bytes under way have a place in their message.
LEMMA NewestTyped ==
  ASSUME MidiTypes
  PROVE  /\ midiWay.queue # <<>> => LastOf(midiWay.queue) \in MidiBytes /\ LastOf(midiWay.queue).i \in Nat
         /\ midiWay.hand # <<>> => midiWay.hand[1] \in MidiBytes /\ midiWay.hand[1].i \in Nat /\ midiWay.hand = <<midiWay.hand[1]>>
         /\ midiPast.got # <<>> => LastOf(midiPast.got) \in CoreBytes /\ LastOf(midiPast.got).i \in Nat
<1>1. /\ midiWay.queue \in Seq(MidiBytes) /\ midiWay.hand \in Seq(MidiBytes) /\ Len(midiWay.hand) <= 1
      /\ midiPast.got \in Seq(CoreBytes)
  BY DEF MidiTypes, MidiWays, MidiPasts
<1>2. ASSUME NEW S, NEW s \in Seq(S), s # <<>> PROVE LastOf(s) \in S /\ s[1] \in S /\ (Len(s) <= 1 => s = <<s[1]>>)
  <2>1. Len(s) \in Nat /\ Len(s) # 0
    BY <1>2, LenProperties, EmptySeq
  <2>2. Len(s) \in 1 .. Len(s) /\ 1 \in 1 .. Len(s)
    BY <2>1
  <2>3. s[Len(s)] \in S /\ s[1] \in S
    BY <1>2, <2>2, ElementOfSeq
  <2>4. Len(s) <= 1 => s = <<s[1]>>
    <3> DEFINE r == <<s[1]>>
    <3>1. r \in Seq(S) /\ Len(r) = 1 /\ r[1] = s[1]
      BY <2>3
    <3> HIDE DEF r
    <3>2. Len(s) <= 1 => Len(s) = Len(r) /\ \A k \in 1 .. Len(s) : s[k] = r[k]
      BY <2>1, <3>1
    <3>3. Len(s) <= 1 => s = r
      BY <3>1, <3>2, SeqEqual
    <3>4. QED
      BY <3>3 DEF r
  <2>5. QED
    BY <2>3, <2>4 DEF LastOf
<1>3. midiWay.queue # <<>> => LastOf(midiWay.queue) \in MidiBytes
  BY <1>1, <1>2
<1>4. midiWay.hand # <<>> => midiWay.hand[1] \in MidiBytes /\ midiWay.hand = <<midiWay.hand[1]>>
  BY <1>1, <1>2
<1>5. midiPast.got # <<>> => LastOf(midiPast.got) \in CoreBytes
  BY <1>1, <1>2
<1>6. QED
  BY <1>3, <1>4, <1>5 DEF MidiBytes, CoreBytes

\* The bytes under way, when none is added or goes on.
LEMMA BytesFrame ==
  ASSUME Counts, Chain, SameBytes, midi'.seq = midi.seq, midiPast'.n = midiPast.n
  PROVE  Counts' /\ Chain'
BY DEF Counts, Counted, Chain, SameBytes

\* The newest, when also none is sent.
LEMMA NewestFrame ==
  ASSUME Newest, SameBytes, UNCHANGED sending, midiPast'.n = midiPast.n
  PROVE  Newest'
BY DEF Newest, Goes, SameBytes

\* Whose they are, with the core that was.
LEMMA CoresFrame ==
  ASSUME Cores, SameBytes, UNCHANGED sending, midi'.caps = midi.caps,
         midiWay'.core = midiWay.core, midiPast'.takes = midiPast.takes
  PROVE  Cores'
BY DEF Cores, ForTaker, Came, SameBytes

\* The steps of the driver that send no byte.
DriverStep ==
  /\ UNCHANGED midiWay
  /\ midi' \in MidiDevs /\ midi'.seq = midi.seq /\ midi'.caps = midi.caps
  /\ midiPast' \in MidiPasts /\ midiPast'.n = midiPast.n /\ midiPast'.got = midiPast.got /\ midiPast'.takes = midiPast.takes

\* They leave the bytes alone.
LEMMA DriverKept ==
  ASSUME MidiInv, DriverStep, UNCHANGED sending, Keyboard'
  PROVE  MidiInv'
<1>1. MidiTypes /\ Counts /\ Chain /\ Newest /\ Cores
  BY DEF MidiInv
<1>2. SameBytes /\ UNCHANGED midiWay
  BY DEF DriverStep, SameBytes
<1>3. MidiTypes'
  BY <1>1 DEF MidiTypes, DriverStep
<1>4. Counts' /\ Chain' /\ Newest' /\ Cores'
  BY <1>1, <1>2, BytesFrame, NewestFrame, CoresFrame DEF DriverStep
<1>5. QED
  BY <1>3, <1>4 DEF MidiInv

\* A keyboard is read from its opening on, or its reading failed.
LEMMA OpenKept == ASSUME MidiInv, midi_open PROVE MidiInv'
<1>1. UNCHANGED <<sending, midiWay>> /\ sending = NoneSending
  BY DEF midi_open
<1>2. midi \in MidiDevs /\ midiPast \in MidiPasts /\ Keyboard
  BY DEF MidiInv, MidiTypes
<1>3. CASE midi.dev # 0
  <2>1. midiPast' = [midiPast EXCEPT !.units = @ + 1] /\ UNCHANGED midi
    BY <1>3 DEF midi_open
  <2>2. DriverStep /\ midiPast'.stopped = midiPast.stopped
    <3>1. midiPast' \in MidiPasts
      BY <1>2, <2>1, SMTT(30) DEF MidiPasts
    <3>2. /\ midiPast'.n = midiPast.n /\ midiPast'.got = midiPast.got
          /\ midiPast'.takes = midiPast.takes /\ midiPast'.stopped = midiPast.stopped
      BY <1>2, <2>1 DEF MidiPasts
    <3>3. QED
      BY <1>1, <1>2, <2>1, <3>1, <3>2 DEF DriverStep
  <2>3. Keyboard'
    BY <1>1, <1>2, <2>1, <2>2 DEF Keyboard
  <2>4. QED
    BY <1>1, <2>2, <2>3, DriverKept
<1>4. CASE midi.dev = 0
  <2>1. PICK armed \in BOOLEAN :
          /\ midi' = [midi EXCEPT !.dev = midiPast.units + 1, !.armed = armed]
          /\ midiPast' = [midiPast EXCEPT !.units = @ + 1, !.stopped = ~armed]
    BY <1>4 DEF midi_open
  <2>2. midiPast.units + 1 \in Nat /\ midiPast.units + 1 # 0
    BY <1>2 DEF MidiPasts
  <2>3. /\ midi' \in MidiDevs /\ midi'.seq = midi.seq /\ midi'.caps = midi.caps
        /\ midi'.dev # 0 /\ midi'.armed = armed
    BY <1>2, <2>1, <2>2 DEF MidiDevs
  <2>4. midiPast'.stopped = ~armed
    BY <1>2, <2>1 DEF MidiPasts
  <2>5. DriverStep
    BY <1>1, <1>2, <2>1, <2>2, <2>3 DEF DriverStep, MidiPasts
  <2>6. Keyboard'
    BY <1>1, <2>3, <2>4 DEF Keyboard
  <2>7. QED
    BY <1>1, <2>5, <2>6, DriverKept
<1>5. QED
  BY <1>3, <1>4

\* Nothing reads a keyboard that is gone.
LEMMA CloseKept == ASSUME MidiInv, midi_close PROVE MidiInv'
<1>1. /\ UNCHANGED <<sending, midiWay, midiPast>> /\ sending = NoneSending
      /\ midi' = [midi EXCEPT !.dev = 0, !.armed = FALSE]
  BY DEF midi_close
<1>2. midi \in MidiDevs /\ midiPast \in MidiPasts
  BY DEF MidiInv, MidiTypes
<1>3. /\ midi' \in MidiDevs /\ midi'.seq = midi.seq /\ midi'.caps = midi.caps
      /\ midi'.dev = 0 /\ midi'.armed = FALSE
  BY <1>1, <1>2 DEF MidiDevs
<1>4. DriverStep
  BY <1>1, <1>2, <1>3 DEF DriverStep
<1>5. Keyboard'
  BY <1>1, <1>3 DEF Keyboard
<1>6. QED
  BY <1>1, <1>4, <1>5, DriverKept

\* A packet has at least one byte to send; without one the keyboard is read again.
LEMMA TransferKept == ASSUME MidiInv, midi_xfer_cb PROVE MidiInv'
<1>1. midi.armed /\ sending = NoneSending /\ UNCHANGED midiWay
  BY DEF midi_xfer_cb
<1>2. MidiTypes /\ Keyboard /\ Counts /\ Chain /\ Newest /\ Cores
  BY DEF MidiInv
<1>3. midi \in MidiDevs /\ midiPast \in MidiPasts /\ midiWay \in MidiWays
  BY <1>2 DEF MidiTypes
<1>4. midi.dev # 0
  BY <1>1, <1>2 DEF Keyboard
<1>5. ASSUME NEW p \in [cable : {0, 1}, cin : Cins, dropped : BOOLEAN],
             kg_usb_midi_packet(p) > 0,
             sending' = [i |-> 1, len |-> kg_usb_midi_packet(p), take |-> midi.caps, core |-> midiWay.core],
             midi' = [midi EXCEPT !.armed = FALSE], midiPast' = [midiPast EXCEPT !.packets = @ + 1]
      PROVE  MidiInv'
  <2> DEFINE len == kg_usb_midi_packet(p)
  <2>1. len \in Nat /\ len >= 1
    BY <1>5 DEF kg_usb_midi_packet, MidiLen
  <2> HIDE DEF len
  <2>2. sending' = [i |-> 1, len |-> len, take |-> midi.caps, core |-> midiWay.core]
    BY <1>5 DEF len
  <2>3. /\ sending' \in Sendings /\ sending'.i = 1 /\ sending'.len = len
        /\ sending'.take = midi.caps /\ sending'.core = midiWay.core
    BY <1>3, <2>1, <2>2 DEF Sendings, MidiDevs, MidiWays
  <2>4. /\ midi' \in MidiDevs /\ midi'.seq = midi.seq /\ midi'.caps = midi.caps
        /\ midi'.dev = midi.dev /\ midi'.armed = FALSE
    BY <1>3, <1>5 DEF MidiDevs
  <2>5. /\ midiPast' \in MidiPasts /\ midiPast'.n = midiPast.n /\ midiPast'.got = midiPast.got
        /\ midiPast'.takes = midiPast.takes
    BY <1>3, <1>5 DEF MidiPasts
  <2>6. SameBytes
    BY <1>1, <2>5 DEF SameBytes
  <2>7. MidiTypes'
    BY <1>1, <1>2, <2>3, <2>4, <2>5 DEF MidiTypes
  <2>8. sending'.i # NoneSending.i
    BY <2>3 DEF NoneSending
  <2>9. Keyboard'
    BY <1>4, <2>1, <2>3, <2>4, <2>8 DEF Keyboard
  <2>10. Counts' /\ Chain'
    BY <1>2, <2>4, <2>5, <2>6, BytesFrame
  <2>11. Newest'
    <3>1. ASSUME NEW b, b.i \in Nat, Goes(b), b.n = midiPast.n PROVE 1 = FollowedBy(b) /\ b.i = b.len
      <4>1. b.i = b.len
        BY <1>1, <3>1 DEF Goes, NoneSending
      <4>2. ~(b.i < b.len)
        BY <3>1, <4>1
      <4>3. QED
        BY <4>1, <4>2 DEF FollowedBy
    <3>2. ASSUME NEW b, b.i \in Nat, Goes(b) PROVE b.n = midiPast'.n => IF sending'.take THEN sending'.i = FollowedBy(b) ELSE b.i = b.len
      BY <2>3, <2>5, <3>1, <3>2
    <3>3. QED
      BY <1>2, <2>6, <3>2, NewestTyped DEF Newest, Goes, SameBytes
  <2>12. Cores'
    BY <1>1, <1>2, <2>3, <2>4, <2>5, <2>6 DEF Cores, ForTaker, Came, SameBytes
  <2>13. QED
    BY <2>7, <2>9, <2>10, <2>11, <2>12 DEF MidiInv
<1>6. ASSUME NEW armed \in BOOLEAN, midi' = [midi EXCEPT !.armed = armed],
             midiPast' = [midiPast EXCEPT !.stopped = ~armed], UNCHANGED sending
      PROVE  MidiInv'
  <2>1. /\ midi' \in MidiDevs /\ midi'.seq = midi.seq /\ midi'.caps = midi.caps
        /\ midi'.dev = midi.dev /\ midi'.armed = armed
    BY <1>3, <1>6 DEF MidiDevs
  <2>2. midiPast'.stopped = ~armed
    BY <1>3, <1>6 DEF MidiPasts
  <2>3. DriverStep
    BY <1>1, <1>3, <1>6, <2>1 DEF DriverStep, MidiPasts
  <2>4. Keyboard'
    BY <1>1, <1>4, <1>6, <2>1, <2>2 DEF Keyboard
  <2>5. QED
    BY <1>6, <2>3, <2>4, DriverKept
<1>7. CASE midi_read /\ UNCHANGED sending
  BY <1>6, <1>7 DEF midi_read
<1>8. CASE midi' = [midi EXCEPT !.armed = FALSE] /\ midiPast' = [midiPast EXCEPT !.stopped = TRUE] /\ UNCHANGED sending
  <2>1. FALSE \in BOOLEAN /\ midiPast' = [midiPast EXCEPT !.stopped = ~FALSE]
    BY <1>8
  <2>2. QED
    BY <1>6, <1>8, <2>1
<1>9. QED
  BY <1>5, <1>7, <1>8 DEF midi_xfer_cb

\* A byte that is sent is the newest, for a core that took it; a lost one is counted too.
LEMMA SentKept == ASSUME MidiInv, midi_send PROVE MidiInv'
<1> DEFINE hasRoom == Len(midiWay.queue) < MidiQueue
           last == sending.i = sending.len
           b == [seq |-> midi.seq, n |-> midiPast.n + 1, i |-> sending.i, len |-> sending.len, from |-> sending.core]
<1>1. /\ sending # NoneSending
      /\ sending' = IF last THEN NoneSending ELSE [sending EXCEPT !.i = @ + 1]
      /\ midiWay' = IF sending.take /\ hasRoom THEN [midiWay EXCEPT !.queue = Append(@, b)] ELSE midiWay
  BY DEF midi_send
<1>2. PICK armed \in BOOLEAN :
        /\ armed => last
        /\ midi' = [midi EXCEPT !.armed = armed, !.seq = IF sending.take THEN (@ + counts(hasRoom)) % SEQ ELSE @]
        /\ midiPast' = [midiPast EXCEPT !.n = IF sending.take THEN @ + 1 ELSE @, !.stopped = last /\ ~armed]
  BY DEF midi_send
<1>3. MidiTypes /\ Keyboard /\ Counts /\ Chain /\ Newest /\ Cores
  BY DEF MidiInv
<1>4. midi \in MidiDevs /\ sending \in Sendings /\ midiPast \in MidiPasts /\ midiWay \in MidiWays
  BY <1>3 DEF MidiTypes
<1>5. /\ midiPast.n \in Nat /\ midi.seq = midiPast.n % SEQ /\ midi.seq \in Nat /\ SEQ \in Nat \ {0}
      /\ sending.i \in Nat /\ sending.len \in Nat /\ sending.core \in Nat /\ sending.take \in BOOLEAN
      /\ 1 <= sending.i /\ sending.i <= sending.len /\ midi.dev # 0
  BY <1>1, <1>3, <1>4, MidiAssumption DEF Counts, Keyboard, MidiDevs, Sendings, MidiPasts
<1> DEFINE n == IF sending.take THEN midiPast.n + 1 ELSE midiPast.n
           seq == IF sending.take THEN (midi.seq + 1) % SEQ ELSE midi.seq
           stopped == last /\ ~armed
<1>6. n \in Nat /\ seq \in Nat /\ seq = n % SEQ /\ n >= midiPast.n
  <2>1. CASE sending.take
    <3>1. (midi.seq + 1) % SEQ = (midiPast.n + 1) % SEQ
      BY <1>5, ModNext
    <3>2. midiPast.n + 1 \in Nat
      BY <1>5
    <3>3. (midiPast.n + 1) % SEQ \in Nat
      BY <1>5, <3>2, ModOf
    <3>4. QED
      BY <1>5, <2>1, <3>1, <3>2, <3>3
  <2>2. CASE ~sending.take
    BY <1>5, <2>2
  <2>3. QED
    BY <2>1, <2>2
<1>7. midi' = [midi EXCEPT !.armed = armed, !.seq = seq]
  BY <1>2 DEF counts
<1>8. midiPast' = [midiPast EXCEPT !.n = n, !.stopped = stopped]
  BY <1>2
<1>9. stopped \in BOOLEAN /\ (stopped <=> last /\ ~armed)
  OBVIOUS
<1>10. n = IF sending.take THEN midiPast.n + 1 ELSE midiPast.n
  OBVIOUS
<1> HIDE DEF n, seq, stopped
<1>11. /\ midi' \in MidiDevs /\ midi'.dev = midi.dev /\ midi'.armed = armed /\ midi'.seq = seq
       /\ midi'.caps = midi.caps
  BY <1>4, <1>6, <1>7 DEF MidiDevs
<1>12. /\ midiPast' \in MidiPasts /\ midiPast'.n = n /\ midiPast'.stopped = stopped
       /\ midiPast'.got = midiPast.got /\ midiPast'.takes = midiPast.takes
  BY <1>4, <1>6, <1>8, <1>9 DEF MidiPasts
<1>13. sending' \in Sendings /\ (last => sending' = NoneSending) /\ NoneSending.take = FALSE
       /\ (~last => /\ sending'.i = sending.i + 1 /\ sending'.len = sending.len /\ sending'.take = sending.take
                    /\ sending'.core = sending.core)
  <2>1. CASE last
    BY <1>1, <2>1 DEF Sendings, NoneSending
  <2>2. CASE ~last
    <3>1. sending' = [sending EXCEPT !.i = @ + 1]
      BY <1>1, <2>2
    <3>2. QED
      BY <1>4, <1>5, <2>2, <3>1 DEF Sendings, NoneSending
  <2>3. QED
    BY <2>1, <2>2
<1>14. b \in MidiBytes /\ b.n = midiPast.n + 1 /\ b.i = sending.i /\ b.len = sending.len /\ b.from = sending.core
       /\ b.seq = midi.seq
  BY <1>5 DEF MidiBytes
<1> HIDE DEF b
<1>15. Keyboard'
  <2>1. last => (armed \/ stopped)
    BY <1>9
  <2>2. ~last => sending.i + 1 <= sending.len /\ 1 <= sending.i + 1
    BY <1>5
  <2>3. ~last => sending' # NoneSending
    <3>1. ~last => sending'.i # 0
      BY <1>5, <1>13
    <3>2. QED
      BY <3>1 DEF NoneSending
  <2>4. QED
    BY <1>5, <1>11, <1>12, <1>13, <2>1, <2>2, <2>3 DEF Keyboard
<1>16. \A c : Counted(c) /\ c.n \in Nat => 1 <= c.n /\ c.n <= n /\ c.seq = (c.n - 1) % SEQ
  BY <1>5, <1>6 DEF Counted
<1>17. /\ \A k \in DOMAIN midiWay.queue : midiWay.queue[k].n \in Nat
       /\ midiWay.hand # <<>> => midiWay.hand[1].n \in Nat
       /\ \A k \in DOMAIN midiPast.got : midiPast.got[k].n \in Nat
  <2>1. midiWay.queue \in Seq(MidiBytes) /\ midiPast.got \in Seq(CoreBytes)
    BY <1>4 DEF MidiWays, MidiPasts
  <2>2. \A k \in DOMAIN midiWay.queue : midiWay.queue[k] \in MidiBytes
    BY <2>1, LenProperties
  <2>3. \A k \in DOMAIN midiPast.got : midiPast.got[k] \in CoreBytes
    BY <2>1, LenProperties
  <2>4. midiWay.hand # <<>> => midiWay.hand[1] \in MidiBytes
    BY <1>3, NewestTyped
  <2>5. QED
    BY <2>2, <2>3, <2>4 DEF MidiBytes, CoreBytes
<1>18. CASE sending.take /\ hasRoom
  <2>1. midiWay' = [midiWay EXCEPT !.queue = Append(@, b)]
    BY <1>1, <1>18
  <2> DEFINE q == Append(midiWay.queue, b)
  <2>2. midiWay.queue \in Seq(MidiBytes)
    BY <1>4 DEF MidiWays
  <2>3. /\ q \in Seq(MidiBytes) /\ q # <<>> /\ Len(midiWay.queue) \in Nat
        /\ DOMAIN midiWay.queue = 1 .. Len(midiWay.queue) /\ DOMAIN q = 1 .. Len(midiWay.queue) + 1
        /\ \A k \in 1 .. Len(midiWay.queue) : q[k] = midiWay.queue[k]
        /\ LastOf(q) = b /\ q[Len(midiWay.queue) + 1] = b
    BY <1>14, <2>2, LongerBy
  <2>4. Chained(midiWay.queue) /\ (midiWay.queue # <<>> => Follows(LastOf(midiWay.queue), b)) => Chained(q)
    BY <1>14, <2>2, ChainAdd
  <2> HIDE DEF q
  <2>5. /\ midiWay' \in MidiWays /\ midiWay'.queue = q /\ midiWay'.hand = midiWay.hand /\ midiWay'.core = midiWay.core
    BY <1>4, <2>1, <2>3 DEF MidiWays, q
  <2>6. MidiTypes'
    BY <1>3, <1>11, <1>12, <1>13, <2>5 DEF MidiTypes
  <2>7. \A k \in DOMAIN q : (k \in DOMAIN midiWay.queue /\ q[k] = midiWay.queue[k]) \/ q[k] = b
    BY <2>3
  <2>8. n = midiPast.n + 1
    BY <1>10, <1>18
  <2>9. 1 <= b.n /\ b.n <= n /\ b.seq = (b.n - 1) % SEQ
    <3>1. b.n - 1 = midiPast.n /\ 1 <= b.n
      BY <1>5, <1>14
    <3>2. QED
      BY <1>5, <1>14, <2>8, <3>1
  <2>10. Counts'
    <3>1. midi'.seq = midiPast'.n % SEQ
      BY <1>6, <1>11, <1>12
    <3>2. \A k \in DOMAIN q : 1 <= q[k].n /\ q[k].n <= n /\ q[k].seq = (q[k].n - 1) % SEQ
      BY <1>3, <1>16, <1>17, <2>7, <2>9 DEF Counts
    <3>3. midiWay.hand # <<>> => /\ 1 <= midiWay.hand[1].n /\ midiWay.hand[1].n <= n
                                 /\ midiWay.hand[1].seq = (midiWay.hand[1].n - 1) % SEQ
      BY <1>3, <1>16, <1>17 DEF Counts
    <3>4. \A k \in DOMAIN midiPast.got : /\ 1 <= midiPast.got[k].n /\ midiPast.got[k].n <= n
                                         /\ midiPast.got[k].seq = (midiPast.got[k].n - 1) % SEQ
      BY <1>3, <1>16, <1>17 DEF Counts
    <3>5. QED
      BY <1>12, <2>5, <3>1, <3>2, <3>3, <3>4 DEF Counts, Counted
  <2>11. ASSUME NEW c, Counted(c), c.n \in Nat, Goes(c) PROVE Follows(c, b)
    <3>1. c.n < b.n
      BY <1>5, <1>14, <2>11 DEF Counted
    <3>2. ASSUME b.n = c.n + 1 PROVE b.i = FollowedBy(c)
      <4>1. c.n = midiPast.n
        BY <1>5, <1>14, <2>11, <3>2
      <4>2. QED
        BY <1>14, <1>18, <2>11, <4>1 DEF Goes
    <3>3. QED
      BY <3>1, <3>2 DEF Follows
  <2>12. /\ midiWay.queue # <<>> => Follows(LastOf(midiWay.queue), b)
         /\ midiWay.queue = <<>> /\ midiWay.hand # <<>> => Follows(midiWay.hand[1], b)
         /\ midiWay.queue = <<>> /\ midiWay.hand = <<>> /\ midiPast.got # <<>> => Follows(LastOf(midiPast.got), b)
    <3>1. midiWay.queue # <<>> => Len(midiWay.queue) \in DOMAIN midiWay.queue
      BY <2>2, <2>3, EmptySeq
    <3>2. midiPast.got # <<>> => Len(midiPast.got) \in DOMAIN midiPast.got
      <4>1. midiPast.got \in Seq(CoreBytes)
        BY <1>4 DEF MidiPasts
      <4>2. QED
        BY <4>1, EmptySeq, LenProperties
    <3>3. /\ midiWay.queue # <<>> => Counted(LastOf(midiWay.queue)) /\ LastOf(midiWay.queue).n \in Nat
          /\ midiPast.got # <<>> => Counted(LastOf(midiPast.got)) /\ LastOf(midiPast.got).n \in Nat
          /\ midiWay.hand # <<>> => Counted(midiWay.hand[1]) /\ midiWay.hand[1].n \in Nat
      BY <1>3, <1>17, <3>1, <3>2 DEF Counts, LastOf
    <3>4. QED
      BY <1>3, <2>11, <3>3 DEF Newest
  <2>13. q[1] = IF midiWay.queue = <<>> THEN b ELSE midiWay.queue[1]
    <3>1. midiWay.queue = <<>> => Len(midiWay.queue) + 1 = 1
      BY <2>2, EmptySeq
    <3>2. midiWay.queue # <<>> => 1 \in 1 .. Len(midiWay.queue)
      BY <2>2, EmptySeq
    <3>3. QED
      BY <2>3, <3>1, <3>2
  <2>14. Chain'
    <3>1. Chained(q)
      BY <1>3, <2>4, <2>12 DEF Chain
    <3>2. midiWay.hand # <<>> => Follows(midiWay.hand[1], q[1])
      BY <1>3, <2>12, <2>13 DEF Chain
    <3>3. midiPast.got # <<>> /\ midiWay.hand = <<>> => Follows(LastOf(midiPast.got), q[1])
      BY <1>3, <2>12, <2>13 DEF Chain
    <3>4. QED
      BY <1>3, <1>12, <2>5, <3>1, <3>2, <3>3 DEF Chain
  <2>15. Newest'
    <3>1. b.n = n => IF sending'.take THEN sending'.i = FollowedBy(b) ELSE b.i = b.len
      <4>1. CASE last
        BY <1>13, <1>14, <4>1
      <4>2. CASE ~last
        <5>1. b.i < b.len
          BY <1>5, <1>14, <4>2
        <5>2. sending'.take /\ sending'.i = b.i + 1
          BY <1>13, <1>14, <1>18, <4>2
        <5>3. QED
          BY <5>1, <5>2 DEF FollowedBy
      <4>3. QED
        BY <4>1, <4>2
    <3>2. QED
      BY <1>12, <2>3, <2>5, <3>1 DEF Newest, Goes
  <2>16. Cores'
    <3>1. ForTaker(b.from)
      BY <1>3, <1>14, <1>18 DEF Cores
    <3>2. \A k \in DOMAIN q : ForTaker(q[k].from)
      BY <1>3, <2>7, <3>1 DEF Cores
    <3>3. sending'.take => ForTaker(sending'.core)
      BY <1>3, <1>13 DEF Cores
    <3>4. QED
      BY <1>3, <1>11, <1>12, <2>5, <3>2, <3>3 DEF Cores, ForTaker, Came
  <2>17. QED
    BY <1>15, <2>6, <2>10, <2>14, <2>15, <2>16 DEF MidiInv
<1>19. CASE ~(sending.take /\ hasRoom)
  <2>1. UNCHANGED midiWay
    BY <1>1, <1>19
  <2>2. SameBytes
    BY <1>12, <2>1 DEF SameBytes
  <2>3. MidiTypes'
    BY <1>3, <1>11, <1>12, <1>13, <2>1 DEF MidiTypes
  <2>4. Counts'
    <3>1. midi'.seq = midiPast'.n % SEQ
      BY <1>6, <1>11, <1>12
    <3>2. QED
      BY <1>3, <1>12, <1>16, <1>17, <2>2, <3>1 DEF Counts, Counted, SameBytes
  <2>5. Chain'
    BY <1>3, <2>2 DEF Chain, SameBytes
  <2>6. Newest'
    <3>1. ASSUME NEW c, c.n \in Nat, Counted(c), Goes(c)
          PROVE  c.n = n => IF sending'.take THEN sending'.i = FollowedBy(c) ELSE c.i = c.len
      <4>1. CASE sending.take
        BY <1>5, <1>10, <3>1, <4>1 DEF Counted
      <4>2. CASE ~sending.take
        <5>1. n = midiPast.n /\ ~sending'.take
          BY <1>10, <1>13, <4>2
        <5>2. QED
          BY <3>1, <4>2, <5>1 DEF Goes
      <4>3. QED
        BY <4>1, <4>2
    <3>2. midiWay.queue \in Seq(MidiBytes) /\ midiPast.got \in Seq(CoreBytes)
      BY <1>4 DEF MidiWays, MidiPasts
    <3>3. /\ midiWay.queue # <<>> => Len(midiWay.queue) \in DOMAIN midiWay.queue
          /\ midiPast.got # <<>> => Len(midiPast.got) \in DOMAIN midiPast.got
      BY <3>2, EmptySeq, LenProperties
    <3>4. /\ midiWay.queue # <<>> => Counted(LastOf(midiWay.queue)) /\ LastOf(midiWay.queue).n \in Nat
          /\ midiPast.got # <<>> => Counted(LastOf(midiPast.got)) /\ LastOf(midiPast.got).n \in Nat
          /\ midiWay.hand # <<>> => Counted(midiWay.hand[1]) /\ midiWay.hand[1].n \in Nat
      BY <1>3, <1>17, <3>3 DEF Counts, LastOf
    <3>5. QED
      BY <1>3, <1>12, <2>2, <3>1, <3>4 DEF Newest, Goes, SameBytes
  <2>7. Cores'
    <3>1. sending'.take => ForTaker(sending'.core)
      BY <1>3, <1>13 DEF Cores
    <3>2. QED
      BY <1>3, <1>11, <1>12, <2>1, <2>2, <3>1 DEF Cores, ForTaker, Came, SameBytes
  <2>8. QED
    BY <1>15, <2>3, <2>4, <2>5, <2>6, <2>7 DEF MidiInv
<1>20. QED
  BY <1>18, <1>19

\* The first byte of the queue is in hand; the chain is the same.
LEMMA PopsKept == ASSUME MidiInv, MidiPops PROVE MidiInv'
<1> DEFINE q == midiWay.queue
<1>1. /\ q # <<>> /\ midiWay.hand = <<>>
      /\ midiWay' = [midiWay EXCEPT !.queue = Tail(@), !.hand = <<Head(q)>>]
      /\ UNCHANGED <<midi, sending, midiPast>>
  BY DEF MidiPops
<1>2. MidiTypes /\ Keyboard /\ Counts /\ Chain /\ Newest /\ Cores
  BY DEF MidiInv
<1>3. midiWay \in MidiWays /\ q \in Seq(MidiBytes)
  BY <1>2 DEF MidiTypes, MidiWays
<1>4. /\ Tail(q) \in Seq(MidiBytes) /\ Head(q) = q[1] /\ Head(q) \in MidiBytes /\ 1 \in DOMAIN q
      /\ DOMAIN q = 1 .. Len(q) /\ DOMAIN Tail(q) = 1 .. Len(q) - 1 /\ Len(q) \in Nat
      /\ \A k \in 1 .. Len(q) - 1 : Tail(q)[k] = q[k + 1]
      /\ Tail(q) = <<>> => LastOf(q) = q[1]
      /\ Tail(q) # <<>> => LastOf(Tail(q)) = LastOf(q)
  BY <1>1, <1>3, ShorterBy
<1>5. Chained(Tail(q)) /\ (Tail(q) # <<>> => Follows(q[1], Tail(q)[1]))
  BY <1>1, <1>2, <1>3, ChainRest DEF Chain
<1> DEFINE h == <<q[1]>>
<1>6. h \in Seq(MidiBytes) /\ Len(h) = 1 /\ h[1] = q[1] /\ h # <<>>
  BY <1>4
<1> HIDE DEF h
<1>7. midiWay' \in MidiWays /\ midiWay'.queue = Tail(q) /\ midiWay'.hand = h /\ midiWay'.core = midiWay.core
  <2>1. midiWay' = [midiWay EXCEPT !.queue = Tail(q), !.hand = h]
    BY <1>1, <1>4 DEF h
  <2>2. QED
    BY <1>3, <1>4, <1>6, <2>1 DEF MidiWays
<1>8. MidiTypes'
  BY <1>1, <1>2, <1>6, <1>7 DEF MidiTypes
<1>9. Keyboard'
  BY <1>1, <1>2 DEF Keyboard
<1>10. \A k \in DOMAIN Tail(q) : k + 1 \in DOMAIN q /\ Tail(q)[k] = q[k + 1]
  BY <1>4
<1>11. Counts'
  BY <1>1, <1>2, <1>4, <1>6, <1>7, <1>10 DEF Counts, Counted
<1>12. Chain'
  BY <1>1, <1>2, <1>5, <1>6, <1>7 DEF Chain
<1>13. Newest'
  BY <1>1, <1>2, <1>4, <1>6, <1>7 DEF Newest, Goes
<1>14. Cores'
  <2>1. \A core : ForTaker(core)' <=> ForTaker(core)
    BY <1>1, <1>7 DEF ForTaker
  <2>2. \A from : Came(from)' <=> Came(from)
    BY <1>1, <1>7 DEF Came
  <2>3. \A k \in DOMAIN midiWay'.queue : ForTaker(midiWay'.queue[k].from)
    BY <1>2, <1>7, <1>10 DEF Cores
  <2>4. midiWay'.hand # <<>> => ForTaker(midiWay'.hand[1].from)
    BY <1>2, <1>4, <1>6, <1>7 DEF Cores
  <2>5. QED
    BY <1>1, <1>2, <1>7, <2>1, <2>2, <2>3, <2>4 DEF Cores
<1>15. QED
  BY <1>8, <1>9, <1>11, <1>12, <1>13, <1>14 DEF MidiInv

\* The byte in hand is the next of the core there is.
LEMMA ToCoreKept == ASSUME MidiInv, MidiToCore PROVE MidiInv'
<1> DEFINE h == midiWay.hand[1]
           c == [h EXCEPT !.from = <<@, midiWay.core>>]
           g == Append(midiPast.got, c)
<1>1. /\ midiWay.hand # <<>> /\ UNCHANGED <<midi, sending>>
      /\ midiPast' = [midiPast EXCEPT !.got = g]
      /\ midiWay' = [midiWay EXCEPT !.hand = <<>>]
  BY DEF MidiToCore
<1>2. MidiTypes /\ Keyboard /\ Counts /\ Chain /\ Newest /\ Cores
  BY DEF MidiInv
<1>3. midiWay \in MidiWays /\ midiPast \in MidiPasts /\ midiPast.got \in Seq(CoreBytes) /\ midiWay.core \in Nat
  BY <1>2 DEF MidiTypes, MidiWays, MidiPasts
<1>4. h \in MidiBytes
  BY <1>1, <1>2, NewestTyped
<1>5. /\ c \in CoreBytes /\ c.seq = h.seq /\ c.n = h.n /\ c.i = h.i /\ c.len = h.len
      /\ c.from = <<h.from, midiWay.core>>
  BY <1>3, <1>4 DEF MidiBytes, CoreBytes
<1>6. Counted(h) /\ ForTaker(h.from)
  BY <1>1, <1>2 DEF Counts, Cores
<1>7. midiPast.got # <<>> => Follows(LastOf(midiPast.got), h)
  BY <1>1, <1>2 DEF Chain
<1>8. midiWay.queue # <<>> => Follows(h, midiWay.queue[1])
  BY <1>1, <1>2 DEF Chain
<1> HIDE DEF h, c
<1>9. /\ g \in Seq(CoreBytes) /\ g # <<>> /\ Len(midiPast.got) \in Nat
      /\ DOMAIN midiPast.got = 1 .. Len(midiPast.got) /\ DOMAIN g = 1 .. Len(midiPast.got) + 1
      /\ \A k \in 1 .. Len(midiPast.got) : g[k] = midiPast.got[k]
      /\ LastOf(g) = c /\ g[Len(midiPast.got) + 1] = c
  BY <1>3, <1>5, LongerBy
<1>10. Chained(g)
  <2>1. midiPast.got # <<>> => Follows(LastOf(midiPast.got), c)
    BY <1>5, <1>7 DEF Follows
  <2>2. Chained(midiPast.got)
    BY <1>2 DEF Chain
  <2>3. QED
    BY <1>3, <1>5, <2>1, <2>2, ChainAdd
<1> HIDE DEF g
<1>11. <<>> \in Seq(MidiBytes) /\ Len(<<>>) = 0
  OBVIOUS
<1>12. /\ midiWay' \in MidiWays /\ midiWay'.queue = midiWay.queue /\ midiWay'.hand = <<>>
       /\ midiWay'.core = midiWay.core
  BY <1>1, <1>3, <1>11 DEF MidiWays
<1>13. /\ midiPast' \in MidiPasts /\ midiPast'.got = g /\ midiPast'.n = midiPast.n
       /\ midiPast'.takes = midiPast.takes /\ midiPast'.stopped = midiPast.stopped
  BY <1>1, <1>3, <1>9 DEF MidiPasts
<1>14. MidiTypes'
  BY <1>1, <1>2, <1>11, <1>12, <1>13 DEF MidiTypes
<1>15. Keyboard'
  BY <1>1, <1>2, <1>13 DEF Keyboard
<1>16. \A k \in DOMAIN g : (k \in DOMAIN midiPast.got /\ g[k] = midiPast.got[k]) \/ g[k] = c
  BY <1>9
<1>17. Counts'
  <2>1. Counted(c)
    BY <1>5, <1>6 DEF Counted
  <2>2. \A k \in DOMAIN g : Counted(g[k])
    BY <1>2, <1>16, <2>1 DEF Counts
  <2>3. QED
    BY <1>1, <1>2, <1>12, <1>13, <2>2 DEF Counts, Counted
<1>18. Chain'
  <2>1. midiWay.queue # <<>> => Follows(c, midiWay.queue[1])
    BY <1>5, <1>8 DEF Follows, FollowedBy
  <2>2. QED
    BY <1>2, <1>9, <1>10, <1>12, <1>13, <2>1 DEF Chain
<1>19. Newest'
  <2>1. midiWay.queue = <<>> => Goes(c)
    <3>1. midiWay.queue = <<>> => Goes(h)
      BY <1>1, <1>2 DEF Newest, h
    <3>2. QED
      BY <1>5, <3>1 DEF Goes, FollowedBy
  <2>2. QED
    BY <1>1, <1>2, <1>9, <1>12, <1>13, <2>1 DEF Newest, Goes
<1>20. Cores'
  <2>1. Came(c.from)
    <3>1. h.from \in 1 .. midiWay.core /\ midiPast.takes[h.from]
      BY <1>6 DEF ForTaker
    <3>2. c.from[1] = h.from /\ c.from[2] = midiWay.core /\ midiWay.core \in 1 .. midiWay.core
      BY <1>3, <1>5, <3>1
    <3>3. ~midiPast.takes[midiWay.core] => h.from < midiWay.core
      BY <1>3, <3>1
    <3>4. QED
      BY <3>1, <3>2, <3>3 DEF Came
  <2>2. \A k \in DOMAIN g : Came(g[k].from)
    BY <1>2, <1>16, <2>1 DEF Cores
  <2>3. QED
    BY <1>1, <1>2, <1>12, <1>13, <2>2 DEF Cores, ForTaker, Came
<1>21. QED
  BY <1>14, <1>15, <1>17, <1>18, <1>19, <1>20 DEF MidiInv

\* A core that is asked: what was meant for those before stays theirs.
LEMMA LoadsKept ==
  ASSUME MidiInv, MidiLoadStarts \/ MidiCaps \/ MidiLoadEnds
  PROVE  MidiInv'
<1>1. MidiTypes /\ Keyboard /\ Counts /\ Chain /\ Newest /\ Cores
  BY DEF MidiInv
<1>2. midi \in MidiDevs /\ midiPast \in MidiPasts /\ midiWay \in MidiWays /\ midiWay.core \in Nat
  BY <1>1 DEF MidiTypes, MidiWays
<1>3. CASE MidiLoadStarts
  <2>1. /\ midiWay' = [midiWay EXCEPT !.load = "bitstream"] /\ midi' = [midi EXCEPT !.caps = FALSE]
        /\ midiPast' = [midiPast EXCEPT !.loads = @ + 1] /\ UNCHANGED sending
    BY <1>3 DEF MidiLoadStarts
  <2>2. /\ midiWay' \in MidiWays /\ midiWay'.queue = midiWay.queue /\ midiWay'.hand = midiWay.hand
        /\ midiWay'.core = midiWay.core
    BY <1>2, <2>1 DEF MidiWays
  <2>3. /\ midi' \in MidiDevs /\ midi'.dev = midi.dev /\ midi'.armed = midi.armed /\ midi'.seq = midi.seq
        /\ midi'.caps = FALSE
    BY <1>2, <2>1 DEF MidiDevs
  <2>4. /\ midiPast' \in MidiPasts /\ midiPast'.n = midiPast.n /\ midiPast'.got = midiPast.got
        /\ midiPast'.takes = midiPast.takes /\ midiPast'.stopped = midiPast.stopped
    BY <1>2, <2>1 DEF MidiPasts
  <2>5. SameBytes
    BY <2>2, <2>4 DEF SameBytes
  <2>6. MidiTypes' /\ Keyboard'
    BY <1>1, <2>1, <2>2, <2>3, <2>4 DEF MidiTypes, Keyboard
  <2>7. Counts' /\ Chain' /\ Newest'
    BY <1>1, <2>1, <2>3, <2>4, <2>5, BytesFrame, NewestFrame
  <2>8. Cores'
    BY <1>1, <2>1, <2>2, <2>3, <2>4 DEF Cores, ForTaker, Came
  <2>9. QED
    BY <2>6, <2>7, <2>8 DEF MidiInv
<1>4. CASE MidiCaps
  <2>1. PICK takes \in BOOLEAN :
          /\ midi' = [midi EXCEPT !.caps = takes]
          /\ midiPast' = [midiPast EXCEPT !.takes = Append(@, takes)]
    BY <1>4 DEF MidiCaps
  <2>2. midiWay' = [midiWay EXCEPT !.load = "setup", !.core = @ + 1] /\ UNCHANGED sending
    BY <1>4 DEF MidiCaps
  <2> DEFINE t == Append(midiPast.takes, takes)
  <2>3. midiPast.takes \in Seq(BOOLEAN) /\ Len(midiPast.takes) = midiWay.core
    BY <1>1, <1>2 DEF Cores, MidiPasts
  <2>4. /\ t \in Seq(BOOLEAN) /\ Len(t) = midiWay.core + 1
        /\ \A k \in 1 .. midiWay.core : t[k] = midiPast.takes[k]
        /\ t[midiWay.core + 1] = takes
    BY <2>3, LongerBy
  <2>5. midiPast' = [midiPast EXCEPT !.takes = t]
    BY <2>1
  <2> HIDE DEF t
  <2>6. /\ midiWay' \in MidiWays /\ midiWay'.queue = midiWay.queue /\ midiWay'.hand = midiWay.hand
        /\ midiWay'.core = midiWay.core + 1
    <3> DEFINE next == midiWay.core + 1
    <3>1. next \in Nat /\ midiWay' = [midiWay EXCEPT !.load = "setup", !.core = next]
      BY <1>2, <2>2
    <3> HIDE DEF next
    <3>2. midiWay' \in MidiWays /\ midiWay'.queue = midiWay.queue /\ midiWay'.hand = midiWay.hand /\ midiWay'.core = next
      BY <1>2, <3>1 DEF MidiWays
    <3>3. QED
      BY <3>2 DEF next
  <2>7. /\ midi' \in MidiDevs /\ midi'.dev = midi.dev /\ midi'.armed = midi.armed /\ midi'.seq = midi.seq
        /\ midi'.caps = takes
    BY <1>2, <2>1 DEF MidiDevs
  <2>8. /\ midiPast' \in MidiPasts /\ midiPast'.n = midiPast.n /\ midiPast'.got = midiPast.got
        /\ midiPast'.takes = t /\ midiPast'.stopped = midiPast.stopped
    BY <1>2, <2>4, <2>5 DEF MidiPasts
  <2>9. SameBytes
    BY <2>6, <2>8 DEF SameBytes
  <2>10. MidiTypes' /\ Keyboard'
    BY <1>1, <2>2, <2>6, <2>7, <2>8 DEF MidiTypes, Keyboard
  <2>11. Counts' /\ Chain' /\ Newest'
    BY <1>1, <2>2, <2>7, <2>8, <2>9, BytesFrame, NewestFrame
  <2>12. \A k \in 1 .. midiWay.core : k \in 1 .. midiWay.core + 1
    BY <1>2
  <2>13. midiWay.core + 1 \in 1 .. midiWay.core + 1
    BY <1>2
  <2>14. \A f : ForTaker(f) => f \in 1 .. midiWay.core + 1 /\ t[f]
    BY <2>4, <2>12 DEF ForTaker
  <2>15. \A f : Came(f) => /\ f[1] \in 1 .. midiWay.core + 1 /\ f[2] \in 1 .. midiWay.core + 1
                           /\ ~t[f[2]] => f[1] < f[2]
    BY <2>4, <2>12 DEF Came
  <2>16. Cores'
    <3>1. Len(t) = midiWay'.core
      BY <2>4, <2>6
    <3>2. takes => ForTaker(midiWay.core)'
      BY <2>4, <2>6, <2>8, <2>13 DEF ForTaker
    <3>3. \A f : ForTaker(f) => ForTaker(f)'
      BY <2>6, <2>8, <2>14 DEF ForTaker
    <3>4. \A f : Came(f) => Came(f)'
      BY <2>6, <2>8, <2>15 DEF Came
    <3>5. QED
      BY <1>1, <2>2, <2>6, <2>7, <2>8, <3>1, <3>2, <3>3, <3>4 DEF Cores
  <2>17. QED
    BY <2>10, <2>11, <2>16 DEF MidiInv
<1>5. CASE MidiLoadEnds
  <2>1. midiWay' = [midiWay EXCEPT !.load = "no"] /\ UNCHANGED <<midi, sending, midiPast>>
    BY <1>5 DEF MidiLoadEnds
  <2>2. /\ midiWay' \in MidiWays /\ midiWay'.queue = midiWay.queue /\ midiWay'.hand = midiWay.hand
        /\ midiWay'.core = midiWay.core
    BY <1>2, <2>1 DEF MidiWays
  <2>3. SameBytes
    BY <2>1, <2>2 DEF SameBytes
  <2>4. MidiTypes' /\ Keyboard'
    BY <1>1, <2>1, <2>2 DEF MidiTypes, Keyboard
  <2>5. Counts' /\ Chain' /\ Newest' /\ Cores'
    BY <1>1, <2>1, <2>2, <2>3, BytesFrame, NewestFrame, CoresFrame
  <2>6. QED
    BY <2>4, <2>5 DEF MidiInv
<1>6. QED
  BY <1>3, <1>4, <1>5

-----------------------------------------------------------------------------
(* The theorems of the keyboard.                                           *)

\* The inductive invariant of the MIDI keyboard: the count of every byte under way, the
\* chain they are, the next one that is sent, and the core each was meant for.
THEOREM MidiInvariant == MidiSpec => []MidiInv
<1>1. MidiInit => MidiInv
  <2> SUFFICES ASSUME MidiInit PROVE MidiInv
    OBVIOUS
  <2> USE DEF MidiInit
  <2>1. <<TRUE>> \in Seq(BOOLEAN) /\ Len(<<TRUE>>) = 1 /\ <<TRUE>>[1] = TRUE
    OBVIOUS
  <2>2. MidiTypes
    BY <2>1 DEF MidiTypes, MidiDevs, Sendings, MidiWays, MidiPasts, NoneSending
  <2>3. Keyboard
    BY DEF Keyboard
  <2>4. Counts
    <3>1. 0 % SEQ = 0
      <4>1. SEQ \in Nat \ {0} /\ 0 = SEQ * 0 + 0
        BY MidiAssumption
      <4>2. QED
        BY <4>1, ModIs
    <3>2. QED
      BY <3>1 DEF Counts
  <2>5. Chain /\ Newest
    BY DEF Chain, Newest, Chained
  <2>6. Cores
    BY <2>1 DEF Cores, ForTaker, NoneSending
  <2>7. QED
    BY <2>2, <2>3, <2>4, <2>5, <2>6 DEF MidiInv
<1>2. MidiInv /\ [MidiNext]_midiVars => MidiInv'
  <2> SUFFICES ASSUME MidiInv, [MidiNext]_midiVars PROVE MidiInv'
    OBVIOUS
  <2>1. CASE midi_open
    BY <2>1, OpenKept
  <2>2. CASE midi_close
    BY <2>2, CloseKept
  <2>3. CASE midi_xfer_cb
    BY <2>3, TransferKept
  <2>4. CASE midi_send
    BY <2>4, SentKept
  <2>5. CASE MidiPops
    BY <2>5, PopsKept
  <2>6. CASE MidiToCore
    BY <2>6, ToCoreKept
  <2>7. CASE MidiLoadStarts \/ MidiCaps \/ MidiLoadEnds
    BY <2>7, LoadsKept
  <2>8. CASE UNCHANGED midiVars
    <3>1. UNCHANGED <<midi, sending, midiWay, midiPast>>
      BY <2>8 DEF midiVars
    <3>2. SameBytes
      BY <3>1 DEF SameBytes
    <3>3. MidiTypes' /\ Keyboard'
      BY <3>1 DEF MidiInv, MidiTypes, Keyboard
    <3>4. Counts' /\ Chain' /\ Newest' /\ Cores'
      BY <3>1, <3>2, BytesFrame, NewestFrame, CoresFrame DEF MidiInv
    <3>5. QED
      BY <3>3, <3>4 DEF MidiInv
  <2>9. QED
    BY <2>1, <2>2, <2>3, <2>4, <2>5, <2>6, <2>7, <2>8 DEF MidiNext
<1>3. QED
  BY <1>1, <1>2, PTL DEF MidiSpec

\* A core sees every loss of less than SEQ bytes as a gap of the count, gets the bytes of a
\* message one after the other, and as one that takes no MIDI only what was meant for another
\* before it; for any queue and any number of keyboards, packets and cores (midi_host.c, input.c).
THEOREM MidiIsRight == MidiSpec => []MidiRight
<1>1. MidiInv => MidiRight
  <2> SUFFICES ASSUME MidiInv PROVE MidiRight
    OBVIOUS
  <2>1. MidiTypes /\ Keyboard /\ Counts /\ Chain /\ Cores
    BY DEF MidiInv
  <2> DEFINE g == midiPast.got
  <2>2. g \in Seq(CoreBytes) /\ Len(g) \in Nat /\ DOMAIN g = 1 .. Len(g)
    <3>1. g \in Seq(CoreBytes)
      BY <2>1 DEF MidiTypes, MidiPasts
    <3>2. QED
      BY <3>1, LenProperties
  <2>3. ASSUME NEW k \in 1 .. Len(g) - 1
        PROVE  /\ g[k].n < g[k + 1].n
               /\ g[k + 1].n <= g[k].n + SEQ /\ g[k + 1].seq = (g[k].seq + 1) % SEQ => g[k + 1].n = g[k].n + 1
               /\ g[k + 1].n = g[k].n + 1 => g[k + 1].i = (IF g[k].i < g[k].len THEN g[k].i + 1 ELSE 1)
    <3> DEFINE a == g[k]
               b == g[k + 1]
    <3>1. k \in DOMAIN g /\ k + 1 \in DOMAIN g
      BY <2>2
    <3>2. Counted(a) /\ Counted(b) /\ a \in CoreBytes /\ b \in CoreBytes
      <4>1. a \in CoreBytes /\ b \in CoreBytes
        BY <2>2, <3>1, ElementOfSeq
      <4>2. QED
        BY <2>1, <3>1, <4>1 DEF Counts
    <3>3. Follows(a, b)
      BY <2>1 DEF Chain, Chained
    <3>4. SUFFICES /\ a.n < b.n
                   /\ b.n <= a.n + SEQ /\ b.seq = (a.seq + 1) % SEQ => b.n = a.n + 1
                   /\ b.n = a.n + 1 => b.i = (IF a.i < a.len THEN a.i + 1 ELSE 1)
      OBVIOUS
    <3> HIDE DEF a, b
    <3>5. a.n < b.n /\ (b.n = a.n + 1 => b.i = (IF a.i < a.len THEN a.i + 1 ELSE 1))
      BY <3>3 DEF Follows, FollowedBy
    <3>6. ASSUME b.n <= a.n + SEQ, b.seq = (a.seq + 1) % SEQ PROVE b.n = a.n + 1
      <4> DEFINE x == a.n
                 y == b.n - 1
      <4>0. a.n \in Nat /\ b.n \in Nat /\ 1 <= a.n /\ 1 <= b.n /\ SEQ \in Nat /\ SEQ # 0
        BY <3>2, MidiAssumption DEF Counted, CoreBytes
      <4>1. /\ a.n \in Nat /\ b.n \in Nat /\ 1 <= a.n /\ 1 <= b.n
            /\ a.seq = (a.n - 1) % SEQ /\ b.seq = (b.n - 1) % SEQ /\ SEQ \in Nat \ {0}
        BY <4>0, <3>2 DEF Counted
      <4>2. a.n - 1 \in Nat /\ a.n - 1 + 1 = a.n
        BY <4>0
      <4>3. (((a.n - 1) % SEQ) + 1) % SEQ = (a.n - 1 + 1) % SEQ
        BY <4>1, <4>2, ModNext
      <4>4. x \in Nat /\ y \in Nat /\ x <= y /\ y < x + SEQ
        <5>1. a.n < b.n /\ b.n <= a.n + SEQ
          BY <3>5, <3>6
        <5>2. a.n \in Nat /\ b.n \in Nat /\ 1 <= b.n /\ SEQ \in Nat
          BY <4>0
        <5>3. \A p, q, w \in Nat : 1 <= q /\ p < q /\ q <= p + w => q - 1 \in Nat /\ p <= q - 1 /\ q - 1 < p + w
          OBVIOUS
        <5>4. QED
          BY <5>1, <5>2, <5>3
      <4>5. x % SEQ = y % SEQ
        BY <3>6, <4>1, <4>2, <4>3
      <4>6. x = y
        <5> HIDE DEF x, y
        <5>1. QED
          BY <4>1, <4>4, <4>5, ModSame
      <4>7. QED
        BY <4>1, <4>6
    <3>7. QED
      BY <3>5, <3>6
  <2>4. /\ midi.dev # 0 => midi.armed \/ midiPast.stopped \/ sending # NoneSending
        /\ midi.armed => midi.dev # 0
    BY <2>1 DEF Keyboard
  <2>5. \A k \in DOMAIN g : ~midiPast.takes[g[k].from[2]] => g[k].from[1] < g[k].from[2]
    BY <2>1 DEF Cores, Came
  <2>6. QED
    BY <2>3, <2>4, <2>5 DEF MidiRight
<1>2. QED
  BY <1>1, MidiInvariant, PTL
-----------------------------------------------------------------------------
(* What the host types.                                                    *)

Parsers == [buf : Seq(Typed), done : BOOLEAN, eat_lf : BOOLEAN]
BridgePasts == [passed : Seq(Typed), turns : Int, loads : Int]

\* A line feed is eaten only after the line of a command, of which nothing is held.
Parses(p) == p \in Parsers /\ (p.eat_lf => p.done) /\ Len(Held(p)) <= Len(Prefix) + MaxArg
Eaten(p, c) == IF p.eat_lf /\ c = "lf" THEN <<c>> ELSE <<>>

BridgeTypes ==
  /\ tx_buf \in Seq(Typed) /\ typed \in Seq(Typed) /\ told \in Seq(Typed) /\ core_got \in Seq(Typed)
  /\ bridgePast \in BridgePasts
BridgeInv == BridgeTypes /\ Parses(parser) /\ HostKept /\ CoreGetsThem

\* The empty sequence, and joining it.
LEMMA EmptyOf ==
  ASSUME NEW T, NEW s \in Seq(T)
  PROVE  <<>> \in Seq(T) /\ Len(<<>>) = 0 /\ s \o <<>> = s /\ <<>> \o s = s
BY EmptySeq, ConcatEmptySeq

\* A byte at the end of two pieces is at the end of the second one.
LEMMA AppendOf ==
  ASSUME NEW T, NEW s \in Seq(T), NEW t \in Seq(T), NEW c \in T
  PROVE  /\ Append(s, c) \in Seq(T) /\ Len(Append(s, c)) = Len(s) + 1 /\ Len(s) \in Nat
         /\ s \o t \in Seq(T) /\ Append(s \o t, c) = s \o Append(t, c)
         /\ s \o <<c>> = Append(s, c) /\ <<c>> \in Seq(T) /\ Len(<<c>>) = 1
<1>1. Append(s, c) \in Seq(T) /\ Len(Append(s, c)) = Len(s) + 1 /\ Len(s) \in Nat
  BY AppendProperties, LenProperties
<1>2. s \o t \in Seq(T) /\ <<c>> \in Seq(T) /\ Len(<<c>>) = 1
  BY ConcatProperties
<1>3. s \o <<c>> = Append(s, c) /\ t \o <<c>> = Append(t, c) /\ (s \o t) \o <<c>> = Append(s \o t, c)
  BY <1>2, AppendIsConcat
<1>4. (s \o t) \o <<c>> = s \o (t \o <<c>>)
  BY <1>2, ConcatAssociative
<1>5. QED
  BY <1>1, <1>2, <1>3, <1>4

\* Joining pieces is associative.
LEMMA JoinsOf == \A s, t, u \in Seq(Typed) : s \o t \in Seq(Typed) /\ (s \o t) \o u = s \o (t \o u)
<1> SUFFICES ASSUME NEW s \in Seq(Typed), NEW t \in Seq(Typed), NEW u \in Seq(Typed)
             PROVE  s \o t \in Seq(Typed) /\ (s \o t) \o u = s \o (t \o u)
  OBVIOUS
<1>1. s \o t \in Seq(Typed)
  BY ConcatProperties
<1>2. (s \o t) \o u = s \o (t \o u)
  BY ConcatAssociative
<1> QED
  BY <1>1, <1>2

\* kg_at_feed(): what was held and the new byte are passed on, eaten or held again; a
\* command ends all that was held.
LEMMA FeedOf ==
  ASSUME NEW p, Parses(p), NEW c \in Typed
  PROVE  LET r == kg_at_feed(p, c)
         IN /\ Parses(r.p) /\ r.out \in Seq(Typed)
            /\ r.cmd => r.p.buf = Held(p) /\ Held(r.p) = <<>>
            /\ ~r.cmd => (r.out \o Eaten(p, c)) \o Held(r.p) = Append(Held(p), c)
<1> DEFINE r   == kg_at_feed(p, c)
           buf == Held(p)
           n   == Len(buf)
           m   == Len(Prefix)
<1> SUFFICES /\ Parses(r.p) /\ r.out \in Seq(Typed)
             /\ r.cmd => r.p.buf = buf /\ Held(r.p) = <<>>
             /\ ~r.cmd => (r.out \o Eaten(p, c)) \o Held(r.p) = Append(buf, c)
  OBVIOUS
<1> HIDE DEF r
<1>1. p \in Parsers /\ (p.eat_lf => p.done) /\ buf \in Seq(Typed) /\ n \in Nat /\ n <= m + MaxArg
  <2>1. p \in Parsers /\ p.buf \in Seq(Typed) /\ p.done \in BOOLEAN /\ n <= m + MaxArg /\ (p.eat_lf => p.done)
    BY DEF Parses, Parsers
  <2>2. buf \in Seq(Typed)
    BY <2>1 DEF Held
  <2>3. QED
    BY <2>1, <2>2, LenProperties
<1>2. m \in Nat /\ 1 <= m /\ MaxArg \in Nat
  BY BridgeAssumption, LenProperties, EmptySeq
<1>3. \A b \in Seq(Typed) : Len(b) <= m + MaxArg => Parses([EmptyParser EXCEPT !.buf = b]) /\ Held([EmptyParser EXCEPT !.buf = b]) = b
  BY DEF Parses, Parsers, EmptyParser, Held
<1>4. /\ <<>> \in Seq(Typed) /\ Len(<<>>) = 0 /\ <<>> \o <<>> = <<>>
      /\ <<c>> \in Seq(Typed) /\ Len(<<c>>) = 1 /\ <<>> \o <<c>> = <<c>> /\ <<c>> \o <<>> = <<c>>
      /\ Append(<<>>, c) = <<c>>
  <2>1. <<>> \in Seq(Typed) /\ <<c>> \in Seq(Typed)
    BY EmptyOf
  <2>2. <<>> \o <<>> = <<>> /\ <<>> \o <<c>> = <<c>> /\ <<c>> \o <<>> = <<c>> /\ Len(<<>>) = 0
    BY <2>1, EmptyOf
  <2>3. <<>> \o <<c>> = Append(<<>>, c) /\ Len(<<c>>) = 1
    BY <2>1, AppendOf
  <2>4. QED
    BY <2>1, <2>2, <2>3
<1>5. /\ Append(buf, c) \in Seq(Typed) /\ Len(Append(buf, c)) = n + 1 /\ buf \o <<c>> = Append(buf, c)
      /\ buf \o <<>> = buf /\ <<>> \o Append(buf, c) = Append(buf, c)
  <2>1. Append(buf, c) \in Seq(Typed) /\ Len(Append(buf, c)) = n + 1 /\ buf \o <<c>> = Append(buf, c)
    BY <1>1, AppendOf
  <2>2. QED
    BY <1>1, <2>1, EmptyOf
<1>6. CASE p.eat_lf /\ c = "lf"
  <2>1. buf = <<>> /\ Eaten(p, c) = <<c>>
    BY <1>1, <1>6 DEF Held, Eaten
  <2>2. r = [p |-> [EmptyParser EXCEPT !.buf = buf], out |-> <<>>, cmd |-> FALSE]
    BY <1>6 DEF r, kg_at_feed, Hold
  <2>3. Parses(r.p) /\ Held(r.p) = buf /\ r.out = <<>> /\ ~r.cmd
    BY <1>1, <1>2, <1>3, <2>2
  <2>4. QED
    BY <1>4, <2>1, <2>3
<1>7. CASE ~(p.eat_lf /\ c = "lf")
  <2>1. Eaten(p, c) = <<>>
    BY <1>7 DEF Eaten
  <2>2. CASE (n < m /\ c = Prefix[n + 1]) \/ (n >= m /\ c \notin Eol /\ n < m + MaxArg)
    <3>1. r = [p |-> [EmptyParser EXCEPT !.buf = Append(buf, c)], out |-> <<>>, cmd |-> FALSE]
      BY <1>1, <1>2, <1>7, <2>2 DEF r, kg_at_feed, Hold
    <3>2. n + 1 <= m + MaxArg
      BY <1>1, <1>2, <2>2
    <3>3. /\ Parses([EmptyParser EXCEPT !.buf = Append(buf, c)])
          /\ Held([EmptyParser EXCEPT !.buf = Append(buf, c)]) = Append(buf, c)
      <4> HIDE DEF n, m, buf
      <4>1. QED
        BY <1>3, <1>5, <3>2 DEF n, m
    <3>4. Parses(r.p) /\ Held(r.p) = Append(buf, c) /\ r.out = <<>> /\ ~r.cmd
      BY <3>1, <3>3
    <3>5. QED
      BY <1>4, <1>5, <2>1, <3>4
  <2>3. CASE n >= m /\ c \in Eol
    <3>1. r = [p |-> [buf |-> buf, done |-> TRUE, eat_lf |-> c = "cr"], out |-> <<>>, cmd |-> TRUE]
      BY <1>1, <1>2, <1>7, <2>3 DEF r, kg_at_feed
    <3>2. /\ r.p \in Parsers /\ r.p.done /\ r.p.buf = buf /\ r.out = <<>> /\ r.cmd
      BY <1>1, <3>1 DEF Parsers
    <3>3. Held(r.p) = <<>>
      BY <3>2 DEF Held
    <3>4. QED
      BY <1>2, <1>4, <3>2, <3>3 DEF Parses
  <2>4. CASE (n < m /\ c # Prefix[n + 1]) \/ (n >= m /\ c \notin Eol /\ ~(n < m + MaxArg))
    <3> DEFINE q == [p EXCEPT !.buf = buf, !.done = FALSE]
               h == mismatch(kg_at_flush(q), c)
    <3>1. kg_at_flush(q) = [p |-> EmptyParser, out |-> buf]
      BY <1>1 DEF kg_at_flush, Held, Parsers
    <3>2. r = [p |-> h.p, out |-> h.out, cmd |-> FALSE]
      BY <1>1, <1>2, <1>7, <2>4 DEF r, kg_at_feed
    <3> HIDE DEF q
    <3>3. CASE c = Prefix[1]
      <4>1. h.p = [EmptyParser EXCEPT !.buf = <<c>>] /\ h.out = buf
        BY <3>1, <3>3 DEF mismatch
      <4>2. Parses(h.p) /\ Held(h.p) = <<c>> /\ h.out = buf
        <5> HIDE DEF h, m, buf
        <5>1. Len(<<c>>) <= m + MaxArg
          BY <1>2, <1>4
        <5>2. QED
          BY <1>3, <1>4, <4>1, <5>1
      <4>3. (buf \o <<>>) \o <<c>> = Append(buf, c)
        BY <1>5
      <4>4. r.p = h.p /\ r.out = buf /\ ~r.cmd
        BY <3>2, <4>2
      <4>5. QED
        <5> HIDE DEF h, buf
        <5>1. QED
          BY <1>1, <2>1, <4>2, <4>3, <4>4
    <3>4. CASE c # Prefix[1]
      <4>1. h.p = EmptyParser /\ h.out = Append(buf, c)
        BY <3>1, <3>4 DEF mismatch
      <4>2. Parses(h.p) /\ Held(h.p) = <<>> /\ h.out = Append(buf, c)
        <5> HIDE DEF h, m, buf
        <5>1. Len(<<>>) <= m + MaxArg /\ Held(EmptyParser) = <<>>
          BY <1>2, <1>4 DEF Held, EmptyParser
        <5>2. EmptyParser \in Parsers /\ ~EmptyParser.eat_lf
          BY <1>4 DEF Parsers, EmptyParser
        <5>3. QED
          BY <4>1, <5>1, <5>2 DEF Parses, m
      <4>3. (Append(buf, c) \o <<>>) \o <<>> = Append(buf, c)
        BY <1>5, EmptyOf
      <4>4. r.p = h.p /\ r.out = Append(buf, c) /\ ~r.cmd
        BY <3>2, <4>2
      <4>5. QED
        <5> HIDE DEF h, buf
        <5>1. QED
          BY <1>5, <2>1, <4>2, <4>3, <4>4
    <3>5. QED
      BY <3>3, <3>4
  <2>5. n < m \/ n >= m
    BY <1>1, <1>2
  <2>6. QED
    BY <2>2, <2>3, <2>4, <2>5
<1>8. QED
  BY <1>6, <1>7

\* The bytes that are passed on get in the way of none that are still to be sent.
LEMMA PassedOn ==
  ASSUME BridgeTypes, CoreGetsThem, MayRead, NEW out \in Seq(Typed), PassOn(out), UNCHANGED core_got
  PROVE  CoreGetsThem' /\ tx_buf' \in Seq(Typed) /\ bridgePast' \in BridgePasts
<1>1. CASE esp_mode \/ adapter
  BY <1>1 DEF PassOn, BridgeTypes, CoreGetsThem
<1>2. CASE ~esp_mode /\ ~adapter
  <2>1. /\ tx_buf = <<>> /\ tx_buf' = out /\ bridgePast' = [bridgePast EXCEPT !.passed = @ \o out]
    BY <1>2 DEF PassOn, MayRead
  <2>2. /\ bridgePast \in BridgePasts /\ bridgePast.passed \in Seq(Typed) /\ core_got \in Seq(Typed)
    BY DEF BridgeTypes, BridgePasts
  <2>3. core_got = bridgePast.passed
    BY <2>1, <2>2, EmptyOf DEF CoreGetsThem
  <2>4. bridgePast.passed \o out \in Seq(Typed)
    BY <2>2, ConcatProperties
  <2>5. bridgePast' \in BridgePasts /\ bridgePast'.passed = bridgePast.passed \o out
    BY <2>1, <2>2, <2>4 DEF BridgePasts
  <2>6. QED
    BY <2>1, <2>3, <2>5 DEF CoreGetsThem
<1>3. QED
  BY <1>1, <1>2

\* Each byte of the host that is read.
LEMMA ReadHeld == ASSUME BridgeInv, Read PROVE BridgeInv'
<1>1. PICK c \in Typed :
        LET r == kg_at_feed(parser, c)
        IN /\ typed' = Append(typed, c) /\ parser' = r.p
           /\ IF r.cmd
              THEN /\ at_command(SubSeq(r.p.buf, Len(Prefix) + 1, Len(r.p.buf)))
                   /\ told' = told \o Append(r.p.buf, c) /\ UNCHANGED <<tx_buf, bridgePast>>
              ELSE /\ PassOn(r.out) /\ UNCHANGED esp_mode
                   /\ told' = told \o r.out \o (IF parser.eat_lf /\ c = "lf" THEN <<c>> ELSE <<>>)
  BY DEF Read
<1> DEFINE r == kg_at_feed(parser, c)
<1>2. BridgeTypes /\ Parses(parser) /\ HostKept /\ CoreGetsThem /\ MayRead /\ UNCHANGED core_got
  BY DEF BridgeInv, Read
<1>3. /\ Parses(r.p) /\ r.out \in Seq(Typed)
      /\ r.cmd => r.p.buf = Held(parser) /\ Held(r.p) = <<>>
      /\ ~r.cmd => (r.out \o Eaten(parser, c)) \o Held(r.p) = Append(Held(parser), c)
  BY <1>2, FeedOf
<1>4. /\ typed' = Append(typed, c) /\ parser' = r.p
      /\ r.cmd => told' = told \o Append(r.p.buf, c) /\ UNCHANGED <<tx_buf, bridgePast>>
      /\ ~r.cmd => PassOn(r.out) /\ told' = told \o r.out \o Eaten(parser, c)
  BY <1>1 DEF Eaten
<1> HIDE DEF r
<1>5. /\ typed \in Seq(Typed) /\ told \in Seq(Typed) /\ Held(parser) \in Seq(Typed) /\ Held(r.p) \in Seq(Typed)
      /\ told \o Held(parser) = typed
  <2>1. \A p : Parses(p) => Held(p) \in Seq(Typed)
    BY EmptyOf DEF Parses, Parsers, Held
  <2>2. QED
    BY <1>2, <1>3, <2>1 DEF BridgeTypes, HostKept
<1>6. /\ typed' \in Seq(Typed) /\ Append(Held(parser), c) \in Seq(Typed)
      /\ typed' = told \o Append(Held(parser), c)
  <2>1. Append(typed, c) \in Seq(Typed) /\ Append(Held(parser), c) \in Seq(Typed)
    BY <1>5, AppendProperties
  <2>2. Append(told \o Held(parser), c) = told \o Append(Held(parser), c)
    <3>1. \A s, t \in Seq(Typed) : Append(s \o t, c) = s \o Append(t, c)
      BY AppendOf
    <3>2. QED
      BY <1>5, <3>1
  <2>3. QED
    BY <1>4, <1>5, <2>1, <2>2
<1>7. Parses(parser')
  BY <1>3, <1>4
<1>8. CASE r.cmd
  <2>1. told' = typed' /\ Held(parser') = <<>> /\ UNCHANGED <<tx_buf, bridgePast, core_got>>
    BY <1>2, <1>3, <1>4, <1>6, <1>8
  <2>2. HostKept'
    BY <1>6, <2>1, EmptyOf DEF HostKept
  <2>3. QED
    BY <1>2, <1>6, <1>7, <2>1, <2>2 DEF BridgeInv, BridgeTypes, CoreGetsThem
<1>9. CASE ~r.cmd
  <2> DEFINE e == Eaten(parser, c)
             k == Held(r.p)
             o == r.out
  <2>1. e \in Seq(Typed) /\ o \in Seq(Typed) /\ k \in Seq(Typed) /\ o \o e \in Seq(Typed)
    <3>1. <<>> \in Seq(Typed) /\ <<c>> \in Seq(Typed)
      BY EmptyOf
    <3>2. e \in Seq(Typed)
      BY <3>1 DEF Eaten
    <3>3. QED
      BY <1>3, <1>5, <3>2, ConcatProperties
  <2>2. told' = told \o o \o e /\ (o \o e) \o k = Append(Held(parser), c)
    BY <1>3, <1>4, <1>9
  <2> HIDE DEF e, k, o
  <2>3. /\ told \o o \o e = told \o (o \o e) /\ told \o (o \o e) \in Seq(Typed)
        /\ (told \o (o \o e)) \o k = told \o ((o \o e) \o k)
    <3> DEFINE oe == o \o e
    <3>1. told \in Seq(Typed)
      BY <1>5
    <3>2. o \in Seq(Typed) /\ e \in Seq(Typed) /\ k \in Seq(Typed) /\ oe \in Seq(Typed)
      BY <2>1
    <3>3. (told \o o) \o e = told \o oe
      BY <3>1, <3>2, JoinsOf
    <3> HIDE DEF oe
    <3>4. told \o oe \in Seq(Typed) /\ (told \o oe) \o k = told \o (oe \o k)
      BY <3>1, <3>2, JoinsOf, SMTT(30)
    <3>5. QED
      BY <3>3, <3>4 DEF oe
  <2>4. told' \in Seq(Typed) /\ told' \o k = typed'
    BY <1>6, <2>2, <2>3
  <2>5. HostKept'
    BY <1>4, <2>4 DEF HostKept, k
  <2>6. CoreGetsThem' /\ tx_buf' \in Seq(Typed) /\ bridgePast' \in BridgePasts
    BY <1>2, <1>3, <1>4, <1>9, PassedOn
  <2>7. QED
    BY <1>2, <1>6, <1>7, <2>4, <2>5, <2>6 DEF BridgeInv, BridgeTypes
<1>10. QED
  BY <1>8, <1>9

\* What is held goes out when the host is quiet.
LEMMA QuietHeld == ASSUME BridgeInv, Quiet PROVE BridgeInv'
<1>1. BridgeTypes /\ Parses(parser) /\ HostKept /\ CoreGetsThem /\ MayRead /\ UNCHANGED <<core_got, typed>>
  BY DEF BridgeInv, Quiet
<1>2. /\ parser' = EmptyParser /\ told' = told \o Held(parser) /\ PassOn(Held(parser))
  BY DEF Quiet, kg_at_flush
<1>3. Held(parser) \in Seq(Typed) /\ told \in Seq(Typed) /\ typed \in Seq(Typed) /\ told' = typed
  BY <1>1, <1>2, EmptyOf DEF Parses, Parsers, Held, BridgeTypes, HostKept
<1>4. Parses(EmptyParser) /\ Held(EmptyParser) = <<>>
  <2>1. Len(Prefix) \in Nat /\ MaxArg \in Nat
    BY BridgeAssumption, LenProperties
  <2>2. EmptyParser \in Parsers /\ Held(EmptyParser) = <<>> /\ Len(<<>>) = 0 /\ ~EmptyParser.eat_lf
    BY EmptyOf DEF EmptyParser, Parsers, Held
  <2>3. QED
    BY <2>1, <2>2 DEF Parses
<1>5. HostKept'
  BY <1>1, <1>2, <1>3, <1>4, EmptyOf DEF HostKept
<1>6. CoreGetsThem' /\ tx_buf' \in Seq(Typed) /\ bridgePast' \in BridgePasts
  BY <1>1, <1>2, <1>3, PassedOn
<1>7. QED
  BY <1>1, <1>2, <1>3, <1>4, <1>5, <1>6 DEF BridgeInv, BridgeTypes

\* A byte on its way to the core gets there.
LEMMA SendByteHeld == ASSUME BridgeInv, SendByte PROVE BridgeInv'
<1>1. /\ tx_buf # <<>> /\ core_got' = Append(core_got, Head(tx_buf)) /\ tx_buf' = Tail(tx_buf)
      /\ UNCHANGED <<parser, typed, told, bridgePast>>
  BY DEF SendByte
<1>2. BridgeTypes /\ Parses(parser) /\ HostKept /\ core_got \o tx_buf = bridgePast.passed
  BY DEF BridgeInv, CoreGetsThem
<1>3. core_got \in Seq(Typed) /\ tx_buf \in Seq(Typed)
  BY <1>2 DEF BridgeTypes
<1>4. Head(tx_buf) \in Typed /\ Tail(tx_buf) \in Seq(Typed) /\ tx_buf = <<Head(tx_buf)>> \o Tail(tx_buf)
  BY <1>1, <1>3, HeadTailProperties
<1> DEFINE h == Head(tx_buf)
           t == Tail(tx_buf)
<1>5. /\ core_got \o <<h>> = Append(core_got, h) /\ <<h>> \in Seq(Typed) /\ Append(core_got, h) \in Seq(Typed)
  BY <1>3, <1>4, AppendOf
<1>6. (core_got \o <<h>>) \o t = core_got \o (<<h>> \o t)
  BY <1>3, <1>4, <1>5, ConcatAssociative
<1>7. core_got' \o tx_buf' = bridgePast'.passed
  BY <1>1, <1>2, <1>4, <1>5, <1>6
<1>8. QED
  BY <1>1, <1>2, <1>4, <1>5, <1>7 DEF BridgeInv, BridgeTypes, HostKept, CoreGetsThem

\* Each step keeps the invariant of the bridge.
THEOREM BridgeInvariant == BridgeSpec => []BridgeInv
<1>1. BridgeInit => BridgeInv
  <2>1. Len(Prefix) \in Nat /\ MaxArg \in Nat
    BY BridgeAssumption, LenProperties
  <2>2. EmptyParser \in Parsers /\ Held(EmptyParser) = <<>> /\ Len(<<>>) = 0 /\ ~EmptyParser.eat_lf
        /\ <<>> \in Seq(Typed) /\ <<>> \o <<>> = <<>>
    BY EmptyOf DEF EmptyParser, Parsers, Held
  <2>3. [passed |-> <<>>, turns |-> 0, loads |-> 0] \in BridgePasts
    BY <2>2 DEF BridgePasts
  <2>4. QED
    BY <2>1, <2>2, <2>3 DEF BridgeInit, BridgeInv, BridgeTypes, Parses, HostKept, CoreGetsThem
<1>2. BridgeInv /\ [BridgeNext]_bridgeVars => BridgeInv'
  <2> SUFFICES ASSUME BridgeInv, [BridgeNext]_bridgeVars PROVE BridgeInv'
    OBVIOUS
  <2>1. CASE Read
    BY <2>1, ReadHeld
  <2>2. CASE Quiet
    BY <2>2, QuietHeld
  <2>3. CASE SendByte
    BY <2>3, SendByteHeld
  <2>4. CASE LeaveEsp
    BY <2>4 DEF LeaveEsp, BridgeInv, BridgeTypes, HostKept, CoreGetsThem
  <2>5. ASSUME Turns \/ CoreLoaded PROVE BridgeInv'
    <3>1. /\ UNCHANGED <<parser, tx_buf, typed, told, core_got>>
          /\ \/ bridgePast' = [bridgePast EXCEPT !.turns = @ + 1]
             \/ bridgePast' = [bridgePast EXCEPT !.loads = @ + 1]
      BY <2>5 DEF Turns, CoreLoaded
    <3>2. bridgePast \in BridgePasts
      BY DEF BridgeInv, BridgeTypes
    <3>3. bridgePast' \in BridgePasts /\ bridgePast'.passed = bridgePast.passed
      BY <3>1, <3>2 DEF BridgePasts
    <3>4. QED
      BY <3>1, <3>3 DEF BridgeInv, BridgeTypes, HostKept, CoreGetsThem
  <2>6. CASE UNCHANGED bridgeVars
    BY <2>6 DEF bridgeVars, BridgeInv, BridgeTypes, HostKept, CoreGetsThem
  <2>7. QED
    BY <2>1, <2>2, <2>3, <2>4, <2>5, <2>6 DEF BridgeNext
<1>3. QED
  BY <1>1, <1>2, PTL DEF BridgeSpec

\* No byte of the host is lost, doubled or out of its order between the host and the core,
\* and no more is held than a command line can have.
THEOREM BridgeKeepsBytes == BridgeSpec => [](HostKept /\ CoreGetsThem /\ HeldBounded)
<1>1. BridgeInv => HostKept /\ CoreGetsThem /\ HeldBounded
  BY DEF BridgeInv, Parses, HeldBounded
<1>2. QED
  BY <1>1, BridgeInvariant, PTL
-----------------------------------------------------------------------------
(* Keys from the host.                                                     *)

\* The reports that can be queued.
Reports == {NoKeys} \cup {[mod |-> Parsed(line, i).mod, key |-> Parsed(line, i).key] : line \in Lines, i \in Nat}

InjectTypes ==
  /\ inject_q \in Seq(Reports) /\ writing \in Seq(Reports)
  /\ played \in [reals : Int, queued : Seq(Reports), gone : Seq(Reports)]

\* The room that was asked for is still there; a release alone asks for none.
RoomKept == writing = <<NoKeys>> \/ Len(inject_q) + Len(writing) <= InjectN - 1

\* The reports that were queued are played once, in their order, or still to be played.
PlayedInOrder == played.queued = played.gone \o inject_q
QueueBounded  == Len(inject_q) <= InjectN - 1

InjectInv == InjectTypes /\ RoomKept /\ PlayedInOrder /\ QueueBounded /\ core_kbd = kbd

\* A report on its own, and a sequence without its first one.
LEMMA ReportsOfSeq ==
  /\ <<>> \in Seq(Reports) /\ Len(<<>>) = 0 /\ <<>> \o <<>> = <<>>
  /\ <<NoKeys>> \in Seq(Reports) /\ Len(<<NoKeys>>) = 1 /\ Tail(<<NoKeys>>) = <<>>
  /\ \A s \in Seq(Reports) : Len(s) \in Nat
  /\ \A s \in Seq(Reports) : s # <<>> =>
       /\ Head(s) \in Reports /\ Tail(s) \in Seq(Reports) /\ Len(Tail(s)) = Len(s) - 1 /\ Len(s) >= 1
  /\ \A s \in Seq(Reports), x \in Reports : Append(s, x) \in Seq(Reports) /\ Len(Append(s, x)) = Len(s) + 1
  /\ \A s, t \in Seq(Reports), x \in Reports : Append(s \o t, x) = s \o Append(t, x)
  /\ \A s, t \in Seq(Reports) : t # <<>> => Append(s, Head(t)) \o Tail(t) = s \o t
<1>1. <<>> \in Seq(Reports) /\ Len(<<>>) = 0 /\ <<>> \o <<>> = <<>>
  BY EmptyOf
<1>2. NoKeys \in Reports /\ <<NoKeys>> \in Seq(Reports) /\ Len(<<NoKeys>>) = 1 /\ Tail(<<NoKeys>>) = <<>>
  BY DEF Reports
<1>3. \A s \in Seq(Reports) : Len(s) \in Nat
  BY LenProperties
<1>4. ASSUME NEW s \in Seq(Reports), s # <<>>
      PROVE  /\ Head(s) \in Reports /\ Tail(s) \in Seq(Reports) /\ Len(Tail(s)) = Len(s) - 1 /\ Len(s) >= 1
             /\ s = <<Head(s)>> \o Tail(s)
  <2>1. Head(s) \in Reports /\ Tail(s) \in Seq(Reports) /\ Len(Tail(s)) = Len(s) - 1 /\ s = <<Head(s)>> \o Tail(s)
    BY <1>4, HeadTailProperties
  <2>2. Len(s) # 0 /\ Len(s) \in Nat
    BY <1>4, EmptySeq, LenProperties
  <2>3. QED
    BY <2>1, <2>2
<1>5. \A s \in Seq(Reports), x \in Reports : Append(s, x) \in Seq(Reports) /\ Len(Append(s, x)) = Len(s) + 1
  BY AppendProperties
<1>6. ASSUME NEW s \in Seq(Reports), NEW t \in Seq(Reports), NEW x \in Reports
      PROVE  Append(s \o t, x) = s \o Append(t, x)
  <2>1. s \o t \in Seq(Reports) /\ <<x>> \in Seq(Reports)
    BY ConcatProperties
  <2>2. t \o <<x>> = Append(t, x) /\ (s \o t) \o <<x>> = Append(s \o t, x)
    BY <2>1, AppendIsConcat
  <2>3. (s \o t) \o <<x>> = s \o (t \o <<x>>)
    BY <2>1, ConcatAssociative
  <2>4. QED
    BY <2>2, <2>3
<1>7. ASSUME NEW s \in Seq(Reports), NEW t \in Seq(Reports), t # <<>>
      PROVE  Append(s, Head(t)) \o Tail(t) = s \o t
  <2> DEFINE h == Head(t)
             u == Tail(t)
  <2>1. h \in Reports /\ u \in Seq(Reports) /\ t = <<h>> \o u
    BY <1>4, <1>7
  <2> HIDE DEF h, u
  <2>2. s \o <<h>> = Append(s, h) /\ <<h>> \in Seq(Reports)
    BY <2>1, AppendOf
  <2>3. (s \o <<h>>) \o u = s \o (<<h>> \o u)
    BY <2>1, <2>2, ConcatAssociative
  <2>4. QED
    BY <2>1, <2>2, <2>3 DEF h, u
<1>8. QED
  BY <1>1, <1>2, <1>3, <1>4, <1>5, <1>6, <1>7

\* The reports of a command fit into the room that was asked for.
LEMMA ReportsFit ==
  ASSUME NEW line \in Lines, line.kind # "release", may_inject(line), Len(inject_q) \in Nat
  PROVE  ReportsOf(line) \in Seq(Reports) /\ Len(inject_q) + Len(ReportsOf(line)) <= InjectN - 1
<1> DEFINE n == Len(line.names)
           press(i) == [mod |-> Parsed(line, i).mod, key |-> Parsed(line, i).key]
<1>1. n \in Nat /\ InjectN \in Nat
  BY InjectAssumption
<1>2. \A i \in Nat : press(i) \in Reports
  BY DEF Reports
<1>3. NoKeys \in Reports
  BY DEF Reports
<1>4. 2 * n <= InjectN - 1 - Len(inject_q) /\ (line.kind = "hold" => n = 1)
  <2>1. 2 * n <= InjectN - 1 - Len(inject_q)
    BY <1>1 DEF may_inject, room, hid_kbd_inject_free
  <2>2. QED
    BY <2>1 DEF may_inject
<1>5. CASE line.kind = "hold"
  <2>1. ReportsOf(line) = <<press(1)>>
    BY <1>5 DEF ReportsOf
  <2>2. press(1) \in Reports
    BY <1>2
  <2> HIDE DEF press
  <2>3. <<press(1)>> \in Seq(Reports) /\ Len(<<press(1)>>) = 1
    BY <2>2
  <2>4. Len(inject_q) + 1 <= InjectN - 1
    <3> DEFINE q == Len(inject_q)
    <3>1. n = 1 /\ 2 * n <= InjectN - 1 - q /\ q \in Nat /\ InjectN \in Nat
      BY <1>1, <1>4, <1>5
    <3> HIDE DEF n, q
    <3>2. q + 1 <= InjectN - 1
      BY <3>1
    <3>3. QED
      BY <3>2 DEF q
  <2>5. QED
    BY <2>1, <2>3, <2>4
<1>6. CASE line.kind # "hold"
  <2> DEFINE rep(i) == IF i % 2 = 1 THEN press((i + 1) \div 2) ELSE NoKeys
             len    == 2 * n
  <2>1. ReportsOf(line) = [i \in 1 .. len |-> rep(i)]
    BY <1>6 DEF ReportsOf
  <2>2. len \in Nat
    BY <1>1
  <2>3. \A i \in 1 .. len : rep(i) \in Reports
    <3> SUFFICES ASSUME NEW i \in 1 .. len PROVE rep(i) \in Reports
      OBVIOUS
    <3>1. (i + 1) \div 2 \in Nat
      BY <2>2
    <3> HIDE DEF press
    <3>2. QED
      BY <1>2, <1>3, <3>1
  <2> HIDE DEF rep, len
  <2>4. ReportsOf(line) \in Seq(Reports) /\ Len(ReportsOf(line)) = len
    BY <2>1, <2>2, <2>3, IsASeq, LenProperties
  <2>5. QED
    BY <1>1, <1>4, <2>4 DEF len
<1>7. QED
  BY <1>5, <1>6

\* A command is answered.
LEMMA KeysKept == ASSUME InjectInv, at_keys PROVE InjectInv'
<1>1. PICK line \in Lines :
        /\ writing' = IF line.kind = "release" THEN <<NoKeys>>
                      ELSE IF may_inject(line) THEN ReportsOf(line) ELSE <<>>
  BY DEF at_keys
<1>2. UNCHANGED <<inject_q, kbd, core_kbd, played>>
  BY DEF at_keys
<1>3. InjectTypes /\ Len(inject_q) \in Nat /\ PlayedInOrder /\ QueueBounded /\ core_kbd = kbd /\ InjectN \in Nat
  BY ReportsOfSeq, InjectAssumption DEF InjectInv, InjectTypes
<1>4. writing' \in Seq(Reports) /\ (writing' = <<NoKeys>> \/ Len(inject_q) + Len(writing') <= InjectN - 1)
  <2>1. CASE line.kind = "release"
    BY <1>1, <2>1, ReportsOfSeq
  <2>2. CASE line.kind # "release" /\ may_inject(line)
    BY <1>1, <1>3, <2>2, ReportsFit
  <2>3. CASE line.kind # "release" /\ ~may_inject(line)
    <3>1. writing' = <<>>
      BY <1>1, <2>3
    <3>2. Len(<<>>) = 0 /\ <<>> \in Seq(Reports) /\ Len(inject_q) <= InjectN - 1
      BY <1>3, ReportsOfSeq DEF QueueBounded
    <3>3. QED
      BY <1>3, <3>1, <3>2
  <2>4. QED
    BY <2>1, <2>2, <2>3
<1>5. QED
  BY <1>2, <1>3, <1>4 DEF InjectInv, InjectTypes, RoomKept, PlayedInOrder, QueueBounded

\* A report is queued, but for a release alone that finds no room.
LEMMA InjectKept ==
  ASSUME InjectInv, hid_kbd_inject
  PROVE  InjectInv' /\ (Head(writing) # NoKeys => inject_q' = Append(inject_q, Head(writing)))
<1> DEFINE rep == Head(writing)
<1>1. writing # <<>> /\ key_report(rep) /\ writing' = Tail(writing) /\ UNCHANGED <<kbd, core_kbd>>
  BY DEF hid_kbd_inject
<1>2. InjectTypes /\ RoomKept /\ PlayedInOrder /\ QueueBounded /\ core_kbd = kbd
  BY DEF InjectInv
<1>3. inject_q \in Seq(Reports) /\ writing \in Seq(Reports) /\ played \in [reals : Int, queued : Seq(Reports), gone : Seq(Reports)]
  BY <1>2 DEF InjectTypes
<1>4. /\ rep \in Reports /\ writing' \in Seq(Reports) /\ Len(writing') = Len(writing) - 1 /\ Len(writing) >= 1
      /\ Len(inject_q) \in Nat /\ Len(writing) \in Nat /\ InjectN \in Nat
  BY <1>1, <1>3, ReportsOfSeq, InjectAssumption
<1>5. Len(inject_q) <= InjectN - 1 /\ (writing = <<NoKeys>> \/ Len(inject_q) + Len(writing) <= InjectN - 1)
  BY <1>2 DEF RoomKept, QueueBounded
<1>6. CASE Len(inject_q) < InjectN - 1
  <2> HIDE DEF rep
  <2>1. inject_q' = Append(inject_q, rep) /\ played' = [played EXCEPT !.queued = Append(@, rep)]
    BY <1>1, <1>6 DEF key_report
  <2>2. inject_q' \in Seq(Reports) /\ Len(inject_q') = Len(inject_q) + 1
    BY <1>3, <1>4, <2>1, ReportsOfSeq
  <2>3. /\ played' \in [reals : Int, queued : Seq(Reports), gone : Seq(Reports)]
        /\ played'.queued = Append(played.queued, rep) /\ played'.gone = played.gone
        /\ played.gone \in Seq(Reports)
    <3>1. played.queued \in Seq(Reports) /\ played.gone \in Seq(Reports)
      BY <1>3
    <3>2. Append(played.queued, rep) \in Seq(Reports)
      BY <1>4, <3>1, ReportsOfSeq
    <3>3. QED
      BY <1>3, <2>1, <3>1, <3>2
  <2>4. PlayedInOrder'
    <3>1. played.gone \in Seq(Reports) /\ inject_q \in Seq(Reports) /\ rep \in Reports
      BY <1>3, <1>4, <2>3
    <3>2. Append(played.gone \o inject_q, rep) = played.gone \o Append(inject_q, rep)
      BY <3>1, ReportsOfSeq
    <3>3. QED
      BY <1>2, <2>1, <2>3, <3>2 DEF PlayedInOrder
  <2>5. QueueBounded' /\ RoomKept'
    <3>1. Len(inject_q') <= InjectN - 1
      BY <1>4, <1>6, <2>2
    <3>2. CASE writing = <<NoKeys>>
      <4>1. writing' = <<>> /\ Len(writing') = 0
        BY <1>1, <3>2, ReportsOfSeq
      <4>2. QED
        <5> DEFINE q == Len(inject_q')
                   w == Len(writing')
        <5>1. q \in Nat /\ w = 0 /\ q <= InjectN - 1 /\ InjectN \in Nat
          BY <1>4, <2>2, <3>1, <4>1
        <5> HIDE DEF q, w
        <5>2. q + w <= InjectN - 1
          BY <5>1
        <5>3. Len(inject_q') + Len(writing') <= InjectN - 1
          BY <5>2 DEF q, w
        <5>4. QED
          BY <3>1, <5>3 DEF QueueBounded, RoomKept
    <3>3. CASE Len(inject_q) + Len(writing) <= InjectN - 1
      BY <1>4, <2>2, <3>1, <3>3 DEF QueueBounded, RoomKept
    <3>4. QED
      BY <1>5, <3>2, <3>3
  <2>6. InjectInv'
    BY <1>1, <1>2, <1>4, <2>2, <2>3, <2>4, <2>5 DEF InjectInv, InjectTypes
  <2>7. QED
    BY <2>1, <2>6 DEF rep
<1>7. CASE ~(Len(inject_q) < InjectN - 1)
  <2>1. UNCHANGED <<inject_q, played>>
    BY <1>1, <1>7 DEF key_report
  <2>2. writing = <<NoKeys>>
    BY <1>4, <1>5, <1>7
  <2>3. rep = NoKeys /\ writing' = <<>> /\ Len(writing') = 0
    BY <1>1, <2>2, ReportsOfSeq
  <2>4. RoomKept'
    <3> DEFINE q == Len(inject_q')
               w == Len(writing')
    <3>1. q \in Nat /\ w = 0 /\ q <= InjectN - 1 /\ InjectN \in Nat
      BY <1>4, <1>5, <2>1, <2>3
    <3> HIDE DEF q, w
    <3>2. q + w <= InjectN - 1
      BY <3>1
    <3>3. Len(inject_q') + Len(writing') <= InjectN - 1
      BY <3>2 DEF q, w
    <3>4. QED
      BY <3>3 DEF RoomKept
  <2>5. InjectInv'
    BY <1>1, <1>2, <1>4, <2>1, <2>4 DEF InjectInv, InjectTypes, PlayedInOrder, QueueBounded
  <2>6. QED
    BY <2>3, <2>5
<1>8. QED
  BY <1>6, <1>7

\* A report is played.
LEMMA TickKept == ASSUME InjectInv, hid_kbd_inject_tick PROVE InjectInv'
<1>1. /\ inject_q # <<>> /\ inject_q' = Tail(inject_q) /\ take_report(Head(inject_q))
      /\ played' = [played EXCEPT !.gone = Append(@, Head(inject_q))] /\ UNCHANGED writing
  BY DEF hid_kbd_inject_tick
<1>2. InjectTypes /\ RoomKept /\ PlayedInOrder /\ QueueBounded /\ core_kbd = kbd
  BY DEF InjectInv
<1>3. inject_q \in Seq(Reports) /\ writing \in Seq(Reports) /\ played \in [reals : Int, queued : Seq(Reports), gone : Seq(Reports)]
  BY <1>2 DEF InjectTypes
<1>4. /\ Head(inject_q) \in Reports /\ inject_q' \in Seq(Reports) /\ Len(inject_q') = Len(inject_q) - 1
      /\ Len(inject_q) \in Nat /\ Len(writing) \in Nat /\ InjectN \in Nat
  BY <1>1, <1>3, ReportsOfSeq, InjectAssumption
<1>5. core_kbd' = kbd'
  BY <1>1, <1>2 DEF take_report
<1>6. /\ played' \in [reals : Int, queued : Seq(Reports), gone : Seq(Reports)]
      /\ played'.gone = Append(played.gone, Head(inject_q)) /\ played'.queued = played.queued
      /\ played.gone \in Seq(Reports)
  <2>1. played.gone \in Seq(Reports)
    BY <1>3
  <2>2. Append(played.gone, Head(inject_q)) \in Seq(Reports)
    BY <1>4, <2>1, ReportsOfSeq
  <2>3. QED
    BY <1>1, <1>3, <2>1, <2>2
<1>7. PlayedInOrder'
  <2>1. Append(played.gone, Head(inject_q)) \o Tail(inject_q) = played.gone \o inject_q
    BY <1>1, <1>3, <1>6, ReportsOfSeq
  <2>2. QED
    BY <1>1, <1>2, <1>6, <2>1 DEF PlayedInOrder
<1>8. RoomKept' /\ QueueBounded'
  BY <1>1, <1>2, <1>4 DEF RoomKept, QueueBounded
<1>9. QED
  BY <1>1, <1>3, <1>4, <1>5, <1>6, <1>7, <1>8 DEF InjectInv, InjectTypes

\* A report of the real keyboard.
LEMMA RealKept == ASSUME InjectInv, RealReport PROVE InjectInv'
<1>1. PICK rep : take_report(rep)
  BY DEF RealReport
<1>2. played' = [played EXCEPT !.reals = @ + 1] /\ UNCHANGED <<inject_q, writing>>
  BY DEF RealReport
<1>3. InjectTypes /\ RoomKept /\ PlayedInOrder /\ QueueBounded /\ core_kbd = kbd
  BY DEF InjectInv
<1>4. core_kbd' = kbd'
  BY <1>1, <1>3 DEF take_report
<1>5. /\ played' \in [reals : Int, queued : Seq(Reports), gone : Seq(Reports)]
      /\ played'.gone = played.gone /\ played'.queued = played.queued
  BY <1>2, <1>3 DEF InjectTypes
<1>6. QED
  BY <1>2, <1>3, <1>4, <1>5 DEF InjectInv, InjectTypes, RoomKept, PlayedInOrder, QueueBounded

\* Each step keeps the invariant of the injected keys.
LEMMA InjectStepKept ==
  ASSUME InjectInv, [InjectNext]_injectVars
  PROVE  InjectInv'
<1>1. CASE at_keys
  BY <1>1, KeysKept
<1>2. CASE hid_kbd_inject
  BY <1>2, InjectKept
<1>3. CASE hid_kbd_inject_tick
  BY <1>3, TickKept
<1>4. CASE RealReport
  BY <1>4, RealKept
<1>5. CASE UNCHANGED injectVars
  BY <1>5 DEF injectVars, InjectInv, InjectTypes, RoomKept, PlayedInOrder, QueueBounded
<1>6. QED
  BY <1>1, <1>2, <1>3, <1>4, <1>5 DEF InjectNext

\* The queue of reports never overflows; what was queued is played in its order, and the
\* core knows the last report.
THEOREM InjectInvariant == InjectSpec => []InjectInv
<1>1. InjectInit => InjectInv
  <2> SUFFICES ASSUME InjectInit PROVE InjectInv
    OBVIOUS
  <2>1. InjectN \in Nat \ {0} /\ <<>> \in Seq(Reports) /\ Len(<<>>) = 0 /\ <<>> \o <<>> = <<>>
    BY InjectAssumption, ReportsOfSeq
  <2>2. [reals |-> 0, queued |-> <<>>, gone |-> <<>>] \in [reals : Int, queued : Seq(Reports), gone : Seq(Reports)]
    BY <2>1
  <2>3. QED
    BY <2>1, <2>2 DEF InjectInit, InjectInv, InjectTypes, RoomKept, PlayedInOrder, QueueBounded
<1>2. InjectInv /\ [InjectNext]_injectVars => InjectInv'
  BY InjectStepKept
<1>3. QED
  BY <1>1, <1>2, PTL DEF InjectSpec

\* A press of a command that was answered OK is never dropped: the room that at_keys asked
\* for is still there when APP queues the last report, whatever core1 played meanwhile.
THEOREM NoPressDropped ==
  InjectSpec => [][hid_kbd_inject /\ Head(writing) # NoKeys => inject_q' = Append(inject_q, Head(writing))]_injectVars
<1>1. InjectInv /\ [InjectNext]_injectVars =>
        [hid_kbd_inject /\ Head(writing) # NoKeys => inject_q' = Append(inject_q, Head(writing))]_injectVars
  BY InjectKept
<1>2. QED
  BY <1>1, InjectInvariant, PTL DEF InjectSpec
=============================================================================
