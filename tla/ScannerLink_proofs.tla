-------------------------- MODULE ScannerLink_proofs --------------------------
(***************************************************************************)
(* Proofs about ScannerLink, for every number of pings, image, crop and    *)
(* set of corners, every list of queries, and every bound on restarts,     *)
(* losses, lateness and analyses.                                          *)
(*                                                                         *)
(* Always: ReadyAgrees, CropCovers, OwnValue and CropWhole.  Until the     *)
(* firmware restarts, and after that if few pieces are under way:          *)
(* FormatKnown.                                                            *)
(*                                                                         *)
(* The argument is about Stream, the pieces that have arrived and those    *)
(* under way: whatever the line does and the firmware reads, what is left  *)
(* of it keeps its order, and a command adds its own reply at the end.     *)
(***************************************************************************)
EXTENDS ScannerLink, FiniteSetTheorems, WellFoundedInduction, TLAPS

Commands == {"ping", "writeBaud", "config", "writeFormat", "readFormat", "image", "status"}

Pieces == [of : Commands \union {"garbage"}, part : Nat, val : Int, baud : {Normal, Fast}]

Scanners == [baud : {Normal, Fast}, format : {0, 3}, settings : SUBSET ToSet(Settings),
             listening : BOOLEAN, knows : BOOLEAN]

Crops == [x : Int, y : Int, width : Int, height : Int, box : SUBSET (Int \X Int),
          rows : Seq(Seq(Pieces)), ok : BOOLEAN]

TypeInv ==
  /\ count \in Nat
  /\ at \in {"config", "configWait"} => count \in 1..4
  /\ baud \in {Normal, Fast} /\ wanted \in {0, 3}
  /\ rx \in Seq(Pieces) /\ out \in Seq(Pieces)
  /\ scanner \in Scanners
  /\ crop \in Crops
  /\ analyses \in Nat /\ restarts \in Nat /\ lost \in Nat /\ prompt \in BOOLEAN
  /\ values \in [DOMAIN Queries -> Int]

(* What is sent, with its parameter.                                       *)
Command(cmd, par) ==
  \/ cmd \in {"ping", "writeBaud", "image", "readFormat"} /\ par = 0
  \/ cmd = "config" /\ par \in ToSet(Settings)
  \/ cmd = "writeFormat" /\ par \in {0, 3}
  \/ cmd = "status" /\ par \in Nat

(* The pieces a command is answered with, sent at the scanner's rate.       *)
Own(cmd) == [of : {cmd}, part : Nat, val : Int, baud : {scanner.baud}]

LEMMA OwnPieces == ASSUME TypeInv, NEW cmd \in Commands PROVE Own(cmd) \subseteq Pieces
BY DEF Own, Pieces, TypeInv, Scanners

LEMMA PieceType ==
  ASSUME TypeInv, NEW of \in Commands, NEW part \in Nat, NEW val \in Int
  PROVE  Piece(of, part, val) \in Own(of)
BY DEF Piece, Own

LEMMA RequestedType ==
  TypeInv => CropImage \in Int /\ CaptureImage \in Int /\ Requested \in Int
BY DEF TypeInv, CropImage, CaptureImage, Requested

LEMMA ReplyType ==
  ASSUME TypeInv, NEW cmd, NEW par, Command(cmd, par)
  PROVE  Reply(cmd, par) \in Seq(Own(cmd))
<1>1. CASE cmd = "image"
  <2>1. Height \in Nat /\ Requested \in Int /\ 2 * Height \in Nat
    BY RequestedType, LinkAssumption
  <2>2. \A i \in 1..2 * Height : Piece("image", i, Requested) \in Own(cmd)
    BY <1>1, <2>1, PieceType DEF Commands
  <2>3. [i \in 1..2 * Height |-> Piece("image", i, Requested)] \in Seq(Own(cmd))
    BY <2>1, <2>2
  <2>4. <<Piece("image", 0, Requested)>> \in Seq(Own(cmd))
    BY <1>1, <2>1, PieceType DEF Commands
  <2>5. ImageReply \in Seq(Own(cmd))
    BY <2>3, <2>4 DEF ImageReply
  <2> QED
    BY <1>1, <2>5 DEF Reply
<1>2. CASE cmd = "status"
  <2>1. par \in Nat
    BY <1>2 DEF Command
  <2>2. \A p \in Nat, v \in {0, par} : Piece("status", p, v) \in Own(cmd)
    BY <1>2, <2>1, PieceType DEF Commands
  <2>3. StatusReply(par) \in Seq(Own(cmd))
    BY <2>2 DEF StatusReply
  <2> QED
    BY <1>2, <2>3 DEF Reply
<1>3. CASE cmd \notin {"image", "status"}
  <2>1. par \in {0, 3} \/ cmd # "writeFormat"
    BY <1>3 DEF Command
  <2>2. Rid \in Int /\ scanner.format \in Int /\ cmd \in Commands
    BY <1>3 DEF Rid, TypeInv, Scanners, Command, Commands
  <2>3. \A p \in Nat, v \in Int : Piece(cmd, p, v) \in Own(cmd)
    BY <2>2, PieceType DEF Commands
  <2>4. CASE cmd = "writeFormat"
    <3>0. par \in Int
      BY <2>1, <2>4
    <3>1. Reply(cmd, par) = <<Piece(cmd, 1, par), Piece(cmd, 2, Rid)>>
      BY <2>4 DEF Reply
    <3> QED
      BY <2>2, <2>3, <3>0, <3>1
  <2>5. CASE cmd = "readFormat"
    <3>1. Reply(cmd, par) = <<Piece(cmd, 1, 0), Piece(cmd, 2, scanner.format)>>
      BY <2>5 DEF Reply
    <3> QED
      BY <2>2, <2>3, <3>1
  <2>6. CASE cmd \notin {"writeFormat", "readFormat"}
    <3>1. Reply(cmd, par) = <<Piece(cmd, 1, 0), Piece(cmd, 2, 0)>>
      BY <1>3, <2>6 DEF Reply
    <3> QED
      BY <2>3, <3>1
  <2> QED
    BY <2>4, <2>5, <2>6
<1> QED
  BY <1>1, <1>2, <1>3

LEMMA ObeyedType ==
  ASSUME TypeInv, NEW cmd, NEW par, Command(cmd, par)
  PROVE  /\ Obeyed(cmd, par) \in Scanners
         /\ Obeyed(cmd, par).baud \in {Normal, scanner.baud}
         /\ cmd # "writeFormat" => Obeyed(cmd, par).format = scanner.format
         /\ Obeyed(cmd, par).knows = scanner.knows
BY DEF Obeyed, TypeInv, Scanners, Command

LEMMA SendTypes ==
  ASSUME TypeInv, NEW cmd, NEW par, Command(cmd, par), Send(cmd, par)
  PROVE  rx' = <<>> /\ out' \in Seq(Pieces) /\ scanner' \in Scanners /\ lost' \in Nat
<1>1. CASE scanner' = Obeyed(cmd, par) /\ out' = out \o Reply(cmd, par)
  <2>1. cmd \in Commands
    BY DEF Command, Commands
  <2>2. Reply(cmd, par) \in Seq(Pieces)
    BY <2>1, ReplyType, OwnPieces
  <2> QED
    BY <1>1, <2>2, ObeyedType DEF TypeInv, Send
<1>2. CASE UNCHANGED <<scanner, out>>
  BY <1>2 DEF TypeInv, Send
<1>3. lost' \in Nat
  BY DEF TypeInv, Send
<1> QED
  BY <1>1, <1>2, <1>3 DEF Send

(* A read takes pieces off the front of the ring, or flushes it.            *)
Taken(n) == rx' = SubSeq(rx, n + 1, Len(rx))
Takes    == \E n \in 0..Len(rx) : Taken(n)

Sends ==
  \/ PingSend \/ BaudSend \/ ConfigSend \/ FormatWrite \/ FormatRead \/ ImageSend
  \/ QuerySend

Reads ==
  \/ PingAnswered \/ PingFails \/ BaudAnswered \/ BaudUnanswered \/ Verified
  \/ ConfigSent \/ FormatWritten \/ FormatShown
  \/ AnalysisBegins \/ HeaderRead \/ CaptureRowRead \/ CropBegins \/ CropNotNeeded
  \/ RowRead \/ RowMissing \/ HeadRead \/ PidRead \/ TailRead \/ DataRead

LEMMA Steps == [Next]_vars => Arrive \/ Lose \/ Wake \/ Sends \/ Reads \/ Restart \/ UNCHANGED vars
BY DEF Next, Line, Firmware, Sends, Reads

LEMMA TakenOf ==
  ASSUME TypeInv, NEW n \in 0..Len(rx), Taken(n)
  PROVE  /\ rx' \in Seq(Pieces) /\ Len(rx') = Len(rx) - n
         /\ \A i \in 1..Len(rx') : rx'[i] = rx[i + n]
BY DEF TypeInv, Taken

LEMMA FlushTakes == ASSUME TypeInv, rx' = <<>> PROVE Takes
<1>1. Len(rx) \in 0..Len(rx) /\ SubSeq(rx, Len(rx) + 1, Len(rx)) = <<>>
  BY DEF TypeInv
<1> QED
  BY <1>1 DEF Takes, Taken

LEMMA KeepTakes == ASSUME TypeInv, rx' = rx PROVE Takes
<1>1. 0 \in 0..Len(rx) /\ SubSeq(rx, 0 + 1, Len(rx)) = rx
  BY DEF TypeInv
<1> QED
  BY <1>1 DEF Takes, Taken

LEMMA GotTakes == ASSUME TypeInv, NEW n \in Nat, Got(n) PROVE n \in 0..Len(rx) /\ Taken(n)
BY DEF TypeInv, Got, Taken

LEMMA ReadsTake == TypeInv /\ Reads => Takes
<1> SUFFICES ASSUME TypeInv, Reads PROVE Takes
  OBVIOUS
<1>1. rx' = <<>> \/ rx' = rx \/ Got(1) \/ Got(2)
  BY DEF Reads, PingAnswered, PingFails, BaudAnswered, BaudUnanswered, Verified,
         ConfigSent, FormatWritten, FormatShown, AnalysisBegins, CropBegins,
         CropNotNeeded, HeaderRead, CaptureRowRead, RowRead,
         RowMissing, HeadRead, PidRead, TailRead, DataRead, TimesOut, Flushed, Given
<1>2. CASE Got(1)
  BY <1>2, GotTakes DEF Takes
<1>3. CASE Got(2)
  BY <1>3, GotTakes DEF Takes
<1> QED
  BY <1>1, <1>2, <1>3, FlushTakes, KeepTakes

LEMMA ReadsKeep ==
  Reads => /\ scanner' = scanner /\ out' = out /\ prompt' = prompt /\ lost' = lost
           /\ wanted' = wanted /\ restarts' = restarts
BY DEF Reads, PingAnswered, PingFails, BaudAnswered, BaudUnanswered, Verified,
       ConfigSent, FormatWritten, FormatShown, AnalysisBegins, CropBegins,
       CropNotNeeded, HeaderRead, CaptureRowRead, RowRead,
       RowMissing, HeadRead, PidRead, TailRead, DataRead, line, format

LEMMA SendsKeep ==
  Sends => /\ baud' = baud /\ crop' = crop /\ analyses' = analyses /\ values' = values
           /\ wanted' = wanted /\ count' = count /\ restarts' = restarts
           /\ prompt' = prompt
BY DEF Sends, PingSend, BaudSend, ConfigSend, FormatWrite, FormatRead, ImageSend,
       QuerySend, format, image

LEMMA SettingOf == ASSUME NEW i \in 1..4 PROVE Settings[i] \in ToSet(Settings)
BY DEF Settings, ToSet

LEMMA SendsCommand ==
  TypeInv /\ Sends => \E cmd, par : Command(cmd, par) /\ Send(cmd, par)
<1> SUFFICES ASSUME TypeInv, Sends PROVE \E cmd, par : Command(cmd, par) /\ Send(cmd, par)
  OBVIOUS
<1>1. CASE ConfigSend
  <2>1. Send("config", Settings[count]) /\ Command("config", Settings[count])
    BY <1>1, SettingOf DEF ConfigSend, TypeInv, Command
  <2> QED
    BY <2>1
<1>2. CASE ~ConfigSend
  BY <1>2 DEF Sends, PingSend, BaudSend, FormatWrite, FormatRead, ImageSend, QuerySend,
              Command, TypeInv
<1> QED
  BY <1>1, <1>2

-----------------------------------------------------------------------------
(* Among finitely many sets one has none of the others inside it.           *)
LEMMA LeastSet ==
  ASSUME NEW U, IsFiniteSet(U), NEW C \in SUBSET (SUBSET U), C # {}
  PROVE  \E m \in C : \A n \in C : n \subseteq m => n = m
<1>1. IsWellFoundedOn(StrictSubsetOrdering(U), SUBSET U)
  BY FS_StrictSubsetOrderingWellFounded, FS_FiniteSubsetsOfFinite
<1>2. PICK m \in C : \A n \in C : ~(<<n, m>> \in StrictSubsetOrdering(U))
  BY <1>1, WFMin
<1> QED BY <1>2 DEF StrictSubsetOrdering

(* A finite set has an element at which a function takes its largest value. *)
LEMMA LargestValue ==
  ASSUME NEW V, IsFiniteSet(V), V # {}, NEW f \in [V -> Int]
  PROVE  \E m \in V : \A n \in V : f[n] <= f[m]
<1> DEFINE Above(s) == {t \in V : f[t] > f[s]}
           C == {Above(s) : s \in V}
<1> HIDE DEF Above
<1>1. C \in SUBSET (SUBSET V) /\ C # {}
  <2>1. \A s \in V : Above(s) \subseteq V
    BY DEF Above
  <2>2. C \subseteq SUBSET V
    BY <2>1
  <2>3. PICK s \in V : TRUE
    OBVIOUS
  <2>4. Above(s) \in C
    OBVIOUS
  <2> QED BY <2>2, <2>4
<1>2. PICK m \in V : \A n \in V : Above(n) \subseteq Above(m) => Above(n) = Above(m)
  <2>1. PICK c \in C : \A n \in C : n \subseteq c => n = c
    <3> HIDE DEF C
    <3> QED BY <1>1, LeastSet
  <2>2. PICK m \in V : c = Above(m)
    OBVIOUS
  <2>3. \A n \in V : Above(n) \in C
    OBVIOUS
  <2> HIDE DEF C
  <2> QED BY <2>1, <2>2, <2>3
<1>3. ASSUME NEW n \in V, f[n] > f[m] PROVE FALSE
  <2>1. n \in Above(m) /\ n \notin Above(n) /\ Above(n) \subseteq Above(m)
    BY <1>3 DEF Above
  <2> QED BY <1>2, <2>1
<1> QED BY <1>3

LEMMA GreatestOf ==
  ASSUME NEW S \in SUBSET Int, IsFiniteSet(S), S # {}
  PROVE  Greatest(S) \in S /\ \A b \in S : Greatest(S) >= b
<1> DEFINE f == [s \in S |-> s]
<1>1. f \in [S -> Int]
  OBVIOUS
<1>2. \E m \in S : \A n \in S : f[n] <= f[m]
  <2> HIDE DEF f
  <2> QED
    BY <1>1, LargestValue
<1>3. \E m \in S : \A n \in S : m >= n
  BY <1>2
<1> QED
  BY <1>3 DEF Greatest

LEMMA LeastOf ==
  ASSUME NEW S \in SUBSET Int, IsFiniteSet(S), S # {}
  PROVE  Least(S) \in S /\ \A b \in S : Least(S) <= b
<1> DEFINE f == [s \in S |-> 0 - s]
<1>1. f \in [S -> Int]
  OBVIOUS
<1>2. \E m \in S : \A n \in S : f[n] <= f[m]
  <2> HIDE DEF f
  <2> QED
    BY <1>1, LargestValue
<1>3. \E m \in S : \A n \in S : m <= n
  BY <1>2
<1> QED
  BY <1>3 DEF Least

LEMMA GreatestWith ==
  ASSUME NEW S \in SUBSET Int, IsFiniteSet(S), NEW k \in Int
  PROVE  /\ Greatest(S \union {k}) \in Int /\ Greatest(S \union {k}) >= k
         /\ \A b \in S : Greatest(S \union {k}) >= b
<1> DEFINE T == S \union {k}
<1>1. T \in SUBSET Int /\ IsFiniteSet(T) /\ T # {} /\ S \subseteq T /\ k \in T
  BY FS_AddElement
<1> HIDE DEF T
<1>2. Greatest(T) \in T /\ \A b \in T : Greatest(T) >= b
  BY <1>1, GreatestOf
<1>3. Greatest(T) \in Int /\ Greatest(T) >= k /\ \A b \in S : Greatest(T) >= b
  BY <1>1, <1>2
<1> QED
  BY <1>3 DEF T

LEMMA LeastWith ==
  ASSUME NEW S \in SUBSET Int, IsFiniteSet(S), NEW k \in Int
  PROVE  /\ Least(S \union {k}) \in Int /\ Least(S \union {k}) <= k
         /\ \A b \in S : Least(S \union {k}) <= b
<1> DEFINE T == S \union {k}
<1>1. T \in SUBSET Int /\ IsFiniteSet(T) /\ T # {} /\ S \subseteq T /\ k \in T
  BY FS_AddElement
<1> HIDE DEF T
<1>2. Least(T) \in T /\ \A b \in T : Least(T) <= b
  BY <1>1, LeastOf
<1>3. Least(T) \in Int /\ Least(T) <= k /\ \A b \in S : Least(T) <= b
  BY <1>1, <1>2
<1> QED
  BY <1>3 DEF T

(* The box of the corners holds them, and lies in order.                    *)
LEMMA BoxHolds ==
  ASSUME NEW s \in Symbols
  PROVE  LET b == Box(s)
         IN  /\ b.x0 \in Int /\ b.x1 \in Int /\ b.y0 \in Int /\ b.y1 \in Int
             /\ b.y0 < Height /\ 0 <= b.y1
             /\ \A p \in s : /\ b.x0 <= p[1] /\ p[1] <= b.x1
                             /\ b.y0 <= p[2] /\ p[2] <= b.y1
<1>1. IsFiniteSet(s) /\ s \subseteq Int \X Int
  BY LinkAssumption
<1> DEFINE X == {p[1] : p \in s}
           Y == {p[2] : p \in s}
<1>2. X \subseteq Int /\ Y \subseteq Int
  BY <1>1
<1>3. IsFiniteSet(X) /\ IsFiniteSet(Y)
  <2>1. [p \in s |-> p[1]] \in Surjection(s, X)
    BY DEF Surjection
  <2>2. [p \in s |-> p[2]] \in Surjection(s, Y)
    BY DEF Surjection
  <2> QED
    BY <1>1, <2>1, <2>2, FS_Surjection
<1>4. \A p \in s : p[1] \in X /\ p[2] \in Y
  OBVIOUS
<1>5. Width - 1 \in Int /\ Height - 1 \in Int
  BY LinkAssumption
<1> HIDE DEF X, Y
<1>7. /\ Box(s).x0 = Least(X \union {Width - 1}) /\ Box(s).x1 = Greatest(X \union {0})
      /\ Box(s).y0 = Least(Y \union {Height - 1}) /\ Box(s).y1 = Greatest(Y \union {0})
  BY DEF Box, X, Y
<1>8. /\ Box(s).x0 \in Int /\ \A b \in X : Box(s).x0 <= b
  BY <1>2, <1>3, <1>5, <1>7, LeastWith
<1>9. /\ Box(s).y0 \in Int /\ Box(s).y0 <= Height - 1 /\ \A b \in Y : Box(s).y0 <= b
  BY <1>2, <1>3, <1>5, <1>7, LeastWith
<1>10. /\ Box(s).x1 \in Int /\ \A b \in X : Box(s).x1 >= b
  <2>1. 0 \in Int
    OBVIOUS
  <2> QED
    BY <1>2, <1>3, <1>7, <2>1, GreatestWith
<1>11. /\ Box(s).y1 \in Int /\ Box(s).y1 >= 0 /\ \A b \in Y : Box(s).y1 >= b
  <2>1. 0 \in Int
    OBVIOUS
  <2>2. /\ Greatest(Y \union {0}) \in Int /\ Greatest(Y \union {0}) >= 0
        /\ \A b \in Y : Greatest(Y \union {0}) >= b
    BY <1>2, <1>3, <2>1, GreatestWith
  <2> QED
    BY <1>7, <2>2
<1>12. \A p \in s : p[1] \in Int /\ p[2] \in Int
  BY <1>1
<1>13. Box(s).y0 < Height /\ 0 <= Box(s).y1
  BY <1>9, <1>11, LinkAssumption
<1> QED
  BY <1>4, <1>8, <1>9, <1>10, <1>11, <1>12, <1>13

(* A margin takes nothing away, and what is cut off lies outside the image. *)
LEMMA ClippedCovers ==
  ASSUME NEW s \in Symbols, Croppable(Box(s))
  PROVE  LET c == Clipped(Box(s))
         IN  /\ c.x0 \in Int /\ c.x1 \in Int /\ c.y0 \in Int /\ c.y1 \in Int
             /\ 0 <= c.x0 /\ c.x1 < Width /\ 0 <= c.y0 /\ c.y1 < Height
             /\ c.y0 <= c.y1
             /\ (c.x1 - c.x0 + 1) * (c.y1 - c.y0 + 1) <= MaxCropBytes
             /\ \A p \in s : p \in (0..Width - 1) \X (0..Height - 1) =>
                  /\ c.x0 <= p[1] /\ p[1] <= c.x1
                  /\ c.y0 <= p[2] /\ p[2] <= c.y1
<1> DEFINE b == Box(s)
           m == Margin(Box(s))
           c == Clipped(Box(s))
<1>1. /\ b.x0 \in Int /\ b.x1 \in Int /\ b.y0 \in Int /\ b.y1 \in Int
      /\ b.y0 < Height /\ 0 <= b.y1
      /\ \A p \in s : /\ b.x0 <= p[1] /\ p[1] <= b.x1
                      /\ b.y0 <= p[2] /\ p[2] <= b.y1
  BY BoxHolds
<1>2. m \in Nat
  <2>1. MinMargin \in Nat
    BY LinkAssumption
  <2>2. Greater(b.x1 - b.x0 + 1, b.y1 - b.y0 + 1) \div 4 \in Int
    BY <1>1 DEF Greater
  <2> HIDE DEF b
  <2> QED
    BY <2>1, <2>2 DEF Margin, Greater, b
<1>3. /\ c.x0 = Greater(b.x0 - m, 0) /\ c.y0 = Greater(b.y0 - m, 0)
      /\ c.x1 = Lesser(b.x1 + m, Width - 1) /\ c.y1 = Lesser(b.y1 + m, Height - 1)
  BY DEF Clipped
<1>4. Area(c) <= MaxCropBytes
  BY DEF Croppable
<1>5. Width \in Nat /\ Height \in Nat /\ Height > 0 /\ s \subseteq Int \X Int
  BY LinkAssumption
<1>6. Area(c) = (c.x1 - c.x0 + 1) * (c.y1 - c.y0 + 1)
  BY DEF Area
<1> HIDE DEF b, m, c
<1>7. /\ c.x0 \in Int /\ c.x1 \in Int /\ c.y0 \in Int /\ c.y1 \in Int
      /\ 0 <= c.x0 /\ c.x1 < Width /\ 0 <= c.y0 /\ c.y1 < Height
  BY <1>1, <1>2, <1>3, <1>5 DEF Greater, Lesser
<1>8. ASSUME NEW p \in s, p \in (0..Width - 1) \X (0..Height - 1)
      PROVE  /\ c.x0 <= p[1] /\ p[1] <= c.x1
             /\ c.y0 <= p[2] /\ p[2] <= c.y1
  <2>1. p[1] \in 0..Width - 1 /\ p[2] \in 0..Height - 1
    BY <1>8
  <2> QED
    BY <1>1, <1>2, <1>3, <1>5, <2>1 DEF Greater, Lesser
<1>9. c.y0 <= c.y1
  <2>1. PICK p \in s : p[2] \in Int
    BY <1>5, LinkAssumption
  <2>2. b.y0 <= b.y1
    BY <1>1, <2>1
  <2> QED
    BY <1>1, <1>2, <1>3, <1>5, <2>2 DEF Greater, Lesser
<1> QED
  BY <1>4, <1>6, <1>7, <1>8, <1>9 DEF c

-----------------------------------------------------------------------------
(* The types.                                                               *)

LEMMA InitTypeInv == Init => TypeInv
<1> SUFFICES ASSUME Init PROVE TypeInv
  OBVIOUS
<1>1. crop \in Crops
  BY DEF Init, NoCrop, Crops
<1>2. scanner \in Scanners
  BY DEF Init, Scanners
<1>3. values \in [DOMAIN Queries -> Int]
  BY DEF Init, Unread
<1> QED
  BY <1>1, <1>2, <1>3, LinkAssumption DEF Init, TypeInv, Normal

LEMMA CropBeginsTypes ==
  TypeInv /\ CropBegins => crop' \in Crops
<1> SUFFICES ASSUME TypeInv, CropBegins PROVE crop' \in Crops
  OBVIOUS
<1>1. PICK s \in Symbols :
        LET c == Clipped(Box(s))
        IN  \/ /\ Croppable(Box(s))
               /\ crop' = [NoCrop EXCEPT !.x = c.x0, !.y = c.y0,
                             !.width = c.x1 - c.x0 + 1, !.height = c.y1 - c.y0 + 1,
                             !.box = s]
            \/ crop' = NoCrop
  BY DEF CropBegins
<1>2. NoCrop \in Crops
  BY DEF NoCrop, Crops
<1>3. s \subseteq Int \X Int
  BY LinkAssumption
<1> DEFINE c == Clipped(Box(s))
<1>4. CASE Croppable(Box(s)) /\ crop' = [NoCrop EXCEPT !.x = c.x0, !.y = c.y0,
                             !.width = c.x1 - c.x0 + 1, !.height = c.y1 - c.y0 + 1,
                             !.box = s]
  <2>1. c.x0 \in Int /\ c.x1 \in Int /\ c.y0 \in Int /\ c.y1 \in Int
    BY <1>4, ClippedCovers
  <2> HIDE DEF c
  <2>2. crop' \in Crops
    <3>1. crop' = [x |-> c.x0, y |-> c.y0, width |-> c.x1 - c.x0 + 1,
                   height |-> c.y1 - c.y0 + 1, box |-> s, rows |-> <<>>, ok |-> FALSE]
      BY <1>4 DEF NoCrop
    <3>2. s \in SUBSET (Int \X Int) /\ <<>> \in Seq(Seq(Pieces))
      BY <1>3
    <3> QED
      BY <2>1, <3>1, <3>2 DEF Crops
  <2> QED
    BY <2>2
<1>5. CASE crop' = NoCrop
  BY <1>2, <1>5
<1> QED
  BY <1>1, <1>4, <1>5

LEMMA RowReadTypes ==
  TypeInv /\ RowRead => /\ crop' \in Crops
                        /\ crop'.x = crop.x /\ crop'.y = crop.y /\ crop'.box = crop.box
                        /\ crop'.width = crop.width /\ crop'.height = crop.height
<1> SUFFICES ASSUME TypeInv, RowRead
             PROVE  /\ crop' \in Crops
                    /\ crop'.x = crop.x /\ crop'.y = crop.y /\ crop'.box = crop.box
                    /\ crop'.width = crop.width /\ crop'.height = crop.height
  OBVIOUS
<1>1. PICK r, o : crop' = [crop EXCEPT !.rows = r, !.ok = o]
                  /\ r \in {crop.rows, Append(crop.rows, SubSeq(rx, 1, 2))}
                  /\ o \in BOOLEAN
  BY DEF RowRead
<1>2. SubSeq(rx, 1, 2) \in Seq(Pieces)
  BY DEF RowRead, Got, TypeInv
<1>3. crop \in Crops /\ crop.rows \in Seq(Seq(Pieces))
  BY DEF TypeInv, Crops
<1>4. r \in Seq(Seq(Pieces))
  <2> DEFINE t == SubSeq(rx, 1, 2)
  <2>1. t \in Seq(Pieces) /\ r \in {crop.rows, Append(crop.rows, t)}
    BY <1>1, <1>2
  <2> HIDE DEF t
  <2>2. Append(crop.rows, t) \in Seq(Seq(Pieces))
    BY <1>3, <2>1
  <2> QED
    BY <1>3, <2>1, <2>2
<1> QED
  BY <1>1, <1>3, <1>4 DEF Crops

LEMMA QueryEndsTypes ==
  ASSUME TypeInv, NEW v \in Int, QueryEnds(v)
  PROVE  values' \in [DOMAIN Queries -> Int] /\ count' \in Nat /\ at' \in {"identity", "ready"}
<1>1. values' = [values EXCEPT ![count] = v] /\ values \in [DOMAIN Queries -> Int]
  BY DEF TypeInv, QueryEnds
<1>2. values' \in [DOMAIN Queries -> Int]
  BY <1>1
<1>3. count' \in Nat /\ at' \in {"identity", "ready"}
  BY DEF TypeInv, QueryEnds
<1> QED
  BY <1>2, <1>3

LEMMA ReadsTypes == TypeInv /\ Reads => TypeInv'
<1> SUFFICES ASSUME TypeInv, Reads PROVE TypeInv'
  OBVIOUS
<1>1. rx' \in Seq(Pieces)
  BY ReadsTake, TakenOf DEF Takes
<1>2. /\ out' \in Seq(Pieces) /\ scanner' \in Scanners /\ wanted' \in {0, 3}
      /\ prompt' \in BOOLEAN /\ restarts' \in Nat /\ lost' \in Nat
  BY ReadsKeep DEF TypeInv
<1>3. CASE \/ PingAnswered \/ PingFails \/ BaudAnswered \/ BaudUnanswered \/ Verified
           \/ ConfigSent \/ FormatWritten \/ FormatShown
           \/ HeaderRead \/ CaptureRowRead \/ CropNotNeeded \/ RowMissing
  <2>1. crop' = crop /\ values' = values /\ analyses' = analyses
    BY <1>3 DEF PingAnswered, PingFails, BaudAnswered, BaudUnanswered, Verified,
         ConfigSent, FormatWritten, FormatShown, HeaderRead, CaptureRowRead, CropNotNeeded,
         RowMissing, image
  <2>2. baud' \in {Normal, Fast}
    BY <1>3 DEF PingAnswered, PingFails, BaudAnswered, BaudUnanswered, Verified,
         ConfigSent, FormatWritten, FormatShown, HeaderRead, CaptureRowRead, CropNotNeeded,
         RowMissing, TypeInv
  <2>3. count' \in Nat /\ (at' \in {"config", "configWait"} => count' \in 1..4)
    <3>1. CASE PingAnswered \/ Verified \/ RowMissing
      BY <3>1 DEF PingAnswered, Verified, RowMissing
    <3>5. CASE PingFails
      <4>1. FastTries \in Nat /\ count \in Nat /\ at' \notin {"config", "configWait"}
        BY <3>5, LinkAssumption DEF PingFails, TypeInv
      <4> QED
        BY <3>5, <4>1 DEF PingFails
    <3>2. CASE HeaderRead \/ CaptureRowRead \/ CropNotNeeded
      BY <3>2 DEF HeaderRead, CaptureRowRead, CropNotNeeded, TypeInv
    <3>3. CASE ConfigSent
      <4>1. Len(Settings) = 4
        BY DEF Settings
      <4> QED
        BY <3>3, <4>1 DEF ConfigSent, TypeInv
    <3>4. CASE BaudAnswered \/ BaudUnanswered \/ FormatWritten \/ FormatShown
      BY <3>4 DEF BaudAnswered, BaudUnanswered, FormatWritten, FormatShown, TypeInv
    <3> QED
      BY <1>3, <3>1, <3>2, <3>3, <3>4, <3>5
  <2> QED
    BY <1>1, <1>2, <2>1, <2>2, <2>3 DEF TypeInv
<1>7. CASE AnalysisBegins
  <2>1. /\ baud' = baud /\ count' = 1 /\ analyses' = analyses + 1
        /\ at' \notin {"config", "configWait"} /\ crop' = NoCrop
        /\ values' = [q \in DOMAIN Queries |-> Unread]
    BY <1>7 DEF AnalysisBegins
  <2>2. crop' \in Crops /\ values' \in [DOMAIN Queries -> Int]
    BY <2>1 DEF NoCrop, Crops, Unread
  <2> QED
    BY <1>1, <1>2, <2>1, <2>2 DEF TypeInv
<1>4. CASE CropBegins
  <2>1. /\ baud' = baud /\ count' = count /\ analyses' = analyses /\ values' = values
        /\ at' \notin {"config", "configWait"}
    BY <1>4 DEF CropBegins
  <2> QED
    BY <1>1, <1>2, <1>4, <2>1, CropBeginsTypes DEF TypeInv
<1>5. CASE RowRead
  <2>1. /\ baud' = baud /\ count' \in Nat /\ analyses' = analyses /\ values' = values
        /\ at' \notin {"config", "configWait"}
    BY <1>5 DEF RowRead, TypeInv
  <2> QED
    BY <1>1, <1>2, <1>5, <2>1, RowReadTypes DEF TypeInv
<1>6. CASE HeadRead \/ PidRead \/ TailRead \/ DataRead
  <2>1. baud' = baud /\ crop' = crop /\ analyses' = analyses
    BY <1>6 DEF HeadRead, PidRead, TailRead, DataRead, image
  <2>2. \/ count' = count /\ values' = values /\ at' \in {"pid", "tail", "data"}
        \/ \E v \in Int : QueryEnds(v)
    <3>1. CASE HeadRead \/ PidRead \/ TailRead
      BY <3>1 DEF HeadRead, PidRead, TailRead, Flushed, Given, Error
    <3>2. CASE DataRead
      <4>1. CASE Got(1)
        <5>1. rx[1] \in Pieces
          BY <4>1 DEF Got, TypeInv
        <5>2. rx[1].val \in Int
          BY <5>1 DEF Pieces
        <5> QED
          BY <3>2, <5>2 DEF DataRead, Error, Junk
      <4>2. CASE ~Got(1)
        BY <3>2, <4>2 DEF DataRead, Error
      <4> QED
        BY <4>1, <4>2
    <3> QED
      BY <1>6, <3>1, <3>2
  <2>3. /\ count' \in Nat /\ values' \in [DOMAIN Queries -> Int]
        /\ at' \notin {"config", "configWait"}
    BY <2>2, QueryEndsTypes DEF TypeInv
  <2> QED
    BY <1>1, <1>2, <2>1, <2>3 DEF TypeInv
<1> QED
  BY <1>3, <1>4, <1>5, <1>6, <1>7 DEF Reads

LEMMA StepTypeInv == TypeInv /\ [Next]_vars => TypeInv'
<1> SUFFICES ASSUME TypeInv, [Next]_vars PROVE TypeInv'
  OBVIOUS
<1>1. CASE Arrive
  <2>1. Head(out) \in Pieces /\ out' \in Seq(Pieces)
    BY <1>1 DEF Arrive, TypeInv
  <2>2. [Head(out) EXCEPT !.of = "garbage"] \in Pieces
    BY <2>1 DEF Pieces
  <2>3. rx' \in Seq(Pieces)
    BY <1>1, <2>1, <2>2 DEF Arrive, TypeInv
  <2> QED
    BY <1>1, <2>1, <2>3 DEF Arrive, TypeInv, image, format
<1>2. CASE Lose
  BY <1>2 DEF Lose, TypeInv, image, format
<1>3. CASE Wake
  <2>1. scanner' \in Scanners
    BY <1>3 DEF Wake, TypeInv, Scanners
  <2> QED
    BY <1>3, <2>1 DEF Wake, TypeInv, image, format
<1>4. CASE Sends
  <2>1. rx' = <<>> /\ out' \in Seq(Pieces) /\ scanner' \in Scanners /\ lost' \in Nat
    BY <1>4, SendsCommand, SendTypes
  <2>2. at' \in {"config", "configWait"} => at = "config"
    BY <1>4 DEF Sends, PingSend, BaudSend, ConfigSend, FormatWrite, FormatRead, ImageSend,
                QuerySend
  <2> QED
    BY <1>4, <2>1, <2>2, SendsKeep DEF TypeInv
<1>5. CASE Reads
  BY <1>5, ReadsTypes
<1>6. CASE Restart
  <2>1. out' \in Seq(Pieces) /\ scanner' \in Scanners
    <3>1. CASE UNCHANGED <<scanner, out>>
      BY <3>1 DEF TypeInv
    <3>2. CASE scanner' = [scanner EXCEPT !.listening = prompt, !.settings = {}] /\ out' = <<>>
      <4>1. scanner' = [baud |-> scanner.baud, format |-> scanner.format, settings |-> {},
                        listening |-> prompt, knows |-> scanner.knows]
        BY <3>2 DEF TypeInv, Scanners
      <4> QED
        BY <3>2, <4>1 DEF TypeInv, Scanners
    <3> QED
      BY <1>6, <3>1, <3>2 DEF Restart
  <2>2. crop' \in Crops
    BY <1>6 DEF Restart, NoCrop, Crops
  <2>3. values' \in [DOMAIN Queries -> Int]
    BY <1>6 DEF Restart, Unread
  <2>4. PingTries \in Nat
    BY LinkAssumption
  <2>5. /\ count' = PingTries /\ at' = "ping" /\ baud' = Normal /\ rx' = <<>>
        /\ wanted' \in {0, 3} /\ restarts' = restarts + 1
        /\ analyses' = analyses /\ prompt' = prompt /\ lost' = lost
    BY <1>6 DEF Restart
  <2> QED
    BY <2>1, <2>2, <2>3, <2>4, <2>5 DEF TypeInv
<1>7. CASE UNCHANGED vars
  BY <1>7 DEF vars, TypeInv, image, format
<1> QED
  BY <1>1, <1>2, <1>3, <1>4, <1>5, <1>6, <1>7, Steps

-----------------------------------------------------------------------------
(* The baud rate.  The scanner never leaves 115200 once it uses it, so that *)
(* a piece that was sent at 115200, wherever it is, proves that it does;    *)
(* and a piece that is in the ring and legible was sent at the rate of the  *)
(* firmware, but just after the firmware has changed its rate.              *)

Probing == {"ping", "pinging", "baud", "bauding", "verify", "verifying", "failed"}

SentAt(s) == \A i \in 1..Len(s) : s[i].baud = Normal => scanner.baud = Normal

Legible == \A i \in 1..Len(rx) : rx[i].of # "garbage" <=> rx[i].baud = baud

BaudInv ==
  /\ at \notin Probing => baud = Normal /\ scanner.baud = Normal
  /\ at \in {"verify", "verifying"} => baud = Normal
  /\ SentAt(rx) /\ SentAt(out)
  /\ \A i \in 1..Len(out) : out[i].of # "garbage"
  /\ at # "verify" => Legible

Replied == [of : Commands, part : Nat, val : Int, baud : {scanner.baud}]

LEMMA SendsShape ==
  TypeInv /\ Sends =>
    /\ rx' = <<>> /\ scanner'.baud \in {Normal, scanner.baud}
    /\ \E r \in Seq(Replied) : out' = out \o r
<1> SUFFICES ASSUME TypeInv, Sends
             PROVE  /\ rx' = <<>> /\ scanner'.baud \in {Normal, scanner.baud}
                    /\ \E r \in Seq(Replied) : out' = out \o r
  OBVIOUS
<1>1. PICK cmd, par : Command(cmd, par) /\ Send(cmd, par)
  BY SendsCommand
<1>2. rx' = <<>>
  BY <1>1 DEF Send
<1>3. CASE scanner' = Obeyed(cmd, par) /\ out' = out \o Reply(cmd, par)
  <2>1. cmd \in Commands
    BY <1>1 DEF Command, Commands
  <2>2. Reply(cmd, par) \in Seq(Own(cmd)) /\ Own(cmd) \subseteq Replied
    BY <1>1, <2>1, ReplyType DEF Own, Replied
  <2>3. Reply(cmd, par) \in Seq(Replied)
    BY <2>2
  <2>4. scanner'.baud \in {Normal, scanner.baud}
    BY <1>1, <1>3, ObeyedType
  <2> QED
    BY <1>2, <1>3, <2>3, <2>4
<1>4. CASE UNCHANGED <<scanner, out>>
  <2>1. out' = out \o <<>> /\ <<>> \in Seq(Replied)
    BY <1>4 DEF TypeInv
  <2> QED
    BY <1>2, <1>4, <2>1
<1> QED
  BY <1>1, <1>3, <1>4 DEF Send

LEMMA Joined ==
  ASSUME NEW S, NEW T, NEW a \in Seq(S), NEW b \in Seq(T)
  PROVE  \A i \in 1..Len(a \o b) :
           \/ i \in 1..Len(a) /\ (a \o b)[i] = a[i]
           \/ i - Len(a) \in 1..Len(b) /\ (a \o b)[i] = b[i - Len(a)]
<1>1. a \in Seq(S \union T) /\ b \in Seq(S \union T)
  OBVIOUS
<1> QED
  BY <1>1

LEMMA InitBaudInv == Init => BaudInv
<1> SUFFICES ASSUME Init PROVE BaudInv
  OBVIOUS
<1>1. rx = <<>> /\ out = <<>> /\ at = "ping"
  BY DEF Init
<1> QED
  BY <1>1 DEF BaudInv, SentAt, Legible, Probing

LEMMA StepBaudInv == TypeInv /\ BaudInv /\ [Next]_vars => BaudInv'
<1> SUFFICES ASSUME TypeInv, BaudInv, [Next]_vars PROVE BaudInv'
  OBVIOUS
<1>0. rx \in Seq(Pieces) /\ out \in Seq(Pieces) /\ scanner.baud \in {Normal, Fast}
  BY DEF TypeInv, Scanners
<1>1. CASE Arrive
  <2>1. /\ at' = at /\ baud' = baud /\ scanner' = scanner /\ out # <<>> /\ out' = Tail(out)
        /\ rx' = Append(rx, IF Head(out).baud = baud THEN Head(out)
                            ELSE [Head(out) EXCEPT !.of = "garbage"])
    BY <1>1 DEF Arrive
  <2>2. /\ Len(out') = Len(out) - 1 /\ Head(out) = out[1] /\ Len(out) >= 1
        /\ \A i \in 1..Len(out') : out'[i] = out[i + 1] /\ i + 1 \in 1..Len(out)
    BY <1>0, <2>1
  <2>3. PICK p \in Pieces : /\ rx' = Append(rx, p) /\ p.baud = out[1].baud
                            /\ p.of # "garbage" <=> p.baud = baud
    <3>1. out[1] \in Pieces /\ out[1].of # "garbage"
      BY <1>0, <2>2 DEF BaudInv
    <3>2. CASE out[1].baud = baud
      BY <2>1, <2>2, <3>1, <3>2
    <3>3. CASE out[1].baud # baud
      <4>1. /\ [out[1] EXCEPT !.of = "garbage"] \in Pieces
            /\ [out[1] EXCEPT !.of = "garbage"].of = "garbage"
            /\ [out[1] EXCEPT !.of = "garbage"].baud = out[1].baud
        BY <3>1 DEF Pieces
      <4> QED
        BY <2>1, <2>2, <3>3, <4>1
    <3> QED
      BY <3>2, <3>3
  <2>4. /\ Len(rx') = Len(rx) + 1 /\ rx'[Len(rx) + 1] = p
        /\ \A i \in 1..Len(rx) : rx'[i] = rx[i]
    BY <1>0, <2>3
  <2>5. SentAt(out)' /\ \A i \in 1..Len(out') : out'[i].of # "garbage"
    BY <2>1, <2>2 DEF BaudInv, SentAt
  <2>6. SentAt(rx)'
    BY <1>0, <2>1, <2>2, <2>3, <2>4 DEF BaudInv, SentAt
  <2>7. at # "verify" => Legible'
    BY <1>0, <2>1, <2>3, <2>4 DEF BaudInv, Legible
  <2> QED
    BY <2>1, <2>5, <2>6, <2>7 DEF BaudInv
<1>2. CASE Lose
  <2>1. /\ at' = at /\ baud' = baud /\ scanner' = scanner /\ rx' = rx /\ out # <<>>
        /\ out' = Tail(out)
    BY <1>2 DEF Lose
  <2>2. /\ Len(out') = Len(out) - 1
        /\ \A i \in 1..Len(out') : out'[i] = out[i + 1] /\ i + 1 \in 1..Len(out)
    BY <1>0, <2>1
  <2> QED
    BY <2>1, <2>2 DEF BaudInv, SentAt, Legible
<1>3. CASE Wake
  <2>1. /\ at' = at /\ baud' = baud /\ rx' = rx /\ out' = out
        /\ scanner'.baud = scanner.baud
    BY <1>3 DEF Wake, TypeInv, Scanners
  <2> QED
    BY <2>1 DEF BaudInv, SentAt, Legible
<1>4. CASE Sends
  <2>1. /\ rx' = <<>> /\ scanner'.baud \in {Normal, scanner.baud} /\ baud' = baud
    BY <1>4, SendsShape, SendsKeep
  <2>2. PICK r \in Seq(Replied) : out' = out \o r
    BY <1>4, SendsShape
  <2>3. \A i \in 1..Len(r) : r[i].baud = scanner.baud /\ r[i].of \in Commands
    <3>1. \A i \in 1..Len(r) : r[i] \in Replied
      OBVIOUS
    <3> QED
      BY <3>1 DEF Replied
  <2>4. SentAt(out)' /\ \A i \in 1..Len(out') : out'[i].of # "garbage"
    <3> SUFFICES ASSUME NEW i \in 1..Len(out')
                 PROVE  /\ out'[i].baud = Normal => scanner'.baud = Normal
                        /\ out'[i].of # "garbage"
      BY DEF SentAt
    <3>1. CASE i \in 1..Len(out) /\ out'[i] = out[i]
      BY <2>1, <3>1 DEF BaudInv, SentAt
    <3>2. CASE i - Len(out) \in 1..Len(r) /\ out'[i] = r[i - Len(out)]
      BY <2>1, <2>3, <3>2 DEF Commands
    <3> QED
      BY <1>0, <2>2, <3>1, <3>2, Joined
  <2>5. SentAt(rx)' /\ Legible'
    BY <2>1 DEF SentAt, Legible
  <2>6. /\ at' \notin Probing => at \notin Probing
        /\ at' \in {"verify", "verifying"} => at \in {"verify", "verifying"}
    BY <1>4 DEF Sends, PingSend, BaudSend, ConfigSend, FormatWrite, FormatRead, ImageSend,
                QuerySend, Probing
  <2> QED
    BY <2>1, <2>4, <2>5, <2>6 DEF BaudInv
<1>5. CASE Reads
  <2>1. scanner' = scanner /\ out' = out
    BY <1>5, ReadsKeep
  <2>2. PICK n \in 0..Len(rx) : Taken(n)
    BY <1>5, ReadsTake DEF Takes
  <2>3. /\ Len(rx') = Len(rx) - n
        /\ \A i \in 1..Len(rx') : rx'[i] = rx[i + n] /\ i + n \in 1..Len(rx)
    BY <1>0, <2>2, TakenOf
  <2>4. SentAt(rx)' /\ SentAt(out)' /\ \A i \in 1..Len(out') : out'[i].of # "garbage"
    BY <2>1, <2>3 DEF BaudInv, SentAt
  <2>5. at' # "verify" => Legible'
    <3>1. CASE at' = "verify"
      BY <3>1
    <3>2. CASE rx' = <<>>
      BY <3>2 DEF Legible
    <3>3. CASE baud' = baud /\ at # "verify"
      BY <2>3, <3>3 DEF BaudInv, Legible
    <3> QED
      BY <1>5, <3>1, <3>2, <3>3
      DEF Reads, PingAnswered, PingFails, BaudAnswered, BaudUnanswered, Verified,
          ConfigSent, FormatWritten, FormatShown, AnalysisBegins, CropBegins,
          CropNotNeeded, HeaderRead, CaptureRowRead, RowRead,
          RowMissing, HeadRead, PidRead, TailRead, DataRead, TimesOut
  <2>6. at' \in {"verify", "verifying"} => baud' = Normal
    BY <1>5 DEF Reads, PingAnswered, PingFails, BaudAnswered, BaudUnanswered, Verified,
          ConfigSent, FormatWritten, FormatShown, AnalysisBegins, CropBegins,
          CropNotNeeded, HeaderRead, CaptureRowRead, RowRead,
          RowMissing, HeadRead, PidRead, TailRead, DataRead, Flushed, Given, QueryEnds
  <2>7. at' \notin Probing => baud' = Normal /\ scanner.baud = Normal
    <3>1. CASE PingAnswered \/ Verified
      <4>1. at' \notin Probing => baud' = Normal /\ baud = Normal /\ Answered
        BY <3>1 DEF PingAnswered, Verified, BaudInv, Probing
      <4>2. Answered => 1 \in 1..Len(rx) /\ rx[1].of = "ping"
        BY <1>0 DEF Answered, Is
      <4>3. at # "verify"
        BY <3>1 DEF PingAnswered, Verified
      <4> QED
        BY <4>1, <4>2, <4>3 DEF BaudInv, Legible, SentAt
    <3>2. CASE PingFails \/ BaudAnswered \/ BaudUnanswered
      BY <3>2 DEF PingFails, BaudAnswered, BaudUnanswered, Probing
    <3>3. CASE ~(PingAnswered \/ Verified \/ PingFails \/ BaudAnswered \/ BaudUnanswered)
      <4>1. at \notin Probing /\ baud' = baud
        BY <1>5, <3>3 DEF Reads, ConfigSent, FormatWritten, FormatShown, AnalysisBegins,
             CropBegins, CropNotNeeded, HeaderRead, CaptureRowRead, RowRead, RowMissing, HeadRead, PidRead, TailRead, DataRead,
             Probing
      <4> QED
        BY <4>1 DEF BaudInv
    <3> QED
      BY <3>1, <3>2, <3>3
  <2> QED
    BY <2>1, <2>4, <2>5, <2>6, <2>7 DEF BaudInv
<1>6. CASE Restart
  <2>1. /\ rx' = <<>> /\ at' = "ping" /\ (out' = out \/ out' = <<>>)
        /\ scanner'.baud = scanner.baud
    BY <1>6 DEF Restart, TypeInv, Scanners
  <2>2. SentAt(rx)' /\ Legible'
    BY <2>1 DEF SentAt, Legible
  <2>3. SentAt(out)' /\ \A i \in 1..Len(out') : out'[i].of # "garbage"
    <3>1. CASE out' = out
      BY <2>1, <3>1 DEF BaudInv, SentAt
    <3>2. CASE out' = <<>>
      BY <3>2 DEF SentAt
    <3> QED
      BY <2>1, <3>1, <3>2
  <2> QED
    BY <2>1, <2>2, <2>3 DEF BaudInv, Probing
<1>7. CASE UNCHANGED vars
  BY <1>7 DEF vars, BaudInv, SentAt, Legible
<1> QED
  BY <1>1, <1>2, <1>3, <1>4, <1>5, <1>6, <1>7, Steps

(* qr_scanner_init reports the scanner ready only when both ends use        *)
(* 115200, whatever was lost, however late the replies and however often    *)
(* the firmware was restarted.                                              *)
THEOREM ReadyAgreesHolds == Spec => []ReadyAgrees
<1>1. BaudInv => ReadyAgrees
  BY DEF BaudInv, ReadyAgrees, Probing
<1> QED
  BY InitTypeInv, StepTypeInv, InitBaudInv, StepBaudInv, <1>1, PTL DEF Spec

-----------------------------------------------------------------------------
(* The crop.                                                                *)

LEMMA StepCropCovers == TypeInv /\ CropCovers /\ [Next]_vars => CropCovers'
<1> SUFFICES ASSUME TypeInv, CropCovers, [Next]_vars PROVE CropCovers'
  OBVIOUS
<1>1. CASE CropBegins
  <2>1. PICK s \in Symbols :
        LET c == Clipped(Box(s))
        IN  \/ /\ Croppable(Box(s))
               /\ crop' = [NoCrop EXCEPT !.x = c.x0, !.y = c.y0,
                             !.width = c.x1 - c.x0 + 1, !.height = c.y1 - c.y0 + 1,
                             !.box = s]
            \/ crop' = NoCrop
    BY <1>1 DEF CropBegins
  <2> DEFINE c == Clipped(Box(s))
  <2>2. CASE crop' = NoCrop
    BY <2>2 DEF CropCovers, NoCrop
  <2>3. CASE Croppable(Box(s)) /\ crop' = [NoCrop EXCEPT !.x = c.x0, !.y = c.y0,
                             !.width = c.x1 - c.x0 + 1, !.height = c.y1 - c.y0 + 1,
                             !.box = s]
    <3>1. /\ c.x0 \in Int /\ c.x1 \in Int /\ c.y0 \in Int /\ c.y1 \in Int
          /\ 0 <= c.x0 /\ c.x1 < Width /\ 0 <= c.y0 /\ c.y1 < Height
          /\ (c.x1 - c.x0 + 1) * (c.y1 - c.y0 + 1) <= MaxCropBytes
          /\ \A p \in s : p \in (0..Width - 1) \X (0..Height - 1) =>
               /\ c.x0 <= p[1] /\ p[1] <= c.x1
               /\ c.y0 <= p[2] /\ p[2] <= c.y1
      BY <2>3, ClippedCovers
    <3>2. /\ crop'.x = c.x0 /\ crop'.width = c.x1 - c.x0 + 1
          /\ crop'.y = c.y0 /\ crop'.height = c.y1 - c.y0 + 1
          /\ crop'.box = s
      BY <2>3 DEF NoCrop
    <3> HIDE DEF c
    <3>3. /\ crop'.x >= 0 /\ crop'.x + crop'.width <= Width
          /\ crop'.y >= 0 /\ crop'.y + crop'.height <= Height
          /\ crop'.width * crop'.height <= MaxCropBytes
      <4>1. Width \in Int /\ Height \in Int
        BY LinkAssumption
      <4>2. crop'.width * crop'.height <= MaxCropBytes
        BY <3>1, <3>2
      <4>3. /\ crop'.x >= 0 /\ crop'.x + crop'.width <= Width
            /\ crop'.y >= 0 /\ crop'.y + crop'.height <= Height
        BY <3>1, <3>2, <4>1
      <4> QED
        BY <4>2, <4>3
    <3>4. ASSUME NEW p \in s, p \in (0..Width - 1) \X (0..Height - 1)
          PROVE  /\ crop'.x <= p[1] /\ p[1] < crop'.x + crop'.width
                 /\ crop'.y <= p[2] /\ p[2] < crop'.y + crop'.height
      <4>1. p[1] \in Int /\ p[2] \in Int
        BY <3>4
      <4>2. /\ c.x0 <= p[1] /\ p[1] <= c.x1
            /\ c.y0 <= p[2] /\ p[2] <= c.y1
        BY <3>1, <3>4
      <4> QED
        BY <3>1, <3>2, <4>1, <4>2
    <3> QED
      BY <3>2, <3>3, <3>4 DEF CropCovers
  <2> QED
    BY <2>1, <2>2, <2>3
<1>2. CASE RowRead
  BY <1>2, RowReadTypes DEF CropCovers
<1>3. CASE Restart
  BY <1>3 DEF Restart, CropCovers, NoCrop
<1>5. CASE AnalysisBegins
  BY <1>5 DEF AnalysisBegins, CropCovers, NoCrop
<1>4. CASE ~(CropBegins \/ RowRead \/ Restart \/ AnalysisBegins)
  <2>1. crop' = crop
    <3>1. CASE Reads
      BY <1>4, <3>1 DEF Reads, PingAnswered, PingFails, BaudAnswered, BaudUnanswered,
         Verified, ConfigSent, FormatWritten, FormatShown, HeaderRead, CaptureRowRead,
         CropNotNeeded, RowMissing, HeadRead, PidRead, TailRead, DataRead, image
    <3>2. CASE ~Reads
      BY <1>4, <3>2, Steps, SendsKeep DEF Arrive, Lose, Wake, vars, image
    <3> QED
      BY <3>1, <3>2
  <2> QED
    BY <2>1 DEF CropCovers
<1> QED
  BY <1>1, <1>2, <1>3, <1>4, <1>5

(* The crop lies in the image, fits the memory set aside for it and holds   *)
(* every corner that lies in the image, whatever the size of the image and  *)
(* the corners that were found.                                             *)
THEOREM CropCoversHolds == Spec => []CropCovers
<1>1. Init => CropCovers
  BY DEF Init, CropCovers, NoCrop
<1> QED
  BY InitTypeInv, StepTypeInv, StepCropCovers, <1>1, PTL DEF Spec

-----------------------------------------------------------------------------
(* What is under way: the pieces in the ring, then those still to arrive.   *)

Stream == rx \o out

(* Piece i of the stream after the step was piece k before it.              *)
From(i, k) ==
  /\ Stream'[i].part = Stream[k].part /\ Stream'[i].val = Stream[k].val
  /\ Stream'[i].baud = Stream[k].baud
  /\ Stream'[i].of \in {Stream[k].of, "garbage"}

StreamFacts ==
  /\ rx \in Seq(Pieces) /\ out \in Seq(Pieces) /\ Len(rx) \in Nat /\ Len(out) \in Nat
  /\ Stream \in Seq(Pieces) /\ Len(Stream) = Len(rx) + Len(out)
  /\ \A i \in 1..Len(rx) : Stream[i] = rx[i]
  /\ \A i \in 1..Len(out) : Stream[i + Len(rx)] = out[i]

LEMMA StreamOf == TypeInv => StreamFacts
BY DEF TypeInv, Stream, StreamFacts

LEMMA StreamOfNext == (TypeInv)' => (StreamFacts)'
BY StreamOf, PTL

(* A piece arrives: the stream stays what it is.                            *)
LEMMA StreamStays ==
  TypeInv /\ (Arrive \/ Wake \/ UNCHANGED vars) =>
    /\ Len(Stream') = Len(Stream)
    /\ \A i \in 1..Len(Stream') : From(i, i)
<1> SUFFICES ASSUME TypeInv, Arrive \/ Wake \/ UNCHANGED vars
             PROVE  /\ Len(Stream') = Len(Stream)
                    /\ \A i \in 1..Len(Stream') : From(i, i)
  OBVIOUS
<1>0. TypeInv'
  BY StepTypeInv DEF Next, Line
<1>1. StreamFacts
  BY StreamOf
<1>2. (StreamFacts)'
  BY <1>0, StreamOfNext
<1> USE DEF StreamFacts
<1>3. CASE Arrive
  <2>1. /\ out # <<>> /\ out' = Tail(out)
        /\ rx' = Append(rx, IF Head(out).baud = baud THEN Head(out)
                            ELSE [Head(out) EXCEPT !.of = "garbage"])
    BY <1>3 DEF Arrive
  <2>2. /\ Len(out') = Len(out) - 1 /\ Head(out) = out[1] /\ Len(out) >= 1
        /\ \A i \in 1..Len(out') : out'[i] = out[i + 1]
    BY <1>1, <2>1
  <2>3. PICK p \in Pieces : /\ rx' = Append(rx, p) /\ p.baud = out[1].baud
                            /\ p.val = out[1].val /\ p.part = out[1].part
                            /\ p.of \in {out[1].of, "garbage"}
    <3>1. out[1] \in Pieces
      BY <1>1, <2>2
    <3>2. CASE out[1].baud = baud
      BY <2>1, <2>2, <3>1, <3>2
    <3>3. CASE out[1].baud # baud
      <4>1. /\ [out[1] EXCEPT !.of = "garbage"] \in Pieces
            /\ [out[1] EXCEPT !.of = "garbage"].of = "garbage"
            /\ [out[1] EXCEPT !.of = "garbage"].baud = out[1].baud
            /\ [out[1] EXCEPT !.of = "garbage"].val = out[1].val
            /\ [out[1] EXCEPT !.of = "garbage"].part = out[1].part
        BY <3>1 DEF Pieces
      <4> QED
        BY <2>1, <2>2, <3>3, <4>1
    <3> QED
      BY <3>2, <3>3
  <2>4. /\ Len(rx') = Len(rx) + 1 /\ rx'[Len(rx) + 1] = p
        /\ \A i \in 1..Len(rx) : rx'[i] = rx[i]
    BY <1>1, <2>3
  <2>5. Len(Stream') = Len(Stream)
    BY <1>1, <1>2, <2>2, <2>4
  <2>6. ASSUME NEW i \in 1..Len(Stream') PROVE From(i, i)
    <3>1. CASE i <= Len(rx)
      <4>1. i \in 1..Len(rx) /\ i \in 1..Len(rx')
        BY <1>1, <2>4, <3>1
      <4>2. Stream'[i] = rx[i] /\ Stream[i] = rx[i]
        BY <1>1, <1>2, <2>4, <4>1
      <4> QED
        BY <4>2 DEF From
    <3>2. CASE i = Len(rx) + 1
      <4>1. Stream'[i] = rx'[i] /\ Stream[1 + Len(rx)] = out[1] /\ 1 + Len(rx) = i
        BY <1>1, <1>2, <2>2, <2>4, <3>2
      <4> QED
        BY <2>3, <2>4, <3>2, <4>1 DEF From
    <3>3. CASE i > Len(rx) + 1
      <4> DEFINE k == i - (Len(rx) + 1)
      <4>1. k \in 1..Len(out') /\ k + 1 \in 1..Len(out)
            /\ k + Len(rx') = i /\ (k + 1) + Len(rx) = i
        BY <1>1, <1>2, <2>2, <2>4, <3>3
      <4>2. Stream'[i] = out'[k] /\ Stream[i] = out[k + 1]
        <5> HIDE DEF k
        <5> QED
          BY <1>1, <1>2, <4>1
      <4>3. out'[k] = out[k + 1]
        BY <2>2, <4>1
      <4> QED
        BY <4>2, <4>3 DEF From
    <3> QED
      BY <1>1, <3>1, <3>2, <3>3
  <2> QED
    BY <2>5, <2>6
<1>4. CASE Wake \/ UNCHANGED vars
  <2>1. Stream' = Stream
    BY <1>4 DEF Wake, vars, Stream
  <2> QED
    BY <2>1 DEF From
<1> QED
  BY <1>3, <1>4

(* Pieces are taken: it moves up.                                           *)
LEMMA StreamTaken ==
  ASSUME TypeInv, Reads, NEW n \in 0..Len(rx), Taken(n)
  PROVE  /\ Len(Stream') = Len(Stream) - n
         /\ \A i \in 1..Len(Stream') :
              i + n \in 1..Len(Stream) /\ Stream'[i] = Stream[i + n]
<1>0. TypeInv'
  BY StepTypeInv DEF Next, Firmware, Reads
<1>1. StreamFacts
  BY StreamOf
<1>2. (StreamFacts)'
  BY <1>0, StreamOfNext
<1> USE DEF StreamFacts
<1>4. /\ Len(rx') = Len(rx) - n /\ \A i \in 1..Len(rx') : rx'[i] = rx[i + n]
  BY TakenOf
<1>5. out' = out
  BY ReadsKeep
<1>6. Len(Stream') = Len(Stream) - n
  BY <1>1, <1>2, <1>4, <1>5
<1>7. ASSUME NEW i \in 1..Len(Stream')
      PROVE  i + n \in 1..Len(Stream) /\ Stream'[i] = Stream[i + n]
  <2>1. i + n \in 1..Len(Stream)
    BY <1>1, <1>2, <1>6
  <2>2. CASE i <= Len(rx')
    <3>1. i \in 1..Len(rx') /\ i + n \in 1..Len(rx)
      BY <1>1, <1>2, <1>4, <2>2
    <3>2. Stream'[i] = rx'[i] /\ Stream[i + n] = rx[i + n] /\ rx'[i] = rx[i + n]
      BY <1>1, <1>2, <1>4, <3>1
    <3> QED
      BY <2>1, <3>2
  <2>3. CASE i > Len(rx')
    <3> DEFINE k == i - Len(rx')
    <3>1. k \in 1..Len(out) /\ k + Len(rx') = i /\ k + Len(rx) = i + n
      BY <1>1, <1>2, <1>4, <1>5, <2>3
    <3>2. Stream'[i] = out[k] /\ Stream[i + n] = out[k]
      <4> HIDE DEF k
      <4> QED
        BY <1>1, <1>2, <1>5, <3>1
    <3> QED
      BY <2>1, <3>2
  <2> QED
    BY <1>2, <2>1, <2>2, <2>3
<1> QED
  BY <1>6, <1>7

LEMMA StreamMoves ==
  TypeInv /\ (Arrive \/ Wake \/ Reads \/ UNCHANGED vars) =>
    \E d \in 0..Len(rx) :
      /\ Len(Stream') = Len(Stream) - d
      /\ \A i \in 1..Len(Stream') : i + d \in 1..Len(Stream) /\ From(i, i + d)
<1> SUFFICES ASSUME TypeInv, Arrive \/ Wake \/ Reads \/ UNCHANGED vars
             PROVE  \E d \in 0..Len(rx) :
                      /\ Len(Stream') = Len(Stream) - d
                      /\ \A i \in 1..Len(Stream') : i + d \in 1..Len(Stream) /\ From(i, i + d)
  OBVIOUS
<1>1. CASE Arrive \/ Wake \/ UNCHANGED vars
  <2>1. Len(Stream') = Len(Stream) /\ \A i \in 1..Len(Stream') : From(i, i)
    BY <1>1, StreamStays
  <2>2. /\ 0 \in 0..Len(rx) /\ Len(Stream') = Len(Stream) - 0
        /\ \A i \in 1..Len(Stream') : i + 0 \in 1..Len(Stream) /\ i + 0 = i
    BY <2>1, StreamOf DEF StreamFacts
  <2>3. \A i \in 1..Len(Stream') : i + 0 \in 1..Len(Stream) /\ From(i, i + 0)
    BY <2>1, <2>2
  <2> QED
    BY <2>2, <2>3
<1>2. CASE Reads
  <2>1. PICK n \in 0..Len(rx) : Taken(n)
    BY <1>2, ReadsTake DEF Takes
  <2> QED
    BY <1>2, <2>1, StreamTaken DEF From
<1> QED
  BY <1>1, <1>2

LEMMA StreamLoses ==
  TypeInv /\ Lose =>
    /\ Len(Stream') = Len(Stream) - 1
    /\ \A i \in 1..Len(Stream') :
         LET k == IF i <= Len(rx) THEN i ELSE i + 1
         IN  k \in 1..Len(Stream) /\ From(i, k)
<1> SUFFICES ASSUME TypeInv, Lose
             PROVE  /\ Len(Stream') = Len(Stream) - 1
                    /\ \A i \in 1..Len(Stream') :
                         LET k == IF i <= Len(rx) THEN i ELSE i + 1
                         IN  k \in 1..Len(Stream) /\ From(i, k)
  OBVIOUS
<1>0. TypeInv'
  BY StepTypeInv DEF Next, Line
<1>1. StreamFacts
  BY StreamOf
<1>2. (StreamFacts)'
  BY <1>0, StreamOfNext
<1> USE DEF StreamFacts
<1>3. /\ rx' = rx /\ Len(out') = Len(out) - 1 /\ Len(out) >= 1
      /\ \A i \in 1..Len(out') : out'[i] = out[i + 1]
  BY <1>1 DEF Lose
<1>4. Len(Stream') = Len(Stream) - 1
  BY <1>1, <1>2, <1>3
<1>5. ASSUME NEW i \in 1..Len(Stream'), i <= Len(rx)
      PROVE  i \in 1..Len(Stream) /\ From(i, i)
  <2>1. i \in 1..Len(rx) /\ i \in 1..Len(rx')
    BY <1>1, <1>3, <1>5
  <2>2. Stream'[i] = Stream[i]
    BY <1>1, <1>2, <1>3, <2>1
  <2> QED
    BY <1>1, <2>1, <2>2 DEF From
<1>6. ASSUME NEW i \in 1..Len(Stream'), ~(i <= Len(rx))
      PROVE  i + 1 \in 1..Len(Stream) /\ From(i, i + 1)
  <2> DEFINE k == i - Len(rx)
  <2>1. k \in 1..Len(out') /\ k + 1 \in 1..Len(out) /\ k + Len(rx) = i
        /\ (k + 1) + Len(rx) = i + 1
    BY <1>1, <1>2, <1>3, <1>6
  <2>2. Stream'[i] = out'[k] /\ Stream[i + 1] = out[k + 1] /\ out'[k] = out[k + 1]
    <3> HIDE DEF k
    <3> QED
      BY <1>1, <1>2, <1>3, <2>1
  <2>3. i + 1 \in 1..Len(Stream)
    BY <1>1, <1>2, <1>4
  <2> QED
    BY <2>2, <2>3 DEF From
<1> QED
  BY <1>4, <1>5, <1>6

(* A command flushes the ring, and its answer, if there is one, comes last. *)
Answers(cmd, par, r) ==
  /\ r \in Seq(Own(cmd)) /\ out' = out \o r
  /\ \/ r = <<>> /\ scanner' = scanner
     \/ r = Reply(cmd, par) /\ scanner' = Obeyed(cmd, par)

LEMMA StreamSends ==
  ASSUME TypeInv, NEW cmd, NEW par, Command(cmd, par), Send(cmd, par)
  PROVE  \E r :
           /\ Answers(cmd, par, r)
           /\ Len(r) \in Nat /\ Len(out) \in Nat /\ Len(Stream') = Len(out) + Len(r)
           /\ \A i \in 1..Len(Stream') :
                \/ /\ i \in 1..Len(out) /\ i + Len(rx) \in 1..Len(Stream)
                   /\ Stream'[i] = Stream[i + Len(rx)]
                \/ i - Len(out) \in 1..Len(r) /\ Stream'[i] = r[i - Len(out)]
<1>1. PICK r : Answers(cmd, par, r)
  <2>1. CASE scanner' = Obeyed(cmd, par) /\ out' = out \o Reply(cmd, par)
    BY <2>1, ReplyType DEF Answers
  <2>2. CASE UNCHANGED <<scanner, out>>
    <3>1. out' = out \o <<>> /\ <<>> \in Seq(Own(cmd))
      BY <2>2 DEF TypeInv
    <3> QED
      BY <2>2, <3>1 DEF Answers
  <2> QED
    BY <2>1, <2>2 DEF Send
<1>2. StreamFacts
  BY StreamOf
<1>3. r \in Seq(Pieces)
  <2>1. cmd \in Commands
    BY DEF Command, Commands
  <2> QED
    BY <1>1, <2>1, OwnPieces DEF Answers
<1>4. Stream' = out \o r
  <2>1. rx' = <<>> /\ out' = out \o r /\ out \o r \in Seq(Pieces)
    BY <1>1, <1>2, <1>3 DEF Send, Answers, StreamFacts
  <2> QED
    BY <2>1 DEF Stream
<1>5. Len(r) \in Nat /\ Len(out) \in Nat /\ Len(Stream') = Len(out) + Len(r)
  BY <1>2, <1>3, <1>4 DEF StreamFacts
<1>6. ASSUME NEW i \in 1..Len(Stream')
      PROVE  \/ /\ i \in 1..Len(out) /\ i + Len(rx) \in 1..Len(Stream)
                /\ Stream'[i] = Stream[i + Len(rx)]
             \/ i - Len(out) \in 1..Len(r) /\ Stream'[i] = r[i - Len(out)]
  <2>1. CASE i \in 1..Len(out) /\ Stream'[i] = out[i]
    BY <1>2, <2>1 DEF StreamFacts
  <2>2. CASE i - Len(out) \in 1..Len(r) /\ Stream'[i] = r[i - Len(out)]
    BY <2>2
  <2> QED
    BY <1>2, <1>3, <1>4, <2>1, <2>2, Joined DEF StreamFacts
<1> QED
  BY <1>1, <1>5, <1>6

(* Whatever happens on the line or is read, pieces keep their order.        *)
LEMMA StreamOrder ==
  TypeInv /\ (Arrive \/ Lose \/ Wake \/ Reads \/ UNCHANGED vars) =>
    \A i, j \in 1..Len(Stream') :
      \E k, l \in 1..Len(Stream) :
        /\ From(i, k) /\ From(j, l) /\ j <= l
        /\ i < j => k < l /\ l - k >= j - i
<1> SUFFICES ASSUME TypeInv, Arrive \/ Lose \/ Wake \/ Reads \/ UNCHANGED vars,
                    NEW i \in 1..Len(Stream'), NEW j \in 1..Len(Stream')
             PROVE  \E k, l \in 1..Len(Stream) :
                      /\ From(i, k) /\ From(j, l) /\ j <= l
                      /\ i < j => k < l /\ l - k >= j - i
  OBVIOUS
<1>1. CASE Lose
  <2> DEFINE f(x) == IF x <= Len(rx) THEN x ELSE x + 1
  <2>1. /\ f(i) \in 1..Len(Stream) /\ From(i, f(i))
        /\ f(j) \in 1..Len(Stream) /\ From(j, f(j))
    BY <1>1, StreamLoses
  <2>2. (i < j => f(i) < f(j) /\ f(j) - f(i) >= j - i) /\ j <= f(j)
    BY StreamOf DEF StreamFacts
  <2> HIDE DEF f
  <2> QED
    BY <2>1, <2>2
<1>2. CASE Arrive \/ Wake \/ Reads \/ UNCHANGED vars
  <2>1. PICK d \in 0..Len(rx) :
          \A x \in 1..Len(Stream') : x + d \in 1..Len(Stream) /\ From(x, x + d)
    BY <1>2, StreamMoves
  <2>2. (i < j => i + d < j + d /\ (j + d) - (i + d) >= j - i) /\ j <= j + d
    BY StreamOf DEF StreamFacts
  <2> QED
    BY <2>1, <2>2
<1> QED
  BY <1>1, <1>2

-----------------------------------------------------------------------------
(* The protocol format.  What a reply to an earlier boot's write or         *)
(* question has behind it on the line grows by two pieces with every        *)
(* command since, unless something is lost.  There are five commands at     *)
(* least before the next write; when the last of them is over, no such      *)
(* reply can still be under way, if there are never that many pieces.       *)

NoneOf(cmd) == \A i \in 1..Len(Stream) : Stream[i].of # cmd

FormatReplies == {"writeFormat", "readFormat"}

FewUnderWay == MaxBacklog + 2 * MaxLost <= 10

(* The commands since the restart that the scanner, once at 115200, heard   *)
(* or that were lost: a ping and those of the settings, at least.           *)
Asked ==
  IF at = "config" THEN count
  ELSE IF at = "configWait" THEN count + 1
  ELSE IF at = "verifying" \/ (at = "pinging" /\ baud = Normal) THEN 1
  ELSE 0

AgedInv ==
  /\ lost <= MaxLost
  /\ \A i \in 1..Len(Stream) :
       Stream[i].of \in FormatReplies =>
         /\ scanner.listening /\ scanner.baud = Normal
         /\ Len(Stream) - i + 2 * lost >= 2 * Asked

LEMMA InitAgedInv == Init => AgedInv
<1> SUFFICES ASSUME Init PROVE AgedInv
  OBVIOUS
<1>1. Stream = <<>> /\ lost = 0
  BY DEF Init, Stream
<1> QED
  BY <1>1, LinkAssumption DEF AgedInv

LEMMA AskedOf == TypeInv => Asked \in Nat
BY DEF TypeInv, Asked

(* A step that sends nothing does not count as a command.                   *)
LEMMA CountStays ==
  TypeInv /\ (Arrive \/ Lose \/ Wake \/ Reads \/ UNCHANGED vars) =>
    Asked' \in Nat /\ Asked' <= Asked
<1> SUFFICES ASSUME TypeInv, Arrive \/ Lose \/ Wake \/ Reads \/ UNCHANGED vars
             PROVE  Asked' \in Nat /\ Asked' <= Asked
  OBVIOUS
<1>1. Asked \in Nat
  BY AskedOf
<1>2. CASE Arrive \/ Lose \/ Wake \/ UNCHANGED vars
  <2>1. at' = at /\ count' = count /\ baud' = baud
    BY <1>2 DEF Arrive, Lose, Wake, vars
  <2> QED
    BY <1>1, <2>1 DEF Asked
<1>3. CASE PingAnswered \/ PingFails \/ BaudAnswered \/ BaudUnanswered \/ Verified
  BY <1>1, <1>3 DEF PingAnswered, PingFails, BaudAnswered, BaudUnanswered, Verified, Asked
<1>4. CASE ConfigSent
  BY <1>1, <1>4 DEF ConfigSent, Asked, TypeInv
<1>5. CASE \/ FormatWritten \/ FormatShown \/ AnalysisBegins \/ CropBegins
           \/ CropNotNeeded \/ HeaderRead \/ CaptureRowRead \/ RowRead \/ RowMissing
           \/ HeadRead \/ PidRead \/ TailRead \/ DataRead
  <2>1. at' \in {"formatRead", "ready", "capture", "captureRows", "captured", "image",
                 "identity", "rows", "pid", "tail", "data"}
    <3>1. CASE FormatWritten \/ FormatShown \/ AnalysisBegins \/ CropBegins \/ CropNotNeeded
      BY <3>1 DEF FormatWritten, FormatShown, AnalysisBegins, CropBegins, CropNotNeeded
    <3>2. CASE HeaderRead \/ CaptureRowRead \/ RowRead \/ RowMissing
      BY <3>2 DEF HeaderRead, CaptureRowRead, RowRead, RowMissing
    <3>3. CASE HeadRead \/ PidRead \/ TailRead \/ DataRead
      BY <3>3 DEF HeadRead, PidRead, TailRead, DataRead, Flushed, Given, QueryEnds
    <3> QED
      BY <1>5, <3>1, <3>2, <3>3
  <2>2. Asked' = 0
    BY <2>1 DEF Asked
  <2> QED
    BY <1>1, <2>2
<1> QED
  BY <1>2, <1>3, <1>4, <1>5 DEF Reads

(* A command counts once, and only at 115200.                               *)
LEMMA AskedSends ==
  TypeInv /\ BaudInv /\ Sends =>
    \/ Asked' = 0
    \/ (PingSend \/ ConfigSend) /\ baud = Normal /\ Asked' = Asked + 1
<1> SUFFICES ASSUME TypeInv, BaudInv, Sends
             PROVE  \/ Asked' = 0
                    \/ (PingSend \/ ConfigSend) /\ baud = Normal /\ Asked' = Asked + 1
  OBVIOUS
<1>1. CASE PingSend
  BY <1>1 DEF PingSend, Asked, BaudInv
<1>2. CASE ConfigSend
  BY <1>2 DEF ConfigSend, Asked, BaudInv, Probing
<1>3. CASE BaudSend \/ FormatWrite \/ FormatRead \/ ImageSend \/ QuerySend
  <2>1. at' \in {"bauding", "formatWritten", "formatShown", "captureHeader", "header", "head"}
    BY <1>3 DEF BaudSend, FormatWrite, FormatRead, ImageSend, QuerySend
  <2> QED
    BY <2>1 DEF Asked
<1> QED
  BY <1>1, <1>2, <1>3 DEF Sends

LEMMA AgedSends == TypeInv /\ BaudInv /\ AgedInv /\ Sends => AgedInv'
<1> SUFFICES ASSUME TypeInv, BaudInv, AgedInv, Sends PROVE AgedInv'
  OBVIOUS
<1>1. PICK cmd, par : /\ Command(cmd, par) /\ Send(cmd, par)
                      /\ PingSend \/ ConfigSend => cmd \in {"ping", "config"}
                      /\ cmd \in FormatReplies => scanner.baud = Normal /\ Asked' = 0
  <2>1. CASE PingSend
    <3>1. Send("ping", 0) /\ Command("ping", 0) /\ "ping" \notin FormatReplies
      BY <2>1 DEF PingSend, Command, FormatReplies
    <3> QED
      BY <3>1
  <2>2. CASE ConfigSend
    <3>1. /\ Send("config", Settings[count]) /\ Command("config", Settings[count])
          /\ "config" \notin FormatReplies
      BY <2>2, SettingOf DEF ConfigSend, TypeInv, Command, FormatReplies
    <3> QED
      BY <3>1
  <2>3. CASE ~PingSend /\ ~ConfigSend
    <3>1. PICK c, q : Command(c, q) /\ Send(c, q)
      BY SendsCommand
    <3>2. CASE FormatWrite \/ FormatRead
      <4>1. scanner.baud = Normal
        BY <3>2 DEF FormatWrite, FormatRead, BaudInv, Probing
      <4>2. Asked' = 0
        BY <2>3, AskedSends
      <4> QED
        BY <2>3, <3>1, <4>1, <4>2
    <3>3. CASE BaudSend \/ ImageSend \/ QuerySend
      BY <2>3, <3>3 DEF BaudSend, ImageSend, QuerySend, Command, FormatReplies, TypeInv
    <3> QED
      BY <2>3, <3>2, <3>3 DEF Sends
  <2> QED
    BY <2>1, <2>2, <2>3
<1>2. StreamFacts /\ Asked \in Nat /\ lost \in Nat /\ MaxLost \in Nat
  BY StreamOf, AskedOf, LinkAssumption DEF TypeInv
<1>3. /\ \/ Asked' = 0
         \/ (PingSend \/ ConfigSend) /\ baud = Normal /\ Asked' = Asked + 1
      /\ baud' = baud
  BY AskedSends, SendsKeep
<1>4. \A i \in 1..Len(out) : out[i].of \in FormatReplies =>
        /\ scanner.listening /\ scanner.baud = Normal
        /\ Len(out) - i + 2 * lost >= 2 * Asked
  <2> SUFFICES ASSUME NEW i \in 1..Len(out), out[i].of \in FormatReplies
               PROVE  /\ scanner.listening /\ scanner.baud = Normal
                      /\ Len(out) - i + 2 * lost >= 2 * Asked
    OBVIOUS
  <2>1. /\ i + Len(rx) \in 1..Len(Stream) /\ Stream[i + Len(rx)] = out[i]
        /\ Len(Stream) - (i + Len(rx)) = Len(out) - i
    BY <1>2 DEF StreamFacts
  <2> QED
    BY <2>1 DEF AgedInv
<1>5. Stream' = out'
  <2>1. rx' = <<>> /\ out' \in Seq(Pieces)
    BY <1>1, SendTypes
  <2> QED
    BY <2>1 DEF Stream
<1>6. CASE /\ Hears /\ scanner' = Obeyed(cmd, par) /\ out' = out \o Reply(cmd, par)
           /\ lost' = lost
  <2> DEFINE r == Reply(cmd, par)
  <2>1. r \in Seq(Own(cmd))
    BY <1>1, ReplyType
  <2>2. cmd \in {"ping", "config"} => Len(r) = 2
    BY DEF Reply
  <2>3. scanner'.listening = scanner.listening /\ scanner'.baud \in {Normal, scanner.baud}
    BY <1>6 DEF Obeyed, TypeInv, Scanners
  <2>4. Hears => scanner.listening
    BY DEF Hears
  <2> HIDE DEF r
  <2>5. /\ Len(r) \in Nat /\ Len(out) \in Nat /\ Len(out') = Len(out) + Len(r)
        /\ \A i \in 1..Len(out') : \/ i \in 1..Len(out) /\ out'[i] = out[i]
                                   \/ i - Len(out) \in 1..Len(r) /\ out'[i] \in Own(cmd)
    <3>1. out \in Seq(Pieces) /\ out' = out \o r
      BY <1>2, <1>6 DEF StreamFacts, r
    <3>2. Len(r) \in Nat /\ Len(out) \in Nat /\ \A k \in 1..Len(r) : r[k] \in Own(cmd)
      BY <2>1, <3>1
    <3>3. Len(out \o r) = Len(out) + Len(r)
      <4>1. r \in Seq(Own(cmd) \union Pieces) /\ out \in Seq(Own(cmd) \union Pieces)
        BY <2>1, <3>1
      <4> QED
        BY <4>1
    <3> QED
      BY <2>1, <3>1, <3>2, <3>3, Joined
  <2>6. ASSUME NEW i \in 1..Len(out'), out'[i].of \in FormatReplies
        PROVE  /\ scanner'.listening /\ scanner'.baud = Normal
               /\ Len(out') - i + 2 * lost' >= 2 * Asked'
    <3>1. CASE i \in 1..Len(out) /\ out'[i] = out[i]
      <4>1. /\ scanner.listening /\ scanner.baud = Normal
            /\ Len(out) - i + 2 * lost >= 2 * Asked
        BY <1>4, <2>6, <3>1
      <4>2. CASE Asked' = 0
        BY <1>2, <1>6, <2>3, <2>5, <4>1, <4>2
      <4>3. CASE (PingSend \/ ConfigSend) /\ Asked' = Asked + 1
        <5>1. Len(r) = 2
          BY <1>1, <2>2, <4>3
        <5>2. Len(out') = Len(out) + 2 /\ lost' = lost
          BY <1>6, <2>5, <5>1
        <5>3. Len(out') - i + 2 * lost' >= 2 * Asked'
          BY <1>2, <2>5, <4>1, <4>3, <5>2
        <5> QED
          BY <2>3, <4>1, <5>3
      <4> QED
        BY <1>3, <4>2, <4>3
    <3>2. CASE out'[i] \in Own(cmd)
      <4>1. cmd \in FormatReplies
        BY <2>6, <3>2 DEF Own
      <4> QED
        BY <1>1, <1>2, <1>6, <2>3, <2>4, <2>5, <4>1
    <3> QED
      BY <2>5, <3>1, <3>2
  <2> QED
    BY <1>5, <1>6, <2>6 DEF AgedInv
<1>7. CASE ~Hears /\ UNCHANGED <<scanner, out, lost>>
  <2>1. ASSUME NEW i \in 1..Len(out), out[i].of \in FormatReplies
        PROVE  Asked' = 0
    <3>1. scanner.listening /\ scanner.baud = Normal
      BY <1>4, <2>1
    <3>2. baud # Normal
      BY <1>7, <3>1 DEF Hears
    <3> QED
      BY <1>3, <3>2
  <2> QED
    BY <1>2, <1>4, <1>5, <1>7, <2>1 DEF AgedInv, StreamFacts
<1>8. CASE lost < MaxLost /\ lost' = lost + 1 /\ UNCHANGED <<scanner, out>>
  <2>1. Asked' <= Asked + 1 /\ Asked' \in Nat
    BY <1>2, <1>3
  <2> QED
    BY <1>2, <1>4, <1>5, <1>8, <2>1 DEF AgedInv, StreamFacts
<1> QED
  BY <1>1, <1>6, <1>7, <1>8 DEF Send

LEMMA StepAgedInv == TypeInv /\ BaudInv /\ AgedInv /\ [Next]_vars => AgedInv'
<1> SUFFICES ASSUME TypeInv, BaudInv, AgedInv, [Next]_vars PROVE AgedInv'
  OBVIOUS
<1>1. StreamFacts /\ Asked \in Nat /\ lost \in Nat /\ MaxLost \in Nat /\ Len(Stream) \in Nat
  <2>1. StreamFacts
    BY StreamOf
  <2> QED
    BY <2>1, AskedOf, LinkAssumption DEF TypeInv, StreamFacts
<1>2. CASE Arrive \/ Wake \/ Reads \/ UNCHANGED vars
  <2>1. PICK d \in 0..Len(rx) :
          /\ Len(Stream') = Len(Stream) - d
          /\ \A i \in 1..Len(Stream') : i + d \in 1..Len(Stream) /\ From(i, i + d)
    BY <1>2, StreamMoves
  <2>2. Asked' \in Nat /\ Asked' <= Asked
    BY <1>2, CountStays
  <2>3. /\ lost' = lost /\ scanner'.baud = scanner.baud
        /\ scanner.listening => scanner'.listening
    BY <1>2, ReadsKeep DEF Arrive, Wake, vars, TypeInv, Scanners
  <2>4. ASSUME NEW i \in 1..Len(Stream'), Stream'[i].of \in FormatReplies
        PROVE  /\ scanner'.listening /\ scanner'.baud = Normal
               /\ Len(Stream') - i + 2 * lost' >= 2 * Asked'
    <3>1. i + d \in 1..Len(Stream) /\ Stream[i + d].of \in FormatReplies
      BY <2>1, <2>4 DEF From, FormatReplies
    <3>2. /\ scanner.listening /\ scanner.baud = Normal
          /\ Len(Stream) - (i + d) + 2 * lost >= 2 * Asked
      BY <3>1 DEF AgedInv
    <3> QED
      BY <1>1, <2>1, <2>2, <2>3, <3>2
  <2> QED
    BY <2>3, <2>4 DEF AgedInv
<1>3. CASE Lose
  <2>1. /\ Len(Stream') = Len(Stream) - 1
        /\ \A i \in 1..Len(Stream') :
             \E k \in 1..Len(Stream) : k \in {i, i + 1} /\ From(i, k)
    BY <1>3, StreamLoses
  <2>2. Asked' \in Nat /\ Asked' <= Asked
    BY <1>3, CountStays
  <2>3. lost' = lost + 1 /\ lost < MaxLost /\ scanner' = scanner
    BY <1>3 DEF Lose
  <2>4. ASSUME NEW i \in 1..Len(Stream'), Stream'[i].of \in FormatReplies
        PROVE  /\ scanner'.listening /\ scanner'.baud = Normal
               /\ Len(Stream') - i + 2 * lost' >= 2 * Asked'
    <3>1. PICK k \in 1..Len(Stream) : k \in {i, i + 1} /\ From(i, k)
      BY <2>1
    <3>2. Stream[k].of \in FormatReplies
      BY <2>4, <3>1 DEF From, FormatReplies
    <3>3. /\ scanner.listening /\ scanner.baud = Normal
          /\ Len(Stream) - k + 2 * lost >= 2 * Asked
      BY <3>2 DEF AgedInv
    <3> QED
      BY <1>1, <2>1, <2>2, <2>3, <3>1, <3>3
  <2> QED
    BY <1>1, <2>3, <2>4 DEF AgedInv
<1>4. CASE Sends
  BY <1>4, AgedSends
<1>5. CASE Restart
  <2>1. lost' = lost /\ rx' = <<>> /\ Asked' = 0
    BY <1>5 DEF Restart, Asked
  <2>2. CASE out' = <<>>
    <3>1. Stream' = <<>>
      BY <2>1, <2>2 DEF Stream
    <3> QED
      BY <2>1, <3>1 DEF AgedInv
  <2>3. CASE UNCHANGED <<scanner, out>>
    <3>1. Stream' = out
      BY <1>1, <2>1, <2>3 DEF Stream, StreamFacts
    <3>2. ASSUME NEW i \in 1..Len(out), out[i].of \in FormatReplies
          PROVE  scanner.listening /\ scanner.baud = Normal /\ Len(out) - i + 2 * lost >= 0
      <4>1. i + Len(rx) \in 1..Len(Stream) /\ Stream[i + Len(rx)] = out[i]
        BY <1>1 DEF StreamFacts
      <4> QED
        BY <1>1, <3>2, <4>1 DEF AgedInv, StreamFacts
    <3> QED
      BY <2>1, <2>3, <3>1, <3>2 DEF AgedInv
  <2> QED
    BY <1>5, <2>2, <2>3 DEF Restart
<1> QED
  BY <1>2, <1>3, <1>4, <1>5, Steps

(* When the settings are sent, no reply of an earlier boot is left.         *)
LEMMA FormatBegins ==
  ASSUME TypeInv, AgedInv, FewUnderWay, ConfigSent, at' = "format",
         NEW cmd \in FormatReplies
  PROVE  NoneOf(cmd)'
<1>1. StreamFacts
  BY StreamOf
<1>2. /\ at = "configWait" /\ count = 4 /\ rx' = <<>> /\ out' = out /\ Waited
  BY DEF ConfigSent, line, TypeInv, Settings
<1>3. Stream' = out
  BY <1>1, <1>2 DEF Stream, StreamFacts
<1>4. ASSUME NEW i \in 1..Len(out), out[i].of = cmd PROVE FALSE
  <2>1. /\ i + Len(rx) \in 1..Len(Stream) /\ Stream[i + Len(rx)] = out[i]
        /\ Len(Stream) - (i + Len(rx)) = Len(out) - i
    BY <1>1 DEF StreamFacts
  <2>2. lost <= MaxLost /\ Len(out) - i + 2 * lost >= 2 * Asked
    BY <1>4, <2>1 DEF AgedInv
  <2>3. Asked = 5
    BY <1>2 DEF Asked
  <2>4. Len(out) <= MaxBacklog
    BY <1>1, <1>2, LinkAssumption DEF Waited, StreamFacts
  <2>5. lost \in Nat /\ Len(out) \in Nat
    BY <1>1 DEF StreamFacts, TypeInv
  <2>6. MaxLost \in Nat /\ MaxBacklog \in Nat
    BY LinkAssumption
  <2> QED
    BY <2>2, <2>3, <2>4, <2>5, <2>6 DEF FewUnderWay
<1> QED
  BY <1>3, <1>4 DEF NoneOf

-----------------------------------------------------------------------------
(* There is one write and one readback a boot; behind the head of the reply *)
(* to either comes nothing but its own second piece, however late it is.    *)
(* Until the first restart no other reply can be there; after it none is,   *)
(* if few pieces are under way.                                             *)

FromPowerOn == restarts = 0

BeforeFormat == Probing \union {"config", "configWait", "format"}

WritePending ==
  /\ writeRid = -1 /\ readback = -1
  /\ \A i, j \in 1..Len(Stream) :
       i < j /\ Stream[i].of = "writeFormat" /\ Stream[j].val = 0
         => scanner.format = wanted

ReadPending ==
  \A i, j \in 1..Len(Stream) :
    i < j /\ Stream[i].of = "readFormat" => Stream[j].val = scanner.format

Believed ==
  /\ writeRid = 0 => scanner.format = wanted
  /\ readback # -1 => readback = scanner.format

Known == FromPowerOn \/ FewUnderWay

NoReplyYet == at = "format" \/ (FromPowerOn /\ at \in BeforeFormat)

FormatInv ==
  /\ NoReplyYet => NoneOf("writeFormat")
  /\ NoReplyYet \/ at \in {"formatWritten", "formatRead"} => NoneOf("readFormat")
  /\ at = "formatWritten" => WritePending
  /\ at = "formatShown" => ReadPending
  /\ at \notin BeforeFormat \union {"formatWritten"} => Believed

LEMMA PowerOnBefore ==
  ASSUME TypeInv, [Next]_vars, FromPowerOn'
  PROVE  FromPowerOn /\ ~Restart
<1>1. CASE Restart
  BY <1>1 DEF Restart, TypeInv, FromPowerOn
<1>2. CASE restarts' = restarts
  BY <1>2 DEF Restart, TypeInv, FromPowerOn
<1>3. Restart \/ restarts' = restarts
  BY Steps, SendsKeep, ReadsKeep DEF Arrive, Lose, Wake, vars
<1> QED
  BY <1>1, <1>2, <1>3

(* No piece turns into one of a command.                                    *)
LEMMA NoneStays ==
  ASSUME TypeInv, Arrive \/ Lose \/ Wake \/ Reads \/ UNCHANGED vars,
         NEW cmd \in Commands, NoneOf(cmd)
  PROVE  NoneOf(cmd)'
<1> SUFFICES ASSUME NEW i \in 1..Len(Stream') PROVE Stream'[i].of # cmd
  BY DEF NoneOf
<1>1. PICK k \in 1..Len(Stream) : From(i, k)
  BY StreamOrder
<1> QED
  BY <1>1 DEF NoneOf, From, Commands

LEMMA NoneSent ==
  ASSUME TypeInv, NEW cmd, NEW par, Command(cmd, par), Send(cmd, par),
         NEW c \in Commands, c # cmd, NoneOf(c)
  PROVE  NoneOf(c)'
<1> SUFFICES ASSUME NEW i \in 1..Len(Stream') PROVE Stream'[i].of # c
  BY DEF NoneOf
<1>1. PICK r : /\ Answers(cmd, par, r)
               /\ \/ i + Len(rx) \in 1..Len(Stream) /\ Stream'[i] = Stream[i + Len(rx)]
                  \/ i - Len(out) \in 1..Len(r) /\ Stream'[i] = r[i - Len(out)]
  BY StreamSends
<1>2. CASE i - Len(out) \in 1..Len(r) /\ Stream'[i] = r[i - Len(out)]
  <2>1. r[i - Len(out)] \in Own(cmd)
    BY <1>1, <1>2 DEF Answers
  <2> QED
    BY <1>2, <2>1 DEF Own
<1> QED
  BY <1>1, <1>2 DEF NoneOf

LEMMA PendingStays ==
  ASSUME TypeInv, Arrive \/ Lose \/ Wake \/ Reads \/ UNCHANGED vars
  PROVE  /\ WritePending /\ writeRid' = writeRid /\ readback' = readback
            /\ scanner'.format = scanner.format /\ wanted' = wanted => WritePending'
         /\ ReadPending /\ scanner'.format = scanner.format => ReadPending'
<1>1. ASSUME WritePending, writeRid' = writeRid, readback' = readback,
             scanner'.format = scanner.format, wanted' = wanted
      PROVE  WritePending'
  <2> SUFFICES ASSUME NEW i \in 1..Len(Stream'), NEW j \in 1..Len(Stream'), i < j,
                      Stream'[i].of = "writeFormat", Stream'[j].val = 0
               PROVE  scanner.format = wanted
    BY <1>1 DEF WritePending
  <2>1. PICK k, l \in 1..Len(Stream) : From(i, k) /\ From(j, l) /\ k < l
    BY StreamOrder
  <2> QED
    BY <1>1, <2>1 DEF WritePending, From
<1>2. ASSUME ReadPending, scanner'.format = scanner.format
      PROVE  ReadPending'
  <2> SUFFICES ASSUME NEW i \in 1..Len(Stream'), NEW j \in 1..Len(Stream'), i < j,
                      Stream'[i].of = "readFormat"
               PROVE  Stream'[j].val = scanner.format
    BY <1>2 DEF ReadPending
  <2>1. PICK k, l \in 1..Len(Stream) : From(i, k) /\ From(j, l) /\ k < l
    BY StreamOrder
  <2> QED
    BY <1>2, <2>1 DEF ReadPending, From
<1> QED
  BY <1>1, <1>2

(* Of a command that was not sent before, the stream holds this reply only. *)
LEMMA OnlyReply ==
  ASSUME TypeInv, NEW cmd, NEW par, Command(cmd, par), Send(cmd, par), NoneOf(cmd),
         NEW i \in 1..Len(Stream'), NEW j \in 1..Len(Stream'), i < j,
         Stream'[i].of = cmd
  PROVE  \E r : /\ r = Reply(cmd, par)
                /\ scanner' = Obeyed(cmd, par)
                /\ \E k, l \in 1..Len(r) : /\ k < l /\ l - k = j - i
                                           /\ Stream'[i] = r[k] /\ Stream'[j] = r[l]
<1>1. PICK r :
        /\ Answers(cmd, par, r)
        /\ Len(r) \in Nat /\ Len(out) \in Nat /\ Len(Stream') = Len(out) + Len(r)
        /\ \A x \in 1..Len(Stream') :
             \/ /\ x \in 1..Len(out) /\ x + Len(rx) \in 1..Len(Stream)
                /\ Stream'[x] = Stream[x + Len(rx)]
             \/ x - Len(out) \in 1..Len(r) /\ Stream'[x] = r[x - Len(out)]
  BY StreamSends
<1>2. i - Len(out) \in 1..Len(r) /\ Stream'[i] = r[i - Len(out)]
  BY <1>1 DEF NoneOf
<1>3. j - Len(out) \in 1..Len(r) /\ Stream'[j] = r[j - Len(out)]
  BY <1>1, <1>2
<1>4. r # <<>>
  BY <1>2
<1>5. /\ i - Len(out) < j - Len(out)
      /\ (j - Len(out)) - (i - Len(out)) = j - i
  BY <1>1
<1> QED
  BY <1>1, <1>2, <1>3, <1>4, <1>5 DEF Answers

LEMMA InitFormatInv == Init => FormatInv
<1> SUFFICES ASSUME Init PROVE FormatInv
  OBVIOUS
<1>1. Stream = <<>> /\ at = "ping"
  BY DEF Init, Stream
<1> QED
  BY <1>1 DEF FormatInv, NoneOf, BeforeFormat, Probing

(* The write: its reply says 0 only if the scanner took the format.         *)
LEMMA WriteSent == TypeInv /\ FormatInv /\ FormatWrite => FormatInv'
<1> SUFFICES ASSUME TypeInv, FormatInv, FormatWrite PROVE FormatInv'
  OBVIOUS
<1>1. /\ at = "format" /\ at' = "formatWritten" /\ writeRid' = -1 /\ readback' = -1
      /\ Send("writeFormat", wanted) /\ wanted' = wanted
  BY DEF FormatWrite
<1>2. Command("writeFormat", wanted)
  BY DEF Command, TypeInv
<1>3. NoneOf("writeFormat") /\ NoneOf("readFormat")
  BY <1>1 DEF FormatInv, NoReplyYet
<1>4. NoneOf("readFormat")'
  BY <1>1, <1>2, <1>3, NoneSent DEF Commands
<1>5. WritePending'
  <2> SUFFICES ASSUME NEW i \in 1..Len(Stream'), NEW j \in 1..Len(Stream'), i < j,
                      Stream'[i].of = "writeFormat", Stream'[j].val = 0
               PROVE  scanner'.format = wanted'
    BY <1>1 DEF WritePending
  <2>0. Send("writeFormat", wanted) /\ NoneOf("writeFormat")
    BY <1>1, <1>3
  <2>1. PICK r : /\ r = Reply("writeFormat", wanted)
                 /\ scanner' = Obeyed("writeFormat", wanted)
                 /\ \E k, l \in 1..Len(r) : /\ k < l /\ l - k = j - i
                                            /\ Stream'[i] = r[k] /\ Stream'[j] = r[l]
    BY <1>2, <2>0, OnlyReply
  <2>2. r = <<Piece("writeFormat", 1, wanted), Piece("writeFormat", 2, Rid)>>
    BY <2>1 DEF Reply
  <2>3. Stream'[j] = Piece("writeFormat", 2, Rid)
    BY <2>1, <2>2
  <2>4. Rid = 0
    BY <2>3 DEF Piece
  <2>5. scanner' = [scanner EXCEPT !.format = wanted]
    BY <2>1, <2>4 DEF Rid, Obeyed
  <2> QED
    BY <1>1, <2>5 DEF TypeInv, Scanners
<1> QED
  BY <1>1, <1>4, <1>5 DEF FormatInv, NoReplyYet, BeforeFormat, Probing

(* The question: its reply shows the format the scanner has.                *)
LEMMA ReadSent == TypeInv /\ FormatInv /\ FormatRead => FormatInv'
<1> SUFFICES ASSUME TypeInv, FormatInv, FormatRead PROVE FormatInv'
  OBVIOUS
<1>1. /\ at = "formatRead" /\ at' = "formatShown" /\ writeRid' = writeRid
      /\ readback' = readback /\ Send("readFormat", 0) /\ wanted' = wanted
  BY DEF FormatRead, format
<1>2. Command("readFormat", 0)
  BY DEF Command
<1>3. NoneOf("readFormat") /\ Believed
  BY <1>1 DEF FormatInv, NoReplyYet, BeforeFormat, Probing
<1>4. scanner'.format = scanner.format
  <2>1. Obeyed("readFormat", 0).format = scanner.format
    BY <1>2, ObeyedType
  <2> QED
    BY <1>1, <2>1 DEF Send
<1>5. ReadPending'
  <2> SUFFICES ASSUME NEW i \in 1..Len(Stream'), NEW j \in 1..Len(Stream'), i < j,
                      Stream'[i].of = "readFormat"
               PROVE  Stream'[j].val = scanner'.format
    BY DEF ReadPending
  <2>1. PICK r : /\ r = Reply("readFormat", 0)
                 /\ scanner' = Obeyed("readFormat", 0)
                 /\ \E k, l \in 1..Len(r) : /\ k < l /\ l - k = j - i
                                            /\ Stream'[i] = r[k] /\ Stream'[j] = r[l]
    BY <1>1, <1>2, <1>3, OnlyReply
  <2>2. r = <<Piece("readFormat", 1, 0), Piece("readFormat", 2, scanner.format)>>
    BY <2>1 DEF Reply
  <2>3. Stream'[j] = Piece("readFormat", 2, scanner.format)
    BY <2>1, <2>2
  <2> QED
    BY <1>4, <2>3 DEF Piece
<1> QED
  BY <1>1, <1>3, <1>4, <1>5 DEF FormatInv, NoReplyYet, BeforeFormat, Probing, Believed

(* What the firmware takes for the reply to the write is the reply.         *)
LEMMA WriteTaken == TypeInv /\ FormatInv /\ FormatWritten => FormatInv'
<1> SUFFICES ASSUME TypeInv, FormatInv, FormatWritten PROVE FormatInv'
  OBVIOUS
<1>1. /\ at = "formatWritten" /\ at' = "formatRead" /\ readback' = readback
      /\ scanner' = scanner /\ wanted' = wanted
  BY DEF FormatWritten, line
<1>2. WritePending /\ NoneOf("readFormat")
  BY <1>1 DEF FormatInv
<1>3. NoneOf("readFormat")'
  <2>1. Reads
    BY DEF Reads
  <2> QED
    BY <1>2, <2>1, NoneStays DEF Commands
<1>4. Believed'
  <2>1. SUFFICES ASSUME writeRid' = 0 PROVE scanner.format = wanted
    BY <1>1, <1>2 DEF Believed, WritePending
  <2>2. Got(2) /\ Is(1, "writeFormat", 1) /\ rx[2].val = 0
    BY <1>2, <2>1 DEF FormatWritten, WritePending
  <2>3. StreamFacts
    BY StreamOf
  <2>4. /\ 1 \in 1..Len(rx) /\ 2 \in 1..Len(rx)
        /\ 1 \in 1..Len(Stream) /\ 2 \in 1..Len(Stream)
    BY <2>2, <2>3 DEF Got, StreamFacts
  <2>5. Stream[1] = rx[1] /\ Stream[2] = rx[2]
    BY <2>3, <2>4 DEF StreamFacts
  <2> QED
    BY <1>2, <2>2, <2>4, <2>5 DEF WritePending, Is
<1> QED
  BY <1>1, <1>3, <1>4 DEF FormatInv, NoReplyYet, BeforeFormat, Probing

LEMMA ReadTaken == TypeInv /\ FormatInv /\ FormatShown => FormatInv'
<1> SUFFICES ASSUME TypeInv, FormatInv, FormatShown PROVE FormatInv'
  OBVIOUS
<1>1. /\ at = "formatShown" /\ at' = "ready" /\ writeRid' = writeRid
      /\ scanner' = scanner /\ wanted' = wanted
  BY DEF FormatShown, line
<1>2. ReadPending /\ Believed
  BY <1>1 DEF FormatInv, NoReplyYet, BeforeFormat, Probing
<1>3. Believed'
  <2>1. SUFFICES ASSUME readback' # -1, readback' # readback
                 PROVE  readback' = scanner.format
    BY <1>1, <1>2 DEF Believed
  <2>2. Len(rx) >= 2 /\ Is(1, "readFormat", 1) /\ readback' = rx[2].val
    BY <2>1 DEF FormatShown
  <2>3. StreamFacts
    BY StreamOf
  <2>4. /\ 1 \in 1..Len(rx) /\ 2 \in 1..Len(rx)
        /\ 1 \in 1..Len(Stream) /\ 2 \in 1..Len(Stream)
    BY <2>2, <2>3 DEF StreamFacts
  <2>5. Stream[1] = rx[1] /\ Stream[2] = rx[2]
    BY <2>3, <2>4 DEF StreamFacts
  <2> QED
    BY <1>2, <2>2, <2>4, <2>5 DEF ReadPending, Is
<1> QED
  BY <1>1, <1>3 DEF FormatInv, NoReplyYet, BeforeFormat, Probing

LEMMA StepFormatInv ==
  TypeInv /\ AgedInv /\ (Known => FormatInv) /\ [Next]_vars => (Known => FormatInv)'
<1> SUFFICES ASSUME TypeInv, AgedInv, Known => FormatInv, [Next]_vars, Known'
             PROVE  FormatInv'
  OBVIOUS
<1>7. CASE Restart
  <2>1. at' = "ping" /\ ~FromPowerOn'
    BY <1>7 DEF Restart, TypeInv, FromPowerOn
  <2> QED
    BY <2>1 DEF FormatInv, NoReplyYet, BeforeFormat, Probing
<1> SUFFICES ASSUME ~Restart PROVE FormatInv'
  BY <1>7
<1>0. FormatInv /\ FromPowerOn' = FromPowerOn
  <2>1. restarts' = restarts
    BY Steps, SendsKeep, ReadsKeep DEF Arrive, Lose, Wake, vars
  <2> QED
    BY <2>1 DEF Known, FromPowerOn, FewUnderWay
<1>1. CASE FormatWrite
  BY <1>0, <1>1, WriteSent
<1>2. CASE FormatRead
  BY <1>0, <1>2, ReadSent
<1>3. CASE FormatWritten
  BY <1>0, <1>3, WriteTaken
<1>4. CASE FormatShown
  BY <1>0, <1>4, ReadTaken
<1>8. CASE ConfigSent /\ at' = "format"
  <2>1. at \in BeforeFormat /\ Reads
    BY <1>8 DEF ConfigSent, BeforeFormat, Reads
  <2>2. ASSUME NEW cmd \in FormatReplies PROVE NoneOf(cmd)'
    <3>1. CASE FewUnderWay
      BY <1>8, <3>1, FormatBegins
    <3>2. CASE FromPowerOn
      <4>1. NoneOf(cmd)
        BY <1>0, <2>1, <3>2 DEF FormatInv, NoReplyYet, FormatReplies
      <4> QED
        BY <2>1, <4>1, NoneStays DEF Commands, FormatReplies
    <3> QED
      BY <1>0, <3>1, <3>2 DEF Known, FewUnderWay
  <2> QED
    BY <1>8, <2>2 DEF FormatInv, NoReplyYet, FormatReplies, BeforeFormat, Probing
<1>5. CASE \/ Arrive \/ Lose \/ Wake \/ UNCHANGED vars
           \/ Reads /\ ~(FormatWritten \/ FormatShown) /\ ~(ConfigSent /\ at' = "format")
  <2>1. /\ wanted' = wanted /\ writeRid' = writeRid /\ readback' = readback
        /\ scanner'.format = scanner.format
    <3>1. CASE Reads /\ ~(FormatWritten \/ FormatShown)
      BY <3>1, ReadsKeep
      DEF Arrive, Lose, Wake, vars, Reads, PingAnswered, PingFails, BaudAnswered,
          BaudUnanswered, Verified, ConfigSent, AnalysisBegins, CropBegins,
          CropNotNeeded, HeaderRead, CaptureRowRead, RowRead,
          RowMissing, HeadRead, PidRead, TailRead, DataRead, format
    <3>2. CASE Arrive \/ Lose \/ Wake \/ UNCHANGED vars
      BY <3>2 DEF Arrive, Lose, Wake, vars, format, TypeInv, Scanners
    <3> QED
      BY <1>5, <3>1, <3>2
  <2>2. /\ at' \in BeforeFormat => at \in BeforeFormat
        /\ at' \in {"format", "formatWritten", "formatRead", "formatShown"} => at' = at
        /\ at' \notin BeforeFormat \union {"formatWritten"}
             => at \notin BeforeFormat \union {"formatWritten"}
    <3>1. CASE Reads /\ ~(FormatWritten \/ FormatShown) /\ ~(ConfigSent /\ at' = "format")
      <4>1. \/ at \in BeforeFormat /\ at' \in BeforeFormat \ {"format"}
            \/ /\ at \in {"ready", "captureHeader", "captureRows", "captured", "header",
                         "rows", "head", "pid", "tail", "data"}
               /\ at' \in {"ready", "capture", "captureRows", "captured", "image", "rows",
                          "identity", "pid", "tail", "data"}
        <5>1. CASE \/ PingAnswered \/ PingFails \/ BaudAnswered \/ BaudUnanswered
                   \/ Verified \/ ConfigSent
          BY <3>1, <5>1 DEF PingAnswered, PingFails, BaudAnswered, BaudUnanswered, Verified,
                      ConfigSent, BeforeFormat, Probing
        <5>2. CASE \/ AnalysisBegins \/ CropBegins \/ CropNotNeeded \/ HeaderRead
                   \/ CaptureRowRead \/ RowRead \/ RowMissing
          BY <5>2 DEF AnalysisBegins, CropBegins, CropNotNeeded, HeaderRead,
                      CaptureRowRead, RowRead, RowMissing
        <5>3. CASE HeadRead \/ PidRead \/ TailRead \/ DataRead
          BY <5>3 DEF HeadRead, PidRead, TailRead, DataRead, Flushed, Given, QueryEnds
        <5> QED
          BY <3>1, <5>1, <5>2, <5>3 DEF Reads
      <4> QED
        BY <4>1 DEF BeforeFormat, Probing
    <3>2. CASE Arrive \/ Lose \/ Wake \/ UNCHANGED vars
      BY <3>2 DEF Arrive, Lose, Wake, vars
    <3> QED
      BY <1>5, <3>1, <3>2
  <2>3. /\ NoneOf("writeFormat") => NoneOf("writeFormat")'
        /\ NoneOf("readFormat") => NoneOf("readFormat")'
    BY <1>5, NoneStays DEF Commands
  <2>4. (WritePending => WritePending') /\ (ReadPending => ReadPending')
    BY <1>5, <2>1, PendingStays
  <2>5. Believed => Believed'
    BY <2>1 DEF Believed
  <2>6. NoReplyYet' => NoReplyYet
    BY <1>0, <2>2 DEF NoReplyYet
  <2> QED
    BY <1>0, <2>2, <2>3, <2>4, <2>5, <2>6 DEF FormatInv
<1>6. CASE Sends /\ ~(FormatWrite \/ FormatRead)
  <2>1. PICK cmd, par : /\ Command(cmd, par) /\ Send(cmd, par)
                        /\ cmd \notin {"writeFormat", "readFormat"}
    <3>1. CASE ConfigSend
      <4>1. Send("config", Settings[count]) /\ Command("config", Settings[count])
        BY <3>1, SettingOf DEF ConfigSend, TypeInv, Command
      <4> QED
        BY <4>1
    <3>2. CASE ~ConfigSend
      BY <1>6, <3>2 DEF Sends, PingSend, BaudSend, ImageSend, QuerySend, Command, TypeInv
    <3> QED
      BY <3>1, <3>2
  <2>2. /\ NoneOf("writeFormat") => NoneOf("writeFormat")'
        /\ NoneOf("readFormat") => NoneOf("readFormat")'
    BY <2>1, NoneSent DEF Commands
  <2>3. scanner'.format = scanner.format
    <3>1. Obeyed(cmd, par).format = scanner.format
      BY <2>1, ObeyedType
    <3> QED
      BY <2>1, <3>1 DEF Send
  <2>4. /\ at' \in BeforeFormat => at \in BeforeFormat
        /\ at' \notin {"format", "formatWritten", "formatRead", "formatShown"}
        /\ at' \notin BeforeFormat => at \notin BeforeFormat \union {"formatWritten"}
    BY <1>6 DEF Sends, PingSend, BaudSend, ConfigSend, ImageSend, QuerySend, BeforeFormat,
                Probing
  <2>5. writeRid' = writeRid /\ readback' = readback /\ wanted' = wanted
    BY <1>6 DEF Sends, PingSend, BaudSend, ConfigSend, ImageSend, QuerySend, format
  <2>6. Believed => Believed'
    BY <2>3, <2>5 DEF Believed
  <2>7. NoReplyYet' => NoReplyYet
    BY <1>0, <2>4 DEF NoReplyYet
  <2> QED
    BY <1>0, <2>2, <2>4, <2>6, <2>7 DEF FormatInv
<1> QED
  BY <1>8, <1>1, <1>2, <1>3, <1>4, <1>5, <1>6, Steps

(* What the firmware believes about the protocol format is so: a readback   *)
(* is the scanner's format, and a write reported successful has set it.     *)
(* Until a first restart this holds however late the replies and however    *)
(* many of them were lost; after any number of restarts, if five replies    *)
(* are never under way together, a loss counting for one of them.           *)
THEOREM FormatKnownHolds == Spec => [](FromPowerOn \/ FewUnderWay => FormatKnown)
<1>1. FormatInv => FormatKnown
  BY DEF FormatInv, FormatKnown, Believed, BeforeFormat, Probing
<1> QED
  BY InitTypeInv, StepTypeInv, InitBaudInv, StepBaudInv, InitAgedInv, StepAgedInv,
     InitFormatInv, StepFormatInv, <1>1, PTL DEF Spec, Known

-----------------------------------------------------------------------------
(* The identity values, on a line that loses nothing.  A value that fits    *)
(* follows the FID and the length it belongs to; once the firmware has      *)
(* taken these for the answer to its query, what it reads next is that      *)
(* value, whether it has asked for it in this analysis or in an earlier one.*)


OwnValues == \A q \in DOMAIN Queries : values[q] \in {Unread, Error, q}

ValueOf(p, q) == p.part = 4 /\ p.val = q /\ p.of \in {"status", "garbage"}

ValuesFollow ==
  \A i \in 1..Len(Stream) :
    Stream[i].of = "status" /\ Stream[i].part = 3 /\ Queries[Stream[i].val] = "fits" =>
      /\ i + 1 \in 1..Len(Stream)
      /\ ValueOf(Stream[i + 1], Stream[i].val)
      /\ Stream[i + 1].baud = Stream[i].baud

ValueNext ==
  /\ 1 \in 1..Len(Stream)
  /\ ValueOf(Stream[1], count) /\ Stream[1].baud = baud

OwnInv ==
  /\ ValuesFollow
  /\ at = "data" => ValueNext
  /\ OwnValues

LEMMA NothingLostBefore ==
  ASSUME TypeInv, [Next]_vars, NothingLost'
  PROVE  NothingLost /\ ~Lose
<1>1. CASE Lose \/ lost' = lost + 1
  BY <1>1 DEF Lose, TypeInv, NothingLost
<1>2. CASE lost' = lost
  BY <1>2 DEF Lose, TypeInv, NothingLost
<1>3. CASE Sends
  <2>1. PICK cmd, par : Send(cmd, par)
    BY <1>3, SendsCommand
  <2>2. lost' = lost \/ lost' = lost + 1
    BY <2>1 DEF Send
  <2> QED
    BY <1>1, <1>2, <2>2
<1>4. Sends \/ Lose \/ lost' = lost
  BY Steps, ReadsKeep DEF Arrive, Wake, Restart, vars
<1> QED
  BY <1>1, <1>2, <1>3, <1>4

LEMMA StatusParts ==
  ASSUME TypeInv, NEW q, Queries[q] = "fits"
  PROVE  Len(StatusReply(q)) = 4 /\ \A p \in 1..4 : StatusReply(q)[p] = Piece("status", p, q)
BY DEF StatusReply

LEMMA FollowMoves ==
  TypeInv /\ ValuesFollow /\ (Arrive \/ Wake \/ Reads \/ UNCHANGED vars) => ValuesFollow'
<1> SUFFICES ASSUME TypeInv, ValuesFollow, Arrive \/ Wake \/ Reads \/ UNCHANGED vars,
                    NEW i \in 1..Len(Stream'),
                    Stream'[i].of = "status", Stream'[i].part = 3,
                    Queries[Stream'[i].val] = "fits"
             PROVE  /\ i + 1 \in 1..Len(Stream')
                    /\ ValueOf(Stream'[i + 1], Stream'[i].val)
                    /\ Stream'[i + 1].baud = Stream'[i].baud
  BY DEF ValuesFollow, ValueOf
<1>1. PICK d \in 0..Len(rx) :
        /\ Len(Stream') = Len(Stream) - d
        /\ \A x \in 1..Len(Stream') : x + d \in 1..Len(Stream) /\ From(x, x + d)
  BY StreamMoves
<1>2. StreamFacts
  BY StreamOf
<1>3. From(i, i + d) /\ i + d \in 1..Len(Stream)
  BY <1>1
<1>4. /\ (i + d) + 1 \in 1..Len(Stream)
      /\ ValueOf(Stream[(i + d) + 1], Stream[i + d].val)
      /\ Stream[(i + d) + 1].baud = Stream[i + d].baud
  BY <1>3 DEF ValuesFollow, From
<1>5. i + 1 \in 1..Len(Stream') /\ (i + d) + 1 = (i + 1) + d
  BY <1>1, <1>2, <1>4 DEF StreamFacts
<1>6. From(i + 1, (i + d) + 1)
  BY <1>1, <1>5
<1> QED
  BY <1>3, <1>4, <1>5, <1>6 DEF From, ValueOf

LEMMA FollowSends == TypeInv /\ ValuesFollow /\ Sends => ValuesFollow'
<1> SUFFICES ASSUME TypeInv, ValuesFollow, Sends,
                    NEW i \in 1..Len(Stream'),
                    Stream'[i].of = "status", Stream'[i].part = 3,
                    Queries[Stream'[i].val] = "fits"
             PROVE  /\ i + 1 \in 1..Len(Stream')
                    /\ ValueOf(Stream'[i + 1], Stream'[i].val)
                    /\ Stream'[i + 1].baud = Stream'[i].baud
  BY DEF ValuesFollow, ValueOf
<1>1. PICK cmd, par : Command(cmd, par) /\ Send(cmd, par)
  BY SendsCommand
<1>2. PICK r :
        /\ Answers(cmd, par, r)
        /\ Len(r) \in Nat /\ Len(out) \in Nat /\ Len(Stream') = Len(out) + Len(r)
        /\ \A x \in 1..Len(Stream') :
             \/ /\ x \in 1..Len(out) /\ x + Len(rx) \in 1..Len(Stream)
                /\ Stream'[x] = Stream[x + Len(rx)]
             \/ x - Len(out) \in 1..Len(r) /\ Stream'[x] = r[x - Len(out)]
  BY <1>1, StreamSends
<1>3. StreamFacts
  BY StreamOf
<1>4. CASE /\ i \in 1..Len(out) /\ i + Len(rx) \in 1..Len(Stream)
           /\ Stream'[i] = Stream[i + Len(rx)]
  <2>1. /\ (i + Len(rx)) + 1 \in 1..Len(Stream)
        /\ ValueOf(Stream[(i + Len(rx)) + 1], Stream[i + Len(rx)].val)
        /\ Stream[(i + Len(rx)) + 1].baud = Stream[i + Len(rx)].baud
    BY <1>4 DEF ValuesFollow
  <2>2. /\ i + 1 \in 1..Len(out) /\ i + 1 \in 1..Len(Stream')
        /\ (i + Len(rx)) + 1 = (i + 1) + Len(rx)
    BY <1>2, <1>3, <2>1 DEF StreamFacts
  <2>3. Stream'[i + 1] = Stream[(i + Len(rx)) + 1]
    BY <1>2, <2>2
  <2> QED
    BY <1>4, <2>1, <2>2, <2>3
<1>5. CASE i - Len(out) \in 1..Len(r) /\ Stream'[i] = r[i - Len(out)]
  <2> DEFINE k == i - Len(out)
  <2>1. r[k] \in Own(cmd) /\ r # <<>>
    BY <1>2, <1>5 DEF Answers
  <2>2. cmd = "status"
    BY <1>5, <2>1 DEF Own
  <2>3. r = StatusReply(par)
    BY <1>2, <2>1, <2>2 DEF Answers, Reply
  <2>4. Stream'[i] = r[k] /\ k \in 1..Len(r)
    BY <1>5
  <2> HIDE DEF k
  <2>5. Queries[par] = "fits" /\ Stream'[i].val = par
    <3>1. CASE Queries[par] = "unsupported"
      <4>1. r = <<Piece("status", 1, 0), Piece("status", 2, 0)>>
        BY <2>3, <3>1 DEF StatusReply
      <4>2. r[k].part \in {1, 2}
        BY <2>4, <4>1 DEF Piece
      <4> QED
        BY <2>4, <4>2
    <3>2. CASE Queries[par] # "unsupported"
      <4>1. r[k].val = par
        BY <2>3, <2>4, <3>2 DEF StatusReply, Piece
      <4> QED
        BY <2>4, <4>1
    <3> QED
      BY <3>1, <3>2
  <2>6. Len(r) = 4 /\ \A p \in 1..4 : r[p] = Piece("status", p, par)
    BY <2>3, <2>5, StatusParts
  <2>7. k = 3
    BY <2>4, <2>6 DEF Piece
  <2>8. i + 1 \in 1..Len(Stream') /\ (i + 1) - Len(out) = 4 /\ i + 1 \notin 1..Len(out)
    BY <1>2, <2>6, <2>7 DEF k
  <2>9. Stream'[i + 1] = r[4]
    BY <1>2, <2>8
  <2> QED
    BY <2>4, <2>5, <2>6, <2>7, <2>8, <2>9 DEF Piece, ValueOf
<1> QED
  BY <1>2, <1>4, <1>5

LEMMA FollowRestarts == TypeInv /\ ValuesFollow /\ Restart => ValuesFollow'
<1> SUFFICES ASSUME TypeInv, ValuesFollow, Restart,
                    NEW i \in 1..Len(Stream'),
                    Stream'[i].of = "status", Stream'[i].part = 3,
                    Queries[Stream'[i].val] = "fits"
             PROVE  /\ i + 1 \in 1..Len(Stream')
                    /\ ValueOf(Stream'[i + 1], Stream'[i].val)
                    /\ Stream'[i + 1].baud = Stream'[i].baud
  BY DEF ValuesFollow, ValueOf
<1>1. StreamFacts
  BY StreamOf
<1>2. Stream' = out'
  BY <1>1 DEF Restart, Stream, StreamFacts
<1>3. out' = out
  BY <1>2 DEF Restart
<1>4. /\ i \in 1..Len(out) /\ Stream'[i] = Stream[i + Len(rx)]
      /\ i + Len(rx) \in 1..Len(Stream)
  BY <1>1, <1>2, <1>3 DEF StreamFacts
<1>5. /\ (i + Len(rx)) + 1 \in 1..Len(Stream)
      /\ ValueOf(Stream[(i + Len(rx)) + 1], Stream[i + Len(rx)].val)
      /\ Stream[(i + Len(rx)) + 1].baud = Stream[i + Len(rx)].baud
  BY <1>4 DEF ValuesFollow
<1>6. i + 1 \in 1..Len(out) /\ (i + Len(rx)) + 1 = (i + 1) + Len(rx)
  BY <1>1, <1>4, <1>5 DEF StreamFacts
<1>7. Stream'[i + 1] = Stream[(i + 1) + Len(rx)]
  BY <1>1, <1>2, <1>3, <1>6 DEF StreamFacts
<1> QED
  BY <1>2, <1>3, <1>4, <1>5, <1>6, <1>7

(* Behind the FID of the query stands its value.                            *)
LEMMA TailLeadsToValue ==
  TypeInv /\ BaudInv /\ ValuesFollow /\ TailRead /\ at' = "data" => ValueNext'
<1> SUFFICES ASSUME TypeInv, BaudInv, ValuesFollow, TailRead, at' = "data"
             PROVE  ValueNext'
  OBVIOUS
<1>1. /\ Got(1) /\ rx # <<>> /\ Is(1, "status", 3) /\ rx[1].val = count
      /\ Queries[count] = "fits" /\ count' = count /\ baud' = baud /\ at = "tail"
      /\ out' = out
  BY DEF TailRead, Given, Flushed, QueryEnds, line
<1>2. StreamFacts
  BY StreamOf
<1>3. 1 \in 1..Len(rx) /\ 1 \in 1..Len(Stream) /\ Stream[1] = rx[1]
  BY <1>1, <1>2 DEF Got, StreamFacts
<1>4. /\ 1 + 1 \in 1..Len(Stream) /\ ValueOf(Stream[1 + 1], count)
      /\ Stream[1 + 1].baud = rx[1].baud
  BY <1>1, <1>3 DEF ValuesFollow, Is
<1>5. rx[1].baud = baud
  BY <1>1, <1>3 DEF BaudInv, Legible, Is
<1>6. Stream'[1] = Stream[1 + 1] /\ 1 \in 1..Len(Stream')
  <2>1. Reads /\ Taken(1) /\ 1 \in 0..Len(rx)
    BY <1>1, GotTakes DEF Reads
  <2>2. /\ Len(Stream') = Len(Stream) - 1
        /\ \A i \in 1..Len(Stream') : Stream'[i] = Stream[i + 1]
    BY <2>1, StreamTaken
  <2> QED
    BY <1>2, <1>4, <2>2 DEF StreamFacts
<1> QED
  BY <1>1, <1>4, <1>5, <1>6 DEF ValueNext, ValueOf

LEMMA ValueRead ==
  TypeInv /\ BaudInv /\ (Stream = <<>> \/ ValueNext) /\ OwnValues /\ DataRead => OwnValues'
<1> SUFFICES ASSUME TypeInv, BaudInv, Stream = <<>> \/ ValueNext, OwnValues, DataRead
             PROVE  OwnValues'
  OBVIOUS
<1>1. PICK v : QueryEnds(v) /\ v \in {count, Error}
  <2>1. CASE Got(1)
    <3>1. /\ 1 \in 1..Len(rx) /\ Stream[1] = rx[1] /\ 1 \in 1..Len(Stream)
          /\ ValueNext
      BY <2>1, StreamOf DEF Got, StreamFacts
    <3>2. rx[1].of = "status" /\ rx[1].part = 4 /\ rx[1].val = count
      BY <3>1 DEF ValueNext, ValueOf, BaudInv, Legible, DataRead
    <3> QED
      BY <2>1, <3>2 DEF DataRead
  <2>2. CASE ~Got(1)
    BY <2>2 DEF DataRead
  <2> QED
    BY <2>1, <2>2
<1>2. values' = [values EXCEPT ![count] = v] /\ values \in [DOMAIN Queries -> Int]
  BY <1>1 DEF QueryEnds, TypeInv
<1>3. \A q \in DOMAIN Queries : values'[q] \in {values[q], Error, q}
  BY <1>1, <1>2
<1> QED
  BY <1>3 DEF OwnValues

(* No other step finds a value.                                             *)
LEMMA OthersFindNone ==
  TypeInv /\ OwnValues /\ [Next]_vars /\ ~DataRead => OwnValues'
<1> SUFFICES ASSUME TypeInv, OwnValues, [Next]_vars, ~DataRead PROVE OwnValues'
  OBVIOUS
<1>1. CASE values' = [q \in DOMAIN Queries |-> Unread]
  BY <1>1 DEF OwnValues
<1>2. CASE values' = values
  BY <1>2 DEF OwnValues
<1>3. CASE QueryEnds(Error)
  <2>1. values' = [values EXCEPT ![count] = Error] /\ values \in [DOMAIN Queries -> Int]
    BY <1>3 DEF QueryEnds, TypeInv
  <2>2. \A q \in DOMAIN Queries : values'[q] \in {values[q], Error}
    BY <2>1
  <2> QED
    BY <2>2 DEF OwnValues
<1>4. CASE Reads
  BY <1>1, <1>2, <1>3, <1>4
     DEF Reads, PingAnswered, PingFails, BaudAnswered, BaudUnanswered, Verified,
         ConfigSent, FormatWritten, FormatShown, AnalysisBegins, CropBegins,
         CropNotNeeded, HeaderRead, CaptureRowRead, RowRead,
         RowMissing, HeadRead, PidRead, TailRead, Flushed, Given
<1>5. CASE ~Reads
  BY <1>1, <1>2, <1>5, Steps, SendsKeep DEF Arrive, Lose, Wake, Restart, vars
<1> QED
  BY <1>4, <1>5

LEMMA StepOwnInv ==
  TypeInv /\ BaudInv /\ (NothingLost => OwnInv) /\ [Next]_vars
    => (NothingLost => OwnInv)'
<1> SUFFICES ASSUME TypeInv, BaudInv, NothingLost => OwnInv, [Next]_vars, NothingLost'
             PROVE  OwnInv'
  OBVIOUS
<1>0. OwnInv /\ ~Lose
  BY NothingLostBefore
<1>1. Arrive \/ Wake \/ Reads \/ UNCHANGED vars \/ Sends \/ Restart
  BY <1>0, Steps
<1>2. ValuesFollow'
  BY <1>0, <1>1, FollowMoves, FollowSends, FollowRestarts DEF OwnInv
<1>3. at' = "data" => ValueNext'
  <2> SUFFICES ASSUME at' = "data" PROVE ValueNext'
    OBVIOUS
  <2>1. CASE TailRead
    BY <1>0, <2>1, TailLeadsToValue DEF OwnInv
  <2>2. CASE Arrive \/ Wake \/ UNCHANGED vars
    <3>1. at = "data" /\ count' = count /\ baud' = baud
      BY <2>2 DEF Arrive, Wake, vars
    <3>2. Len(Stream') = Len(Stream) /\ \A i \in 1..Len(Stream') : From(i, i)
      BY <2>2, StreamStays
    <3> QED
      BY <1>0, <3>1, <3>2 DEF OwnInv, ValueNext, ValueOf, From
  <2>3. CASE Sends \/ Restart
    BY <2>3 DEF Sends, PingSend, BaudSend, ConfigSend, FormatWrite, FormatRead, ImageSend,
                QuerySend, Restart
  <2>4. CASE Reads /\ ~TailRead
    BY <2>4 DEF Reads, PingAnswered, PingFails, BaudAnswered, BaudUnanswered, Verified,
         ConfigSent, FormatWritten, FormatShown, AnalysisBegins, CropBegins,
         CropNotNeeded, HeaderRead, CaptureRowRead, RowRead,
         RowMissing, HeadRead, PidRead, DataRead, Flushed, Given, QueryEnds
  <2> QED
    BY <1>1, <2>1, <2>2, <2>3, <2>4
<1>4. OwnValues'
  <2>1. CASE DataRead
    <3>1. at = "data"
      BY <2>1 DEF DataRead
    <3> QED
      BY <1>0, <2>1, <3>1, ValueRead DEF OwnInv
  <2>2. CASE ~DataRead
    BY <1>0, <2>2, OthersFindNone DEF OwnInv
  <2> QED
    BY <2>1, <2>2
<1> QED
  BY <1>2, <1>3, <1>4 DEF OwnInv

LEMMA InitOwnInv == Init => OwnInv
<1> SUFFICES ASSUME Init PROVE OwnInv
  OBVIOUS
<1>1. Stream = <<>> /\ at = "ping" /\ \A q \in DOMAIN Queries : values[q] = Unread
  BY DEF Init, Stream
<1> QED
  BY <1>1 DEF OwnInv, ValuesFollow, OwnValues

-----------------------------------------------------------------------------
(* The crop, in an analysis that begins with no piece of an image under     *)
(* way.  The image for the crop is asked for after the one for the capture  *)
(* was read to its last row, and after the last row nothing is left of it.  *)
(* The pieces of either are numbered, so that a piece stands where the      *)
(* firmware expects it, or further on by as many as were lost before it:    *)
(* its shift.  No piece has a smaller shift than one before it, and one     *)
(* that ends a whole image has none.                                        *)

OfImage(p) ==
  p.of = "image" /\ p.val = Requested /\ p.baud = Normal /\ p.part <= 2 * Height

(* Behind the header comes nothing but the image.                           *)
HeaderInv ==
  \A i, j \in 1..Len(Stream) :
    i < j /\ Stream[i].of = "image" =>
      OfImage(Stream[j]) /\ Stream[j].part - Stream[i].part >= j - i

(* The rows kept of the first n, and the shifts.                            *)
Kept(n) == IF n <= crop.y THEN 0
           ELSE IF n < crop.y + crop.height THEN n - crop.y ELSE crop.height

Shift(j) == Stream[j].part - (2 * count + j)

KeptShift(r, h) == crop.rows[r][h].part - (2 * (crop.y + r - 2) + h + 2)

RowsInv ==
  /\ count < Height
  /\ Len(crop.rows) = Kept(count)
  /\ \A j \in 1..Len(Stream) : OfImage(Stream[j]) /\ Shift(j) >= 0
  /\ \A i, j \in 1..Len(Stream) : i < j => Shift(i) <= Shift(j)
  /\ \A r \in 1..Len(crop.rows), h \in {1, 2} :
       /\ crop.rows[r][h] \in Pieces
       /\ crop.rows[r][h].of = "image" /\ crop.rows[r][h].val = CropImage
       /\ KeptShift(r, h) >= 0
       /\ \A j \in 1..Len(Stream) : KeptShift(r, h) <= Shift(j)

CropRows ==
  crop.ok =>
    /\ Len(crop.rows) = crop.height
    /\ \A i \in 1..crop.height : \A h \in {1, 2} :
         /\ crop.rows[i][h].of = "image" /\ crop.rows[i][h].val = CropImage
         /\ crop.rows[i][h].part = 2 * (crop.y + i - 2) + h + 2

CropInv ==
  /\ at \in {"capture", "captured", "image"} => NoneOf("image")
  /\ at \in {"capture", "captureHeader", "captureRows"} => crop = NoCrop
  /\ at \in {"image", "header", "rows"} => crop.box # {} /\ crop.height >= 1
  /\ at \in {"image", "header"} => crop.rows = <<>>
  /\ at \in {"captureHeader", "header"} => HeaderInv
  /\ at \in {"captureRows", "rows"} => RowsInv
  /\ CropRows

NotGarbled == \A i \in 1..Len(Stream) : Stream[i].baud = Normal => Stream[i].of # "garbage"

LEMMA NoGarbage == TypeInv /\ BaudInv /\ at \notin Probing => NotGarbled
<1> SUFFICES ASSUME TypeInv, BaudInv, at \notin Probing,
                    NEW i \in 1..Len(Stream), Stream[i].baud = Normal
             PROVE  Stream[i].of # "garbage"
  BY DEF NotGarbled
<1>1. StreamFacts
  BY StreamOf
<1>2. CASE i \in 1..Len(rx) /\ Stream[i] = rx[i]
  BY <1>2 DEF BaudInv, Legible, Probing
<1>3. CASE i - Len(rx) \in 1..Len(out) /\ Stream[i] = out[i - Len(rx)]
  BY <1>3 DEF BaudInv
<1> QED
  BY <1>1, <1>2, <1>3, Joined DEF StreamFacts, Stream

LEMMA RequestedStays ==
  ASSUME analyses' = analyses,
         at' \in {"image", "header", "rows"} <=> at \in {"image", "header", "rows"}
  PROVE  Requested' = Requested /\ CropImage' = CropImage
BY DEF Requested, CropImage, CaptureImage

(* A piece of the image stays one on its way.                               *)
LEMMA ImageStays ==
  ASSUME TypeInv, BaudInv, [Next]_vars, at' \notin Probing, Requested' = Requested,
         NEW i \in 1..Len(Stream'), NEW k \in 1..Len(Stream), From(i, k),
         OfImage(Stream[k])
  PROVE  OfImage(Stream[i])'
<1>1. (TypeInv /\ BaudInv /\ at \notin Probing)'
  BY StepTypeInv, StepBaudInv
<1>2. NotGarbled'
  BY <1>1, NoGarbage, PTL
<1>3. Stream'[i].of # "garbage"
  BY <1>2 DEF NotGarbled, From, OfImage
<1> QED
  BY <1>3 DEF From, OfImage

LEMMA PartOf == TypeInv => \A i \in 1..Len(Stream) : Stream[i].part \in Nat
<1> SUFFICES ASSUME TypeInv, NEW i \in 1..Len(Stream) PROVE Stream[i].part \in Nat
  OBVIOUS
<1>1. Stream[i] \in Pieces
  BY StreamOf DEF StreamFacts
<1> QED
  BY <1>1 DEF Pieces

LEMMA HeaderStays ==
  ASSUME TypeInv, BaudInv, at \in {"captureHeader", "header"}, HeaderInv,
         Arrive \/ Lose \/ Wake \/ UNCHANGED vars
  PROVE  HeaderInv'
<1> SUFFICES ASSUME NEW i \in 1..Len(Stream'), NEW j \in 1..Len(Stream'), i < j,
                    Stream'[i].of = "image"
             PROVE  /\ OfImage(Stream[j])'
                    /\ Stream'[j].part - Stream'[i].part >= j - i
  BY DEF HeaderInv
<1>1. PICK k, l \in 1..Len(Stream) :
        From(i, k) /\ From(j, l) /\ k < l /\ l - k >= j - i
  BY StreamOrder
<1>2. OfImage(Stream[l]) /\ Stream[l].part - Stream[k].part >= l - k
  BY <1>1 DEF HeaderInv, From
<1>3. at' = at /\ [Next]_vars /\ Requested' = Requested
  BY RequestedStays DEF Arrive, Lose, Wake, vars, image, Next, Line
<1>4. OfImage(Stream[j])'
  BY <1>1, <1>2, <1>3, ImageStays DEF Probing
<1>5. Stream'[i].part = Stream[k].part /\ Stream'[j].part = Stream[l].part
  BY <1>1 DEF From
<1>6. /\ Stream[k].part \in Nat /\ Stream[l].part \in Nat
      /\ i \in Int /\ j \in Int /\ k \in Int /\ l \in Int
  BY PartOf
<1> QED
  BY <1>1, <1>2, <1>4, <1>5, <1>6

LEMMA JoinedToOne ==
  ASSUME NEW S, NEW a \in S, NEW f \in Seq(S)
  PROVE  /\ Len(<<a>> \o f) = Len(f) + 1
         /\ \A m \in 1..Len(f) + 1 : (<<a>> \o f)[m] = IF m = 1 THEN a ELSE f[m - 1]
OBVIOUS

LEMMA ImageParts ==
  ASSUME TypeInv
  PROVE  /\ Len(ImageReply) = 2 * Height + 1
         /\ \A m \in 1..2 * Height + 1 : ImageReply[m] = Piece("image", m - 1, Requested)
<1> DEFINE f == [i \in 1..2 * Height |-> Piece("image", i, Requested)]
           a == Piece("image", 0, Requested)
           S == {Piece("image", i, Requested) : i \in Nat}
<1>1. 2 * Height \in Nat
  BY LinkAssumption
<1>2. f \in Seq(S) /\ Len(f) = 2 * Height /\ a \in S
  BY <1>1
<1>3. \A i \in 1..2 * Height : f[i] = Piece("image", i, Requested)
  OBVIOUS
<1>4. ImageReply = <<a>> \o f
  BY DEF ImageReply
<1>5. a = Piece("image", 0, Requested)
  OBVIOUS
<1> HIDE DEF f, a, S
<1>6. /\ Len(<<a>> \o f) = 2 * Height + 1
      /\ \A m \in 1..2 * Height + 1 : (<<a>> \o f)[m] = IF m = 1 THEN a ELSE f[m - 1]
  BY <1>2, JoinedToOne
<1>7. ASSUME NEW m \in 1..2 * Height + 1
      PROVE  ImageReply[m] = Piece("image", m - 1, Requested)
  <2>1. CASE m = 1
    BY <1>4, <1>5, <1>6, <2>1
  <2>2. CASE m # 1
    <3>1. m - 1 \in 1..2 * Height
      BY <1>1, <2>2
    <3> QED
      BY <1>3, <1>4, <1>6, <2>2, <3>1
  <2> QED
    BY <2>1, <2>2
<1> QED
  BY <1>4, <1>6, <1>7

(* The image is asked for: whatever is under way comes before it.           *)
LEMMA ImageSent ==
  ASSUME TypeInv, BaudInv, ImageSend, NoneOf("image")
  PROVE  HeaderInv'
<1> SUFFICES ASSUME NEW i \in 1..Len(Stream'), NEW j \in 1..Len(Stream'), i < j,
                    Stream'[i].of = "image"
             PROVE  /\ OfImage(Stream[j])'
                    /\ Stream'[j].part - Stream'[i].part >= j - i
  BY DEF HeaderInv
<1>1. /\ at \notin Probing /\ Send("image", 0) /\ Command("image", 0)
      /\ Requested' = Requested
  BY RequestedStays DEF ImageSend, Command, image, Probing
<1>2. PICK r : /\ r = Reply("image", 0)
               /\ scanner' = Obeyed("image", 0)
               /\ \E k, l \in 1..Len(r) : /\ k < l /\ l - k = j - i
                                          /\ Stream'[i] = r[k] /\ Stream'[j] = r[l]
  BY <1>1, OnlyReply
<1>3. r = ImageReply
  BY <1>2 DEF Reply
<1>4. PICK k, l \in 1..Len(r) : /\ k < l /\ l - k = j - i
                                /\ Stream'[i] = r[k] /\ Stream'[j] = r[l]
  BY <1>2
<1>5. 2 * Height \in Nat
  BY LinkAssumption
<1>6. k \in 1..2 * Height + 1 /\ l \in 1..2 * Height + 1
  BY <1>3, <1>4, ImageParts
<1>7. /\ Stream'[i] = Piece("image", k - 1, Requested)
      /\ Stream'[j] = Piece("image", l - 1, Requested)
  BY <1>3, <1>4, <1>6, ImageParts
<1>8. scanner.baud = Normal
  BY <1>1 DEF BaudInv, Probing
<1>9. /\ Stream'[i].part = k - 1 /\ Stream'[j].part = l - 1
      /\ Stream'[j].of = "image" /\ Stream'[j].val = Requested /\ Stream'[j].baud = Normal
  BY <1>7, <1>8 DEF Piece
<1>10. l - 1 <= 2 * Height
  BY <1>5, <1>6
<1>11. (l - 1) - (k - 1) >= j - i
  BY <1>4, <1>6, <1>5
<1> QED
  BY <1>1, <1>9, <1>10, <1>11 DEF OfImage

(* The first piece of it is taken for the header.                           *)
LEMMA HeaderTaken ==
  ASSUME TypeInv, HeaderRead, at' \in {"captureRows", "rows"}, HeaderInv,
         crop.rows = <<>>, crop.y \in Nat
  PROVE  RowsInv'
<1>1. /\ Got(1) /\ Is(1, "image", 0) /\ count' = 0 /\ crop' = crop
      /\ Requested' = Requested
  BY RequestedStays DEF HeaderRead, image
<1>2. StreamFacts
  BY StreamOf
<1>3. 1 \in 1..Len(rx) /\ 1 \in 1..Len(Stream) /\ Stream[1] = rx[1]
  BY <1>1, <1>2 DEF Got, StreamFacts
<1>4. /\ Len(Stream') = Len(Stream) - 1
      /\ \A i \in 1..Len(Stream') : Stream'[i] = Stream[i + 1]
  <2>1. Reads /\ Taken(1) /\ 1 \in 0..Len(rx)
    BY <1>1, GotTakes DEF Reads
  <2> QED
    BY <2>1, StreamTaken
<1>5. \A i \in 1..Len(Stream') : /\ i + 1 \in 1..Len(Stream)
                                 /\ Stream[i + 1].part \in Nat
  BY <1>2, <1>4, PartOf DEF StreamFacts
<1>6. Stream[1].of = "image" /\ Stream[1].part = 0
  BY <1>1, <1>3 DEF Is
<1>7. ASSUME NEW j \in 1..Len(Stream')
      PROVE  OfImage(Stream[j])' /\ Shift(j)' >= 0
  <2>1. OfImage(Stream[j + 1]) /\ Stream[j + 1].part - 0 >= (j + 1) - 1
    <3>1. 1 < j + 1 /\ j + 1 \in 1..Len(Stream)
      BY <1>5
    <3> QED
      BY <1>3, <1>6, <3>1 DEF HeaderInv
  <2>2. Stream'[j].part - (2 * 0 + j) >= 0
    BY <1>4, <1>5, <2>1
  <2> QED
    BY <1>1, <1>4, <2>1, <2>2 DEF OfImage, Shift
<1>8. ASSUME NEW i \in 1..Len(Stream'), NEW j \in 1..Len(Stream'), i < j
      PROVE  Shift(i)' <= Shift(j)'
  <2>1. Stream[i + 1].of = "image"
    BY <1>7, <1>4 DEF OfImage
  <2>2. Stream[j + 1].part - Stream[i + 1].part >= (j + 1) - (i + 1)
    <3>1. i + 1 < j + 1 /\ i + 1 \in 1..Len(Stream) /\ j + 1 \in 1..Len(Stream)
      BY <1>5, <1>8
    <3> QED
      BY <2>1, <3>1 DEF HeaderInv
  <2>3. Stream[i + 1].part - (2 * 0 + i) <= Stream[j + 1].part - (2 * 0 + j)
    BY <1>5, <2>2
  <2> QED
    BY <1>1, <1>4, <2>3 DEF Shift
<1>9. crop.y \in Int /\ crop.y >= 0 /\ Height > 0
  BY LinkAssumption
<1>10. count' < Height /\ Len(crop'.rows) = 0 /\ Kept(count)' = 0
  BY <1>1, <1>9 DEF Kept
<1> QED
  BY <1>7, <1>8, <1>10 DEF RowsInv

LEMMA RowsStay ==
  ASSUME TypeInv, BaudInv, at \in {"captureRows", "rows"}, RowsInv,
         Arrive \/ Lose \/ Wake \/ UNCHANGED vars
  PROVE  RowsInv'
<1>1. /\ at' = at /\ Requested' = Requested /\ CropImage' = CropImage
      /\ count' = count /\ crop' = crop /\ [Next]_vars
  BY RequestedStays DEF Arrive, Lose, Wake, vars, image, Next, Line
<1>2. count \in Nat
  BY DEF TypeInv
<1>3. ASSUME NEW i \in 1..Len(Stream'), NEW j \in 1..Len(Stream')
      PROVE  /\ OfImage(Stream[j])' /\ Shift(j)' >= 0
             /\ i < j => Shift(i)' <= Shift(j)'
             /\ \A r \in 1..Len(crop'.rows), h \in {1, 2} : KeptShift(r, h)' <= Shift(j)'
  <2>1. PICK k, l \in 1..Len(Stream) :
          /\ From(i, k) /\ From(j, l) /\ j <= l
          /\ i < j => k < l /\ l - k >= j - i
    BY StreamOrder
  <2>2. OfImage(Stream[j])'
    BY <1>1, <2>1, ImageStays DEF Probing, RowsInv
  <2>3. /\ Shift(i)' = Stream[k].part - (2 * count + i)
        /\ Shift(j)' = Stream[l].part - (2 * count + j)
        /\ Shift(k) = Stream[k].part - (2 * count + k)
        /\ Shift(l) = Stream[l].part - (2 * count + l)
    BY <1>1, <2>1 DEF From, Shift
  <2>4. /\ Stream[k].part \in Nat /\ Stream[l].part \in Nat
        /\ i \in Int /\ j \in Int /\ k \in Int /\ l \in Int
    BY PartOf
  <2>5. Shift(j)' >= Shift(l) /\ Shift(j)' \in Int /\ Shift(l) \in Int
    <3>1. PICK p \in Nat : p = Stream[l].part
      BY <2>4
    <3>2. Shift(j)' = p - (2 * count + j) /\ Shift(l) = p - (2 * count + l)
      BY <2>3, <3>1
    <3>3. /\ p - (2 * count + j) >= p - (2 * count + l)
          /\ p - (2 * count + j) \in Int /\ p - (2 * count + l) \in Int
      BY <1>2, <2>1, <2>4
    <3> QED
      BY <3>2, <3>3
  <2>6. i < j => Shift(k) <= Shift(l)
    BY <2>1 DEF RowsInv
  <2>7. i < j => Shift(i)' <= Shift(j)'
    <3>1. PICK p \in Nat, q \in Nat : p = Stream[k].part /\ q = Stream[l].part
      BY <2>4
    <3>2. i < j => p - (2 * count + k) <= q - (2 * count + l)
      BY <2>3, <2>6, <3>1
    <3>3. i < j => p - (2 * count + i) <= q - (2 * count + j)
      BY <1>2, <2>1, <2>4, <3>2
    <3> QED
      BY <2>3, <3>1, <3>3
  <2>8. Shift(l) >= 0
    BY DEF RowsInv
  <2>9. ASSUME NEW r \in 1..Len(crop'.rows), NEW h \in {1, 2}
        PROVE  KeptShift(r, h)' <= Shift(j)'
    <3>1. KeptShift(r, h)' = KeptShift(r, h)
      BY <1>1 DEF KeptShift
    <3>2. KeptShift(r, h) <= Shift(l)
      BY <1>1 DEF RowsInv
    <3>3. KeptShift(r, h) \in Int
      <4>1. crop.rows[r][h] \in Pieces
        BY <1>1 DEF RowsInv
      <4>2. crop.rows[r][h].part \in Nat /\ crop.y \in Int /\ r \in Int /\ h \in Int
        BY <4>1 DEF Pieces, TypeInv, Crops
      <4>3. PICK p \in Nat : p = crop.rows[r][h].part
        BY <4>2
      <4>4. p - (2 * (crop.y + r - 2) + h + 2) \in Int
        BY <4>2
      <4> QED
        BY <4>3, <4>4 DEF KeptShift
    <3> QED
      BY <2>5, <3>1, <3>2, <3>3
  <2>10. Shift(j)' >= 0
    BY <2>5, <2>8
  <2> QED
    BY <2>2, <2>7, <2>9, <2>10
<1>4. \A r \in 1..Len(crop'.rows), h \in {1, 2} :
        /\ crop'.rows[r][h] \in Pieces
        /\ crop'.rows[r][h].of = "image" /\ crop'.rows[r][h].val = CropImage'
        /\ KeptShift(r, h)' >= 0
  BY <1>1 DEF RowsInv, KeptShift
<1>5. count' < Height /\ Len(crop'.rows) = Kept(count)'
  BY <1>1 DEF RowsInv, Kept
<1> QED
  BY <1>3, <1>4, <1>5 DEF RowsInv

LEMMA ShiftOf == TypeInv => \A j \in 1..Len(Stream) : Shift(j) \in Int
<1> SUFFICES ASSUME TypeInv, NEW j \in 1..Len(Stream) PROVE Shift(j) \in Int
  OBVIOUS
<1>1. PICK p \in Nat : p = Stream[j].part
  BY PartOf
<1>2. p - (2 * count + j) \in Int
  BY DEF TypeInv
<1> QED
  BY <1>1, <1>2 DEF Shift

LEMMA FirstTwo ==
  ASSUME NEW S, NEW s \in Seq(S), Len(s) >= 2
  PROVE  /\ SubSeq(s, 1, 2) \in Seq(S)
         /\ \A h \in {1, 2} : SubSeq(s, 1, 2)[h] = s[h]
OBVIOUS

LEMMA KeptNext ==
  ASSUME TypeInv, crop.height >= 1
  PROVE  /\ InCrop(count) => Kept(count) = count - crop.y /\ Kept(count + 1) = Kept(count) + 1
         /\ ~InCrop(count) => Kept(count + 1) = Kept(count)
BY DEF TypeInv, Crops, Kept, InCrop

(* A row is read: the rows that are kept, if need be with this one.  None of *)
(* their pieces is further off than those of the stream that come later.    *)
LEMMA RowKept ==
  ASSUME TypeInv, RowsInv, RowRead, crop.height >= 1
  PROVE  /\ Len(crop'.rows) = Kept(count + 1)
         /\ \A r \in 1..Len(crop'.rows), h \in {1, 2} :
              /\ crop'.rows[r][h] \in Pieces
              /\ crop'.rows[r][h].of = "image" /\ crop'.rows[r][h].val = CropImage
              /\ KeptShift(r, h)' \in Int /\ KeptShift(r, h)' >= 0
              /\ \A j \in 2..Len(Stream) : KeptShift(r, h)' <= Shift(j)
<1>1. /\ Got(2) /\ crop'.y = crop.y
      /\ crop'.rows = IF InCrop(count) THEN Append(crop.rows, SubSeq(rx, 1, 2)) ELSE crop.rows
  BY DEF RowRead, TypeInv, Crops
<1>0. Requested = CropImage
  BY DEF RowRead, Requested
<1>2. StreamFacts
  BY StreamOf
<1>3. /\ 1 \in 1..Len(rx) /\ 2 \in 1..Len(rx) /\ 1 \in 1..Len(Stream) /\ 2 \in 1..Len(Stream)
      /\ Stream[1] = rx[1] /\ Stream[2] = rx[2]
  BY <1>1, <1>2 DEF Got, StreamFacts
<1>4. crop.rows \in Seq(Seq(Pieces)) /\ Len(crop.rows) = Kept(count) /\ count \in Nat
  BY DEF TypeInv, Crops, RowsInv
<1>5. /\ SubSeq(rx, 1, 2) \in Seq(Pieces)
      /\ \A h \in {1, 2} : SubSeq(rx, 1, 2)[h] = rx[h]
  BY <1>1, <1>2, FirstTwo DEF StreamFacts, Got
<1>6. ASSUME NEW r \in 1..Len(crop.rows), NEW h \in {1, 2}, crop'.rows[r] = crop.rows[r]
      PROVE  /\ crop'.rows[r][h] \in Pieces
             /\ crop'.rows[r][h].of = "image" /\ crop'.rows[r][h].val = CropImage
             /\ KeptShift(r, h)' \in Int /\ KeptShift(r, h)' >= 0
             /\ \A j \in 2..Len(Stream) : KeptShift(r, h)' <= Shift(j)
  <2>1. /\ crop.rows[r][h] \in Pieces
        /\ crop.rows[r][h].of = "image" /\ crop.rows[r][h].val = CropImage
        /\ KeptShift(r, h) >= 0
        /\ \A j \in 1..Len(Stream) : KeptShift(r, h) <= Shift(j)
    BY DEF RowsInv
  <2>2. KeptShift(r, h)' = KeptShift(r, h)
    BY <1>1, <1>6 DEF KeptShift
  <2>3. KeptShift(r, h) \in Int
    <3>1. PICK p \in Nat : p = crop.rows[r][h].part
      BY <2>1 DEF Pieces
    <3>2. p - (2 * (crop.y + r - 2) + h + 2) \in Int
      BY DEF TypeInv, Crops
    <3> QED
      BY <3>1, <3>2 DEF KeptShift
  <2>4. \A j \in 2..Len(Stream) : j \in 1..Len(Stream)
    BY <1>2 DEF StreamFacts
  <2> QED
    BY <1>6, <2>1, <2>2, <2>3, <2>4
<1>7. CASE ~InCrop(count)
  <2>1. crop'.rows = crop.rows /\ Kept(count + 1) = Kept(count)
    BY <1>1, <1>7, KeptNext
  <2> QED
    BY <1>4, <1>6, <2>1
<1>8. CASE InCrop(count)
  <2>0. PICK n \in Nat : n = Len(crop.rows)
    BY <1>4
  <2>1. /\ n = count - crop.y /\ Kept(count + 1) = n + 1
        /\ crop'.rows = Append(crop.rows, SubSeq(rx, 1, 2))
    BY <1>1, <1>4, <1>8, <2>0, KeptNext
  <2>2. /\ Len(crop'.rows) = n + 1
        /\ \A r \in 1..n : crop'.rows[r] = crop.rows[r]
        /\ crop'.rows[n + 1] = SubSeq(rx, 1, 2)
    BY <1>4, <1>5, <2>0, <2>1
  <2>3. ASSUME NEW r \in {n + 1}, NEW h \in {1, 2}
        PROVE  /\ crop'.rows[r][h] \in Pieces
               /\ crop'.rows[r][h].of = "image" /\ crop'.rows[r][h].val = CropImage
               /\ KeptShift(r, h)' \in Int /\ KeptShift(r, h)' >= 0
               /\ \A j \in 2..Len(Stream) : KeptShift(r, h)' <= Shift(j)
    <3>1. crop'.rows[r][h] = Stream[h] /\ h \in 1..Len(Stream)
      BY <1>3, <1>5, <2>2
    <3>2. Stream[h] \in Pieces /\ OfImage(Stream[h]) /\ Shift(h) >= 0
      BY <1>2, <3>1 DEF RowsInv, StreamFacts
    <3>3. KeptShift(r, h)' = Shift(h)
      <4>0. PICK y \in Int : y = crop.y
        BY DEF TypeInv, Crops
      <4>1. n = count - y /\ r = n + 1 /\ h \in Nat /\ n \in Nat /\ count \in Nat
        BY <1>4, <2>1, <4>0
      <4>2. 2 * (y + r - 2) + h + 2 = 2 * count + h
        BY <4>1
      <4> QED
        BY <1>1, <3>1, <4>0, <4>2 DEF KeptShift, Shift
    <3>4. ASSUME NEW j \in 2..Len(Stream) PROVE Shift(h) <= Shift(j)
      <4>1. j \in 1..Len(Stream) /\ (h < j \/ h = j)
        BY <1>2 DEF StreamFacts
      <4> QED
        BY <3>1, <4>1, ShiftOf DEF RowsInv
    <3> QED
      BY <1>0, <3>1, <3>2, <3>3, <3>4, ShiftOf DEF OfImage
  <2>4. Len(crop'.rows) = Kept(count + 1)
    BY <2>1, <2>2
  <2>5. ASSUME NEW r \in 1..Len(crop'.rows), NEW h \in {1, 2}
        PROVE  /\ crop'.rows[r][h] \in Pieces
               /\ crop'.rows[r][h].of = "image" /\ crop'.rows[r][h].val = CropImage
               /\ KeptShift(r, h)' \in Int /\ KeptShift(r, h)' >= 0
               /\ \A j \in 2..Len(Stream) : KeptShift(r, h)' <= Shift(j)
    <3>1. CASE r = n + 1
      BY <2>3, <3>1
    <3>2. CASE r # n + 1
      <4>1. r \in 1..n /\ r \in 1..Len(crop.rows)
        BY <2>0, <2>2, <3>2
      <4> QED
        BY <1>6, <2>2, <4>1
    <3> QED
      BY <3>1, <3>2
  <2> QED
    BY <2>4, <2>5
<1> QED
  BY <1>7, <1>8

LEMMA RowTaken ==
  ASSUME TypeInv, RowRead \/ CaptureRowRead
  PROVE  /\ Len(Stream') = Len(Stream) - 2 /\ 2 \in 1..Len(Stream)
         /\ \A i \in 1..Len(Stream') : /\ Stream'[i] = Stream[i + 2]
                                       /\ i + 2 \in 2..Len(Stream) /\ i + 2 \in 1..Len(Stream)
<1>1. StreamFacts
  BY StreamOf
<1>2. Reads /\ Taken(2) /\ 2 \in 0..Len(rx)
  BY GotTakes DEF Reads, RowRead, CaptureRowRead
<1>3. /\ Len(Stream') = Len(Stream) - 2
      /\ \A i \in 1..Len(Stream') : Stream'[i] = Stream[i + 2]
  BY <1>2, StreamTaken
<1> QED
  BY <1>1, <1>2, <1>3 DEF StreamFacts

(* Behind the rows that are read those that come later keep their shifts.    *)
LEMMA ShiftsGoOn ==
  ASSUME TypeInv, RowsInv, RowRead \/ CaptureRowRead, at' = at
  PROVE  /\ \A j \in 1..Len(Stream') :
              OfImage(Stream[j])' /\ Shift(j)' = Shift(j + 2) /\ Shift(j + 2) >= 0
         /\ \A i, j \in 1..Len(Stream') : i < j => Shift(i)' <= Shift(j)'
<1>1. count' = count + 1 /\ count < Height - 1 /\ Requested' = Requested
  BY RequestedStays DEF RowRead, CaptureRowRead, image
<1>2. count \in Nat /\ Height \in Nat
  BY LinkAssumption DEF TypeInv
<1>3. ASSUME NEW j \in 1..Len(Stream')
      PROVE  OfImage(Stream[j])' /\ Shift(j)' = Shift(j + 2) /\ Shift(j + 2) >= 0
  <2>1. OfImage(Stream[j + 2]) /\ Shift(j + 2) >= 0
    BY RowTaken DEF RowsInv
  <2>2. 2 * count' + j = 2 * count + (j + 2)
    BY <1>1, <1>2
  <2> QED
    BY <1>1, <2>1, <2>2, RowTaken DEF OfImage, Shift
<1>4. ASSUME NEW i \in 1..Len(Stream'), NEW j \in 1..Len(Stream'), i < j
      PROVE  Shift(i)' <= Shift(j)'
  <2>1. i + 2 < j + 2 /\ i + 2 \in 1..Len(Stream) /\ j + 2 \in 1..Len(Stream)
    BY <1>4, RowTaken
  <2>2. Shift(i + 2) <= Shift(j + 2)
    BY <2>1 DEF RowsInv
  <2> QED
    BY <1>3, <2>2
<1> QED
  BY <1>3, <1>4

LEMMA RowsGoOn ==
  ASSUME TypeInv, RowsInv, RowRead, crop.height >= 1, at' = "rows"
  PROVE  RowsInv'
<1>1. /\ count' = count + 1 /\ count < Height - 1 /\ CropImage' = CropImage
      /\ crop'.y = crop.y /\ crop'.height = crop.height /\ at' = at
  BY DEF RowRead, TypeInv, Crops, CropImage
<1>2. count \in Nat /\ Height \in Nat
  BY LinkAssumption DEF TypeInv
<1>3. \A j \in 1..Len(Stream') : OfImage(Stream[j])' /\ Shift(j)' = Shift(j + 2)
                                 /\ Shift(j + 2) >= 0
  BY <1>1, ShiftsGoOn
<1>4. \A i, j \in 1..Len(Stream') : i < j => Shift(i)' <= Shift(j)'
  BY <1>1, ShiftsGoOn
<1>5. ASSUME NEW r \in 1..Len(crop'.rows), NEW h \in {1, 2}
      PROVE  /\ crop'.rows[r][h] \in Pieces
             /\ crop'.rows[r][h].of = "image" /\ crop'.rows[r][h].val = CropImage'
             /\ KeptShift(r, h)' >= 0
             /\ \A j \in 1..Len(Stream') : KeptShift(r, h)' <= Shift(j)'
  <2>1. ASSUME NEW j \in 1..Len(Stream') PROVE KeptShift(r, h)' <= Shift(j)'
    <3>1. KeptShift(r, h)' <= Shift(j + 2)
      BY RowKept, RowTaken
    <3> QED
      BY <1>3, <3>1
  <2> QED
    BY <1>1, <2>1, RowKept
<1>6. count' < Height /\ Len(crop'.rows) = Kept(count)'
  <2>1. Len(crop'.rows) = Kept(count + 1)
    BY RowKept
  <2>2. Kept(count + 1) = Kept(count)'
    BY <1>1 DEF Kept
  <2> QED
    BY <1>1, <1>2, <2>1, <2>2
<1> QED
  BY <1>3, <1>4, <1>5, <1>6 DEF RowsInv

(* A row of the capture is read: no row is kept.                            *)
LEMMA CaptureGoesOn ==
  ASSUME TypeInv, RowsInv, CaptureRowRead, crop = NoCrop, at' = "captureRows"
  PROVE  RowsInv'
<1>1. count' = count + 1 /\ count < Height - 1 /\ crop' = NoCrop /\ at' = at
  BY DEF CaptureRowRead, image
<1>2. count \in Nat /\ Height \in Nat
  BY LinkAssumption DEF TypeInv
<1>3. /\ \A j \in 1..Len(Stream') : OfImage(Stream[j])' /\ Shift(j)' >= 0
      /\ \A i, j \in 1..Len(Stream') : i < j => Shift(i)' <= Shift(j)'
  BY <1>1, ShiftsGoOn
<1>4. count' < Height /\ Len(crop'.rows) = 0 /\ Kept(count)' = 0
  BY <1>1, <1>2 DEF Kept, NoCrop
<1> QED
  BY <1>3, <1>4 DEF RowsInv

(* With its last row nothing is left of the image for the capture.          *)
LEMMA CaptureEnds ==
  ASSUME TypeInv, RowsInv, CaptureRowRead, at' = "captured"
  PROVE  NoneOf("image")'
<1>1. count = Height - 1 /\ Height \in Nat
  BY LinkAssumption DEF CaptureRowRead
<1>2. ASSUME NEW j \in 1..Len(Stream') PROVE FALSE
  <2>1. OfImage(Stream[j + 2]) /\ Shift(j + 2) >= 0 /\ j + 2 \in 1..Len(Stream)
    BY RowTaken DEF RowsInv
  <2>2. PICK p \in Nat : p = Stream[j + 2].part
    BY <2>1, PartOf
  <2>3. p <= 2 * Height /\ p - (2 * count + (j + 2)) >= 0
    BY <2>1, <2>2 DEF OfImage, Shift
  <2>4. j \in Nat /\ j >= 1
    OBVIOUS
  <2> QED
    BY <1>1, <2>3, <2>4
<1> QED
  BY <1>2 DEF NoneOf

(* The last row ends the image: nothing of it is missing then.              *)
LEMMA LastRow ==
  ASSUME TypeInv, RowsInv, RowRead, crop.height >= 1, crop.box # {}, CropCovers
  PROVE  CropRows'
<1>1. /\ crop'.ok <=> count = Height - 1
      /\ crop'.y = crop.y /\ crop'.height = crop.height /\ CropImage' = CropImage
  BY DEF RowRead, TypeInv, Crops, CropImage
<1>2. count \in Nat /\ Height \in Nat /\ crop.y \in Int /\ crop.height \in Int
  BY LinkAssumption DEF TypeInv, Crops
<1> SUFFICES ASSUME crop'.ok
             PROVE  /\ Len(crop'.rows) = crop'.height
                    /\ \A i \in 1..crop'.height : \A h \in {1, 2} :
                         /\ crop'.rows[i][h].of = "image"
                         /\ crop'.rows[i][h].val = CropImage'
                         /\ crop'.rows[i][h].part = 2 * (crop'.y + i - 2) + h + 2
  BY DEF CropRows
<1>3. count + 1 = Height
  BY <1>1, <1>2
<1>4. Len(crop'.rows) = crop.height
  <2>1. Len(crop'.rows) = Kept(Height)
    BY <1>3, RowKept
  <2>2. crop.y + crop.height <= Height
    BY DEF CropCovers
  <2> QED
    BY <1>2, <2>1, <2>2 DEF Kept
<1>5. Shift(2) <= 0
  <2>1. PICK p \in Nat : p = Stream[2].part
    BY RowTaken, PartOf
  <2>2. p <= 2 * Height
    BY <2>1, RowTaken DEF RowsInv, OfImage
  <2>3. p - (2 * count + 2) <= 0
    BY <1>2, <1>3, <2>2
  <2> QED
    BY <2>1, <2>3 DEF Shift
<1>6. ASSUME NEW i \in 1..crop'.height, NEW h \in {1, 2}
      PROVE  /\ crop'.rows[i][h].of = "image"
             /\ crop'.rows[i][h].val = CropImage'
             /\ crop'.rows[i][h].part = 2 * (crop'.y + i - 2) + h + 2
  <2>1. i \in 1..Len(crop'.rows)
    BY <1>1, <1>4
  <2>2. 2 \in 2..Len(Stream)
    BY RowTaken, StreamOf DEF StreamFacts
  <2>3. /\ KeptShift(i, h)' \in Int /\ KeptShift(i, h)' >= 0
        /\ KeptShift(i, h)' <= Shift(2)
        /\ crop'.rows[i][h] \in Pieces
        /\ crop'.rows[i][h].of = "image" /\ crop'.rows[i][h].val = CropImage
    BY <2>1, <2>2, RowKept
  <2>4. KeptShift(i, h)' = 0
    BY <1>5, <2>3, ShiftOf, RowTaken
  <2>5. PICK p \in Nat : p = crop'.rows[i][h].part
    BY <2>3 DEF Pieces
  <2>6. PICK y \in Int : y = crop'.y
    BY <1>1, <1>2
  <2>7. p - (2 * (y + i - 2) + h + 2) = 0
    BY <2>4, <2>5, <2>6 DEF KeptShift
  <2>8. p = 2 * (y + i - 2) + h + 2
    <3>1. i \in Int /\ h \in Int
      OBVIOUS
    <3> QED
      BY <2>7, <3>1
  <2> QED
    BY <1>1, <2>3, <2>5, <2>6, <2>8
<1> QED
  BY <1>1, <1>4, <1>6

LEMMA CropBegun ==
  ASSUME TypeInv, CropBegins
  PROVE  /\ crop'.rows = <<>> /\ crop'.ok = FALSE
         /\ at' = "image" => crop'.box # {} /\ crop'.height >= 1
<1>1. PICK s \in Symbols :
        LET c == Clipped(Box(s))
        IN  \/ /\ Croppable(Box(s))
               /\ crop' = [NoCrop EXCEPT !.x = c.x0, !.y = c.y0,
                             !.width = c.x1 - c.x0 + 1, !.height = c.y1 - c.y0 + 1,
                             !.box = s]
            \/ crop' = NoCrop /\ at' = "identity"
  BY DEF CropBegins
<1> DEFINE c == Clipped(Box(s))
<1>2. CASE Croppable(Box(s)) /\ crop' = [NoCrop EXCEPT !.x = c.x0, !.y = c.y0,
                             !.width = c.x1 - c.x0 + 1, !.height = c.y1 - c.y0 + 1,
                             !.box = s]
  <2>1. c.y0 \in Int /\ c.y1 \in Int /\ c.y0 <= c.y1
    BY <1>2, ClippedCovers
  <2>2. s # {}
    BY LinkAssumption
  <2> HIDE DEF c
  <2>3. /\ crop'.rows = <<>> /\ crop'.ok = FALSE /\ crop'.box = s
        /\ crop'.height = c.y1 - c.y0 + 1
    BY <1>2 DEF NoCrop, c
  <2> QED
    BY <2>1, <2>2, <2>3
<1>3. CASE crop' = NoCrop /\ at' = "identity"
  BY <1>3 DEF NoCrop
<1> QED
  BY <1>1, <1>2, <1>3

LEMMA NoneRestarts ==
  ASSUME TypeInv, Restart, NEW cmd, NoneOf(cmd)
  PROVE  NoneOf(cmd)'
<1> SUFFICES ASSUME NEW i \in 1..Len(Stream') PROVE Stream'[i].of # cmd
  BY DEF NoneOf
<1>1. StreamFacts
  BY StreamOf
<1>2. Stream' = out'
  BY <1>1 DEF Restart, Stream, StreamFacts
<1>3. out' = out
  BY <1>2 DEF Restart
<1>4. Stream'[i] = Stream[i + Len(rx)] /\ i + Len(rx) \in 1..Len(Stream)
  BY <1>1, <1>2, <1>3 DEF StreamFacts
<1> QED
  BY <1>4 DEF NoneOf

(* The phases of an analysis in which an image is read.                     *)
Imaging ==
  {"capture", "captureHeader", "captureRows", "captured", "image", "header", "rows"}

LEMMA AnalysisStarts ==
  ASSUME TypeInv, AnalysisBegins, alone'
  PROVE  CropInv'
<1>1. /\ at' \in {"capture", "identity"} /\ crop' = NoCrop
      /\ Stream' = Stream /\ Stream = rx \o out
      /\ alone' = \A i \in DOMAIN (rx \o out) : (rx \o out)[i].of # "image"
  BY DEF AnalysisBegins, line, Stream
<1>2. \A i \in DOMAIN Stream : Stream[i].of # "image"
  BY <1>1
<1>3. DOMAIN Stream = 1..Len(Stream)
  BY StreamOf DEF StreamFacts
<1>4. NoneOf("image")'
  BY <1>1, <1>2, <1>3 DEF NoneOf
<1>5. CropRows'
  BY <1>1 DEF CropRows, NoCrop
<1> QED
  BY <1>1, <1>4, <1>5 DEF CropInv

(* A step that leaves the crop alone, and the analysis.                     *)
LEMMA CropRowsStay ==
  CropRows /\ crop' = crop /\ analyses' = analyses => CropRows'
BY DEF CropRows, CropImage

LEMMA StepCropInv ==
  TypeInv /\ BaudInv /\ CropCovers /\ (alone => CropInv) /\ [Next]_vars
    => (alone => CropInv)'
<1> SUFFICES ASSUME TypeInv, BaudInv, CropCovers, alone => CropInv, [Next]_vars, alone'
             PROVE  CropInv'
  OBVIOUS
<1>1. CASE AnalysisBegins
  BY <1>1, AnalysisStarts
<1> SUFFICES ASSUME ~AnalysisBegins PROVE CropInv'
  BY <1>1
<1>2. analyses' = analyses /\ alone' = alone
  <2>1. CASE Reads
    BY <2>1 DEF Reads, PingAnswered, PingFails, BaudAnswered, BaudUnanswered,
       Verified, ConfigSent, FormatWritten, FormatShown, CropBegins, CropNotNeeded,
       HeaderRead, CaptureRowRead, RowRead, RowMissing, HeadRead, PidRead, TailRead,
       DataRead, image
  <2>2. CASE Sends
    BY <2>2 DEF Sends, PingSend, BaudSend, ConfigSend, FormatWrite, FormatRead, ImageSend,
                QuerySend, image
  <2>3. CASE Arrive \/ Lose \/ Wake \/ Restart \/ UNCHANGED vars
    BY <2>3 DEF Arrive, Lose, Wake, Restart, vars, image
  <2> QED
    BY <2>1, <2>2, <2>3, Steps
<1>0. CropInv
  BY <1>2
<1>3. CASE ImageSend
  <2>1. /\ \/ at = "image" /\ at' = "header"
           \/ at = "capture" /\ at' = "captureHeader"
        /\ crop' = crop
    BY <1>3 DEF ImageSend, image
  <2>2. HeaderInv'
    BY <1>0, <1>3, <2>1, ImageSent DEF CropInv
  <2>3. CropRows'
    BY <1>0, <1>2, <2>1, CropRowsStay DEF CropInv
  <2> QED
    BY <1>0, <2>1, <2>2, <2>3 DEF CropInv
<1>4. CASE HeaderRead
  <2>1. /\ \/ at = "header" /\ at' \in {"rows", "identity"}
           \/ at = "captureHeader" /\ at' \in {"captureRows", "identity"}
        /\ crop' = crop
    BY <1>4 DEF HeaderRead, image
  <2>2. crop.rows = <<>> /\ crop.y \in Nat
    <3>1. CASE at = "header"
      BY <1>0, <3>1 DEF CropInv, CropCovers, TypeInv, Crops
    <3>2. CASE at = "captureHeader"
      BY <1>0, <3>2 DEF CropInv, NoCrop
    <3> QED
      BY <2>1, <3>1, <3>2
  <2>3. at' \in {"captureRows", "rows"} => RowsInv'
    BY <1>0, <1>4, <2>1, <2>2, HeaderTaken DEF CropInv
  <2>4. CropRows'
    BY <1>0, <1>2, <2>1, CropRowsStay DEF CropInv
  <2> QED
    BY <1>0, <2>1, <2>3, <2>4 DEF CropInv
<1>5. CASE CaptureRowRead
  <2>1. at = "captureRows" /\ at' \in {"captureRows", "captured", "identity"} /\ crop' = crop
    BY <1>5 DEF CaptureRowRead, image
  <2>2. RowsInv /\ crop = NoCrop
    BY <1>0, <2>1 DEF CropInv
  <2>3. at' = "captureRows" => RowsInv'
    BY <1>5, <2>2, CaptureGoesOn
  <2>4. at' = "captured" => NoneOf("image")'
    BY <1>5, <2>2, CaptureEnds
  <2>5. CropRows'
    BY <1>0, <1>2, <2>1, CropRowsStay DEF CropInv
  <2> QED
    BY <2>1, <2>2, <2>3, <2>4, <2>5 DEF CropInv
<1>6. CASE CropBegins
  <2>1. at = "captured" /\ at' \in {"image", "identity"} /\ Reads
    BY <1>6 DEF CropBegins, Reads
  <2>2. NoneOf("image")'
    BY <1>0, <2>1, NoneStays DEF CropInv, Commands
  <2>3. CropRows'
    BY <1>6, CropBegun DEF CropRows
  <2> QED
    BY <1>6, <2>1, <2>2, <2>3, CropBegun DEF CropInv
<1>7. CASE RowRead
  <2>1. /\ at = "rows" /\ at' \in {"rows", "identity"}
        /\ crop'.box = crop.box /\ crop'.height = crop.height
    BY <1>7 DEF RowRead, TypeInv, Crops
  <2>2. RowsInv /\ crop.box # {} /\ crop.height >= 1
    BY <1>0, <2>1 DEF CropInv
  <2>3. at' = "rows" => RowsInv'
    BY <1>7, <2>2, RowsGoOn
  <2>4. CropRows'
    BY <1>7, <2>2, LastRow
  <2> QED
    BY <2>1, <2>2, <2>3, <2>4 DEF CropInv
<1>8. CASE Arrive \/ Lose \/ Wake \/ UNCHANGED vars
  <2>1. at' = at /\ crop' = crop
    BY <1>8 DEF Arrive, Lose, Wake, vars, image
  <2>2. at \in {"captureHeader", "header"} => HeaderInv'
    BY <1>0, <1>8, HeaderStays DEF CropInv
  <2>3. at \in {"captureRows", "rows"} => RowsInv'
    BY <1>0, <1>8, RowsStay DEF CropInv
  <2>4. CropRows'
    BY <1>0, <1>2, <2>1, CropRowsStay DEF CropInv
  <2>5. NoneOf("image") => NoneOf("image")'
    BY <1>8, NoneStays DEF Commands
  <2> QED
    BY <1>0, <2>1, <2>2, <2>3, <2>4, <2>5 DEF CropInv
<1>9. CASE Reads /\ ~(HeaderRead \/ CaptureRowRead \/ CropBegins \/ RowRead)
  <2>1. at' \notin Imaging
    BY <1>9 DEF Reads, PingAnswered, PingFails, BaudAnswered, BaudUnanswered,
         Verified, ConfigSent, FormatWritten, FormatShown, CropNotNeeded,
         RowMissing, HeadRead, PidRead, TailRead, DataRead, Flushed, Given, QueryEnds,
         Imaging
  <2>2. crop' = crop
    BY <1>9 DEF Reads, PingAnswered, PingFails, BaudAnswered, BaudUnanswered,
         Verified, ConfigSent, FormatWritten, FormatShown, CropNotNeeded,
         RowMissing, HeadRead, PidRead, TailRead, DataRead, image
  <2>3. CropRows'
    BY <1>0, <1>2, <2>2, CropRowsStay DEF CropInv
  <2> QED
    BY <2>1, <2>3 DEF CropInv, Imaging
<1>10. CASE Sends /\ ~ImageSend
  <2>1. at' \notin Imaging /\ crop' = crop
    BY <1>10, SendsKeep DEF Sends, PingSend, BaudSend, ConfigSend, FormatWrite, FormatRead,
                            QuerySend, Imaging
  <2>2. CropRows'
    BY <1>0, <1>2, <2>1, CropRowsStay DEF CropInv
  <2> QED
    BY <2>1, <2>2 DEF CropInv, Imaging
<1>11. CASE Restart
  <2>1. at' = "ping" /\ crop' = NoCrop
    BY <1>11 DEF Restart
  <2>2. CropRows'
    BY <2>1 DEF CropRows, NoCrop
  <2> QED
    BY <2>1, <2>2 DEF CropInv
<1> QED
  BY <1>3, <1>4, <1>5, <1>6, <1>7, <1>8, <1>9, <1>10, <1>11, Steps

LEMMA InitCropInv == Init => CropInv
<1> SUFFICES ASSUME Init PROVE CropInv
  OBVIOUS
<1>1. at = "ping" /\ crop.ok = FALSE
  BY DEF Init, NoCrop
<1> QED
  BY <1>1 DEF CropInv, CropRows

(* A crop that is decoded holds whole rows of the image asked for, from row *)
(* crop_y on, and none of the image captured before it, in every analysis   *)
(* that began with no piece of an image under way, whatever was lost or     *)
(* late in it and however often the firmware restarted.                     *)
THEOREM CropWholeHolds == Spec => []CropWhole
<1>1. (alone => CropInv) => CropWhole
  BY DEF CropInv, CropRows, CropWhole
<1> QED
  BY InitTypeInv, StepTypeInv, InitBaudInv, StepBaudInv, CropCoversHolds, InitCropInv,
     StepCropInv, <1>1, PTL DEF Spec

-----------------------------------------------------------------------------
(* The identity values, in the first analysis since the scanner was         *)
(* switched on, whatever was lost: a query asks for another value than the  *)
(* queries before it, and behind its FID comes nothing but its value.       *)

Analysing == Imaging \union {"identity", "head", "pid", "tail", "data"}


AskedBelow(n) ==
  \A i \in 1..Len(Stream) :
    Stream[i].of = "status" /\ Stream[i].part = 3 => Stream[i].val < n

OfQuery(p) == p.of = "status" /\ p.part = 4 /\ p.val = count /\ p.baud = Normal

FidInv ==
  \A i, j \in 1..Len(Stream) :
    i < j /\ Stream[i].of = "status" /\ Stream[i].part = 3 /\ Stream[i].val = count
      => OfQuery(Stream[j])

DataInv == \A i \in 1..Len(Stream) : OfQuery(Stream[i])

QueryInv ==
  /\ analyses = 0 => at \notin Analysing
  /\ analyses = 0 \/ at \in Imaging => NoneOf("status")
  /\ at = "identity" => AskedBelow(count)
  /\ at \in {"head", "pid", "tail"} => AskedBelow(count + 1) /\ FidInv
  /\ at = "data" => DataInv
  /\ OwnValues

LEMMA FirstBefore ==
  ASSUME TypeInv, [Next]_vars, FirstAnalysis'
  PROVE  /\ FirstAnalysis
         /\ ~AnalysisBegins => analyses' = analyses
         /\ AnalysisBegins => analyses = 0 /\ analyses' = 1
<1>1. CASE AnalysisBegins
  <2>1. analyses' = analyses + 1 /\ analyses \in Nat /\ analyses' <= 1
    BY <1>1 DEF AnalysisBegins, TypeInv, FirstAnalysis
  <2> QED
    BY <1>1, <2>1 DEF FirstAnalysis
<1>2. CASE ~AnalysisBegins
  <2>1. analyses' = analyses
    <3>1. CASE Reads
      BY <1>2, <3>1 DEF Reads, PingAnswered, PingFails, BaudAnswered, BaudUnanswered,
         Verified, ConfigSent, FormatWritten, FormatShown, CropBegins,
         CropNotNeeded, HeaderRead, CaptureRowRead, RowRead, RowMissing, HeadRead, PidRead, TailRead, DataRead, image
    <3> QED
      BY <3>1, Steps, SendsKeep DEF Arrive, Lose, Wake, Restart, vars, image
  <2> QED
    BY <1>2, <2>1 DEF FirstAnalysis
<1> QED
  BY <1>1, <1>2

LEMMA QueryStays ==
  ASSUME TypeInv, BaudInv, [Next]_vars, at' \notin Probing, count' = count,
         NEW i \in 1..Len(Stream'), NEW k \in 1..Len(Stream), From(i, k),
         OfQuery(Stream[k])
  PROVE  OfQuery(Stream[i])'
<1>1. (TypeInv /\ BaudInv /\ at \notin Probing)'
  BY StepTypeInv, StepBaudInv
<1>2. NotGarbled'
  BY <1>1, NoGarbage, PTL
<1>3. Stream'[i].of # "garbage"
  BY <1>2 DEF NotGarbled, From, OfQuery
<1> QED
  BY <1>3 DEF From, OfQuery

LEMMA AskedStays ==
  ASSUME TypeInv, Arrive \/ Lose \/ Wake \/ Reads \/ UNCHANGED vars,
         NEW n \in Int, AskedBelow(n)
  PROVE  AskedBelow(n)'
<1> SUFFICES ASSUME NEW i \in 1..Len(Stream'),
                    Stream'[i].of = "status", Stream'[i].part = 3
             PROVE  Stream'[i].val < n
  BY DEF AskedBelow
<1>1. PICK k \in 1..Len(Stream) : From(i, k)
  BY StreamOrder
<1> QED
  BY <1>1 DEF AskedBelow, From

LEMMA FidStays ==
  ASSUME TypeInv, BaudInv, FidInv, at' \notin Probing, count' = count, [Next]_vars,
         Arrive \/ Lose \/ Wake \/ Reads \/ UNCHANGED vars
  PROVE  FidInv'
<1> SUFFICES ASSUME NEW i \in 1..Len(Stream'), NEW j \in 1..Len(Stream'), i < j,
                    Stream'[i].of = "status", Stream'[i].part = 3, Stream'[i].val = count
             PROVE  OfQuery(Stream[j])'
  BY DEF FidInv
<1>1. PICK k, l \in 1..Len(Stream) : From(i, k) /\ From(j, l) /\ k < l
  BY StreamOrder
<1>2. OfQuery(Stream[l])
  BY <1>1 DEF FidInv, From
<1> QED
  BY <1>1, <1>2, QueryStays

LEMMA DataStays ==
  ASSUME TypeInv, BaudInv, DataInv, at' \notin Probing, count' = count,
         Arrive \/ Lose \/ Wake \/ UNCHANGED vars
  PROVE  DataInv'
<1> SUFFICES ASSUME NEW i \in 1..Len(Stream') PROVE OfQuery(Stream[i])'
  BY DEF DataInv
<1>1. PICK k \in 1..Len(Stream) : From(i, k)
  BY StreamOrder
<1>2. OfQuery(Stream[k]) /\ [Next]_vars
  BY DEF DataInv, Next, Line
<1> QED
  BY <1>1, <1>2, QueryStays

LEMMA StatusShape ==
  ASSUME TypeInv, NEW q, NEW k \in 1..Len(StatusReply(q))
  PROVE  /\ StatusReply(q)[k].part = k /\ StatusReply(q)[k].of = "status"
         /\ StatusReply(q)[k].baud = scanner.baud /\ k \in 1..4
         /\ k >= 3 => StatusReply(q)[k].val = q
<1>1. CASE Queries[q] = "unsupported"
  <2>1. StatusReply(q) = <<Piece("status", 1, 0), Piece("status", 2, 0)>>
    BY <1>1 DEF StatusReply
  <2> QED
    BY <2>1 DEF Piece
<1>2. CASE Queries[q] # "unsupported"
  <2>1. PICK n \in {3, 4} : StatusReply(q) = [p \in 1..n |-> Piece("status", p, q)]
    BY <1>2 DEF StatusReply
  <2>2. k \in 1..n
    BY <2>1
  <2> QED
    BY <2>1, <2>2 DEF Piece
<1> QED
  BY <1>1, <1>2

(* A query is sent: it is the first with its FID.                           *)
LEMMA QuerySent ==
  ASSUME TypeInv, BaudInv, QuerySend, AskedBelow(count)
  PROVE  AskedBelow(count + 1)' /\ FidInv'
<1>1. /\ at = "identity" /\ Send("status", count) /\ Command("status", count)
      /\ count' = count /\ count \in Nat
  BY DEF QuerySend, Command, TypeInv
<1>2. PICK r :
        /\ Answers("status", count, r)
        /\ Len(r) \in Nat /\ Len(out) \in Nat /\ Len(Stream') = Len(out) + Len(r)
        /\ \A i \in 1..Len(Stream') :
             \/ /\ i \in 1..Len(out) /\ i + Len(rx) \in 1..Len(Stream)
                /\ Stream'[i] = Stream[i + Len(rx)]
             \/ i - Len(out) \in 1..Len(r) /\ Stream'[i] = r[i - Len(out)]
  BY <1>1, StreamSends
<1>3. scanner.baud = Normal
  BY <1>1 DEF BaudInv, Probing
<1>4. ASSUME NEW k \in 1..Len(r)
      PROVE  /\ r[k].part = k /\ r[k].of = "status" /\ r[k].baud = Normal /\ k \in 1..4
             /\ k >= 3 => r[k].val = count
  <2>1. r = StatusReply(count)
    <3>1. r # <<>>
      OBVIOUS
    <3> QED
      BY <1>2, <3>1 DEF Answers, Reply
  <2> QED
    BY <1>3, <2>1, StatusShape
<1>5. ASSUME NEW i \in 1..Len(Stream'), Stream'[i].of = "status", Stream'[i].part = 3
      PROVE  \/ Stream'[i].val < count
             \/ Stream'[i].val = count /\ i - Len(out) \in 1..Len(r) /\ i - Len(out) = 3
  <2>1. CASE i + Len(rx) \in 1..Len(Stream) /\ Stream'[i] = Stream[i + Len(rx)]
    BY <1>5, <2>1 DEF AskedBelow
  <2>2. CASE i - Len(out) \in 1..Len(r) /\ Stream'[i] = r[i - Len(out)]
    BY <1>4, <1>5, <2>2
  <2> QED
    BY <1>2, <2>1, <2>2
<1>6. AskedBelow(count + 1)'
  <2>1. \A i \in 1..Len(Stream') : Stream'[i].val \in Int
    <3>1. (TypeInv)'
      BY StepTypeInv DEF Next, Firmware
    <3>2. (StreamFacts)'
      BY <3>1, StreamOfNext
    <3>3. \A i \in 1..Len(Stream') : Stream'[i] \in Pieces
      BY <3>2 DEF StreamFacts
    <3> QED
      BY <3>3 DEF Pieces
  <2>2. \A i \in 1..Len(Stream') :
          Stream'[i].of = "status" /\ Stream'[i].part = 3 => Stream'[i].val < count + 1
    BY <1>1, <1>5, <2>1
  <2> QED
    BY <1>1, <2>2 DEF AskedBelow
<1>7. ASSUME NEW i \in 1..Len(Stream'), NEW j \in 1..Len(Stream'), i < j,
             Stream'[i].of = "status", Stream'[i].part = 3, Stream'[i].val = count
      PROVE  OfQuery(Stream[j])'
  <2>1. i - Len(out) \in 1..Len(r) /\ i - Len(out) = 3
    BY <1>1, <1>5, <1>7
  <2>2. j - Len(out) \in 1..Len(r) /\ Stream'[j] = r[j - Len(out)] /\ j - Len(out) >= 4
    BY <1>2, <1>7, <2>1
  <2>3. j - Len(out) = 4
    BY <1>4, <2>2
  <2> QED
    BY <1>1, <1>4, <2>2, <2>3 DEF OfQuery
<1> QED
  BY <1>1, <1>6, <1>7 DEF FidInv

(* Behind the FID that was read comes its value, or nothing.                *)
LEMMA FidTaken ==
  ASSUME TypeInv, FidInv, TailRead, at' = "data"
  PROVE  DataInv'
<1>1. /\ Got(1) /\ rx # <<>> /\ Is(1, "status", 3) /\ rx[1].val = count /\ count' = count
  BY DEF TailRead, Given, Flushed, QueryEnds
<1>2. StreamFacts
  BY StreamOf
<1>3. 1 \in 1..Len(rx) /\ 1 \in 1..Len(Stream) /\ Stream[1] = rx[1]
  BY <1>1, <1>2 DEF Got, StreamFacts
<1>4. /\ Len(Stream') = Len(Stream) - 1
      /\ \A i \in 1..Len(Stream') : Stream'[i] = Stream[i + 1]
  <2>1. Reads /\ Taken(1) /\ 1 \in 0..Len(rx)
    BY <1>1, GotTakes DEF Reads
  <2> QED
    BY <2>1, StreamTaken
<1>5. ASSUME NEW i \in 1..Len(Stream') PROVE OfQuery(Stream[i])'
  <2>1. i + 1 \in 1..Len(Stream) /\ 1 < i + 1 /\ Stream'[i] = Stream[i + 1]
    BY <1>2, <1>4 DEF StreamFacts
  <2>2. OfQuery(Stream[i + 1])
    BY <1>1, <1>3, <2>1 DEF FidInv, Is
  <2> QED
    BY <1>1, <2>1, <2>2 DEF OfQuery
<1> QED
  BY <1>5 DEF DataInv

LEMMA QueryValueNext ==
  ASSUME TypeInv, BaudInv, at = "data", DataInv
  PROVE  Stream = <<>> \/ ValueNext
<1>1. SUFFICES ASSUME Stream # <<>> PROVE ValueNext
  OBVIOUS
<1>2. 1 \in 1..Len(Stream)
  BY <1>1, StreamOf DEF StreamFacts
<1>3. OfQuery(Stream[1]) /\ baud = Normal
  BY <1>2 DEF DataInv, BaudInv, Probing
<1> QED
  BY <1>2, <1>3 DEF OfQuery, ValueNext, ValueOf

ImageReads ==
  \/ HeaderRead \/ CaptureRowRead \/ CropBegins \/ CropNotNeeded \/ RowRead \/ RowMissing

Asking == HeadRead \/ PidRead \/ TailRead \/ DataRead

(* The reads of a query: it goes on, or the next one is still to be asked.  *)
LEMMA QueryReads ==
  ASSUME TypeInv, BaudInv, QueryInv, Asking, analyses # 0, analyses' = analyses,
         OwnValues', [Next]_vars
  PROVE  QueryInv'
<1>1. PICK n \in Int : n = count + 1
  BY DEF TypeInv
<1>2. at \in {"head", "pid", "tail", "data"}
  BY DEF Asking, HeadRead, PidRead, TailRead, DataRead
<1>3. AskedBelow(n)
  BY <1>1, <1>2 DEF QueryInv, DataInv, OfQuery, AskedBelow
<1>4. AskedBelow(n)'
  BY <1>3, AskedStays DEF Asking, Reads
<1>5. \/ at' \in {"pid", "tail"} /\ at # "data" /\ count' = count
      \/ TailRead /\ at' = "data" /\ count' = count
      \/ at' = "identity" /\ count' = count + 1
      \/ at' = "ready"
  BY DEF Asking, HeadRead, PidRead, TailRead, DataRead, Flushed, Given, QueryEnds
<1>6. CASE at' \in {"pid", "tail"} /\ at # "data" /\ count' = count
  <2>1. FidInv'
    BY <1>2, <1>6, FidStays DEF QueryInv, Probing, Asking, Reads
  <2>2. AskedBelow(count + 1)'
    BY <1>1, <1>4, <1>6 DEF AskedBelow
  <2> QED
    BY <1>6, <2>1, <2>2 DEF QueryInv, Imaging
<1>7. CASE TailRead /\ at' = "data" /\ count' = count
  <2>1. at = "tail"
    BY <1>7 DEF TailRead
  <2>2. DataInv'
    BY <1>7, <2>1, FidTaken DEF QueryInv
  <2> QED
    BY <1>7, <2>2 DEF QueryInv, Imaging
<1>8. CASE at' = "identity" /\ count' = count + 1
  <2>1. AskedBelow(count)'
    BY <1>1, <1>4, <1>8 DEF AskedBelow
  <2> QED
    BY <1>8, <2>1 DEF QueryInv, Imaging
<1>9. CASE at' = "ready"
  BY <1>9 DEF QueryInv, Imaging
<1> QED
  BY <1>5, <1>6, <1>7, <1>8, <1>9

LEMMA StepQueryInv ==
  TypeInv /\ BaudInv /\ (FirstAnalysis => QueryInv) /\ [Next]_vars
    => (FirstAnalysis => QueryInv)'
<1> SUFFICES ASSUME TypeInv, BaudInv, FirstAnalysis => QueryInv, [Next]_vars,
                    FirstAnalysis'
             PROVE  QueryInv'
  OBVIOUS
<1>0. QueryInv
  BY FirstBefore
<1>1. OwnValues'
  <2>1. CASE DataRead
    <3>1. at = "data"
      BY <2>1 DEF DataRead
    <3> QED
      BY <1>0, <2>1, <3>1, QueryValueNext, ValueRead DEF QueryInv
  <2>2. CASE ~DataRead
    BY <1>0, <2>2, OthersFindNone DEF QueryInv
  <2> QED
    BY <2>1, <2>2
<1>2. NoneOf("status") /\ ~QuerySend => NoneOf("status")'
  <2> SUFFICES ASSUME NoneOf("status"), ~QuerySend PROVE NoneOf("status")'
    OBVIOUS
  <2>1. CASE Sends
    <3>1. PICK cmd, par : Command(cmd, par) /\ Send(cmd, par) /\ cmd # "status"
      <4>1. CASE ConfigSend
        <5>1. Send("config", Settings[count]) /\ Command("config", Settings[count])
          BY <4>1, SettingOf DEF ConfigSend, TypeInv, Command
        <5> QED
          BY <5>1
      <4>2. CASE ~ConfigSend
        BY <2>1, <4>2 DEF Sends, PingSend, BaudSend, FormatWrite, FormatRead, ImageSend,
                          Command, TypeInv
      <4> QED
        BY <4>1, <4>2
    <3> QED
      BY <3>1, NoneSent DEF Commands
  <2>2. CASE ~Sends
    BY <2>2, Steps, NoneStays, NoneRestarts DEF Commands
  <2> QED
    BY <2>1, <2>2
<1>3. NoneOf("status")' => AskedBelow(count)'
  BY DEF NoneOf, AskedBelow
<1>4. CASE AnalysisBegins
  <2>1. analyses = 0 /\ analyses' = 1
    BY <1>4, FirstBefore
  <2>2. at = "ready" /\ at' \in {"capture", "identity"}
    BY <1>4 DEF AnalysisBegins
  <2>3. NoneOf("status")'
    BY <1>0, <1>2, <2>1, <2>2 DEF QueryInv, QuerySend
  <2> QED
    BY <1>1, <1>3, <2>1, <2>2, <2>3 DEF QueryInv, Analysing, Imaging
<1>5. CASE ImageSend \/ ImageReads
  <2>1. /\ at \in Imaging /\ at' \in Imaging \union {"identity"}
        /\ analyses' = analyses
    BY <1>5 DEF ImageSend, ImageReads, HeaderRead, CaptureRowRead, CropBegins,
                CropNotNeeded, RowRead, RowMissing, image, Imaging
  <2>2. NoneOf("status")' /\ analyses # 0
    BY <1>0, <1>2, <2>1 DEF QueryInv, QuerySend, Analysing, Imaging
  <2> QED
    BY <1>1, <1>3, <2>1, <2>2 DEF QueryInv, Analysing, Imaging
<1>6. CASE QuerySend
  <2>1. at = "identity" /\ at' = "head" /\ analyses' = analyses /\ analyses # 0
    BY <1>0, <1>6 DEF QuerySend, image, QueryInv, Analysing, Imaging
  <2>2. AskedBelow(count + 1)' /\ FidInv'
    BY <1>0, <1>6, <2>1, QuerySent DEF QueryInv
  <2> QED
    BY <1>1, <2>1, <2>2 DEF QueryInv, Analysing, Imaging
<1>7. CASE Asking
  <2>1. analyses' = analyses /\ analyses # 0
    BY <1>0, <1>7 DEF Asking, HeadRead, PidRead, TailRead, DataRead, image, QueryInv,
                      Analysing, Imaging
  <2> QED
    BY <1>0, <1>1, <1>7, <2>1, QueryReads
<1>8. CASE Arrive \/ Lose \/ Wake \/ UNCHANGED vars
  <2>1. at' = at /\ count' = count /\ analyses' = analyses
    BY <1>8 DEF Arrive, Lose, Wake, vars, image
  <2>2. NoneOf("status") => NoneOf("status")'
    BY <1>8, NoneStays DEF Commands
  <2>3. /\ AskedBelow(count) => AskedBelow(count)'
        /\ AskedBelow(count + 1) => AskedBelow(count + 1)'
    <3>1. PICK n, m \in Int : n = count /\ m = count + 1
      BY DEF TypeInv
    <3>2. (AskedBelow(n) => AskedBelow(n)') /\ (AskedBelow(m) => AskedBelow(m)')
      BY <1>8, AskedStays
    <3> QED
      BY <2>1, <3>1, <3>2 DEF AskedBelow
  <2>4. FidInv /\ at \in {"head", "pid", "tail"} => FidInv'
    BY <1>8, <2>1, FidStays DEF Probing
  <2>5. DataInv /\ at = "data" => DataInv'
    BY <1>8, <2>1, DataStays DEF Probing
  <2> QED
    BY <1>0, <1>1, <2>1, <2>2, <2>3, <2>4, <2>5 DEF QueryInv
<1>9. CASE \/ Restart
           \/ Sends /\ ~(ImageSend \/ QuerySend)
           \/ Reads /\ ~(AnalysisBegins \/ ImageReads \/ Asking)
  <2>1. at' \notin Analysing /\ ~QuerySend /\ ~AnalysisBegins
    <3>1. CASE Restart
      BY <3>1 DEF Restart, Analysing, Imaging, QuerySend, AnalysisBegins
    <3>2. CASE Sends /\ ~(ImageSend \/ QuerySend)
      BY <3>2 DEF Sends, PingSend, BaudSend, ConfigSend, FormatWrite, FormatRead,
                  Analysing, Imaging, AnalysisBegins
    <3>3. CASE Reads /\ ~(AnalysisBegins \/ ImageReads \/ Asking)
      BY <3>3 DEF Reads, PingAnswered, PingFails, BaudAnswered, BaudUnanswered, Verified,
                  ConfigSent, FormatWritten, FormatShown, ImageReads, Asking, Analysing,
                  Imaging, QuerySend
    <3> QED
      BY <1>9, <3>1, <3>2, <3>3
  <2>2. analyses' = analyses
    BY <2>1, FirstBefore
  <2>3. NoneOf("status") => NoneOf("status")'
    BY <1>2, <2>1
  <2> QED
    BY <1>0, <1>1, <2>1, <2>2, <2>3 DEF QueryInv, Analysing, Imaging
<1> QED
  BY <1>4, <1>5, <1>6, <1>7, <1>8, <1>9, Steps

LEMMA InitQueryInv == Init => QueryInv
<1> SUFFICES ASSUME Init PROVE QueryInv
  OBVIOUS
<1>1. Stream = <<>> /\ at = "ping" /\ \A q \in DOMAIN Queries : values[q] = Unread
  BY DEF Init, Stream
<1> QED
  BY <1>1 DEF QueryInv, NoneOf, OwnValues, Analysing, Imaging

(* An identity value in a report is the answer to its own query, however    *)
(* late the replies and however often the firmware restarted: for as long   *)
(* as nothing was lost, and in the first analysis since the scanner was     *)
(* switched on whatever was lost.                                           *)
THEOREM OwnValueHolds == Spec => []OwnValue
<1>1. (NothingLost => OwnInv) /\ (FirstAnalysis => QueryInv) => OwnValue
  BY DEF OwnInv, QueryInv, OwnValue, OwnValues
<1> QED
  BY InitTypeInv, StepTypeInv, InitBaudInv, StepBaudInv, InitOwnInv, StepOwnInv,
     InitQueryInv, StepQueryInv, <1>1, PTL DEF Spec
===============================================================================
