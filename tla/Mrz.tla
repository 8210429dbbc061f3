-------------------------------- MODULE Mrz --------------------------------
(***************************************************************************)
(* app/src/lib/mrz.ts: the second line of the machine-readable zone of a   *)
(* reference, as the issuer prints it and as the inspection desk reads it. *)
(* A character is its ICAO 9303 value: a digit is itself, a letter 10 to   *)
(* 35, the filler 0. Only the fields of the second line carry digits that  *)
(* can be checked; the first line is the name and is left out.             *)
(***************************************************************************)
EXTENDS Naturals, Sequences, SequencesExt

CONSTANT Samples   \* bound: the documents whose zone is printed, as digits

Filler == 0
Line2Length == 44

\* What a value of the given length is filled up with, or cut to.
pad(value, length) ==
    IF Len(value) >= length THEN SubSeq(value, 1, length)
    ELSE value \o [i \in 1..(length - Len(value)) |-> Filler]

\* The 7-3-1 weighted digit modulo ten.
checkDigit(field) ==
    FoldLeftDomain(LAMBDA sum, i : sum + field[i] * (IF i % 3 = 1 THEN 7 ELSE IF i % 3 = 2 THEN 3 ELSE 1),
                   0, field) % 10

checked(field) == Append(field, checkDigit(field))

\* The letters of the fixed parts.
Letter == [E |-> 14, G |-> 16, L |-> 21, N |-> 23, S |-> 28, T |-> 29, Z |-> 35]

documentNumber(referenceId) == pad(<<Letter.Z, Letter.G, Letter.L>> \o SubSeq(referenceId, 1, 6), 9)

\* The tier and the first twelve digits of the commitment.
personalNumber(commitment, tier) == pad(<<Letter.T, tier>> \o SubSeq(commitment, 1, 12), 14)

\* The second line. The composite digit covers every field with its digit,
\* but neither the namespace nor the filler in the place of the sex.
line2(docNo, from, expiry, personal) ==
    checked(docNo) \o <<Letter.E, Letter.N, Letter.S>> \o checked(from) \o <<Filler>> \o checked(expiry) \o checked(personal)
      \o <<checkDigit(checked(docNo) \o checked(from) \o checked(expiry) \o checked(personal))>>

buildMrz(referenceId, commitment, from, expiry, tier) ==
    line2(documentNumber(referenceId), from, expiry, personalNumber(commitment, tier))

row(value, printed) == [value |-> value, printed |-> printed, recomputed |-> checkDigit(value)]

\* Mutant: the expiry is cut one place early, over the filler.
ladderFromLine2_Early(line) ==
    IF Len(line) # Line2Length THEN <<>>
    ELSE LET docNo == SubSeq(line, 1, 9)
             from == SubSeq(line, 14, 19)
             expiry == SubSeq(line, 21, 26)
             personal == SubSeq(line, 29, 42)
         IN  << row(docNo, line[10]), row(from, line[20]), row(expiry, line[28]), row(personal, line[43]),
                row(SubSeq(line, 1, 10) \o SubSeq(line, 14, 20) \o SubSeq(line, 22, 43), line[44]) >>

\* The ladder the desk recomputes from a line exactly as printed.
ladderFromLine2(line) ==
    IF Len(line) # Line2Length THEN <<>>
    ELSE LET docNo == SubSeq(line, 1, 9)
             from == SubSeq(line, 14, 19)
             expiry == SubSeq(line, 22, 27)
             personal == SubSeq(line, 29, 42)
         IN  << row(docNo, line[10]), row(from, line[20]), row(expiry, line[28]), row(personal, line[43]),
                row(SubSeq(line, 1, 10) \o SubSeq(line, 14, 20) \o SubSeq(line, 22, 43), line[44]) >>

\* A line whose every digit agrees with what it was computed over.
wellFormed(line) ==
    LET ladder == ladderFromLine2(line)
    IN  ladder # <<>> /\ \A i \in DOMAIN ladder : ladder[i].printed = ladder[i].recomputed
----------------------------------------------------------------------------
(* What check digits are for. *)

\* The places of a line that a digit covers: not the namespace, not the filler.
Covered == (1..44) \ {11, 12, 13, 21}

\* A line as it was printed reads back: the desk cuts it at the places where it
\* was joined, so all five digits agree and the fields are the ones that were
\* printed.
ReadsBack(referenceId, commitment, from, expiry, tier) ==
    LET line == buildMrz(referenceId, commitment, from, expiry, tier)
        ladder == ladderFromLine2(line)
    IN  /\ wellFormed(line)
        /\ ladder[1].value = documentNumber(referenceId) /\ ladder[2].value = from
        /\ ladder[3].value = expiry /\ ladder[4].value = personalNumber(commitment, tier)

\* One digit misread as another digit, anywhere a check digit covers, is caught:
\* none of the weights shares a factor with ten. Letters are another matter,
\* since ten values apart they weigh the same.
CatchesSmudge(line) ==
    \A i \in Covered : line[i] =< 9 =>
        \A digit \in (0..9) \ {line[i]} : ~wellFormed([line EXCEPT ![i] = digit])
=============================================================================
