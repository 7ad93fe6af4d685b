----------------------------- MODULE MCOracleDfm -----------------------------
EXTENDS OracleDfm

\* Letters and separators that start or continue the patterns whose
\* interplay matters (D/DD/DDD/DY, Y/YY/YYY/YYYY/Y,YYY,
\* MI/MM, FF/FF1/FF2, I/IY, TZH/TZM, DY, AD/A.D., AM/A.M.), lower-case
\* letters, two digits.
MCAlphabet == {"D", "d", "Y", "y", "A", "M", "I", "F", "T", "Z", "1", "2", ",", "."}
====
