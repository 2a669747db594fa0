--------------------------- MODULE MCResultViews ---------------------------
(***************************************************************************)
(* BatchRunner with its result pages, for TLC.                             *)
(***************************************************************************)
EXTENDS ResultViews, Sequences, TLC

CONSTANTS s1, s2, s3, r0, r1, r2

Line(kind, value) == [is |-> kind, value |-> value]

\* Two hosts of one kernel group with different packages on offer; the second
\* report lists its packages after a blank line and repeats the heading.
Kernel == Line("kernel", [distro |-> "RHEL9", base |-> "5.14.0-362"])

MCQCReport ==
  s1 :> <<Kernel, Line("available", ""), Line("package", "k1"), Line("blank", ""),
          Line("package", "k3"), Line("test", TRUE), Line("disk", TRUE)>> @@
  s2 :> <<Kernel, Line("available", ""), Line("blank", ""), Line("package", "k2"),
          Line("test", FALSE), Line("available", ""), Line("blank", ""),
          Line("package", "k3"), Line("test", TRUE), Line("disk", TRUE)>>

MCPostReport ==
  s1 :> <<Line("text", ""), Line("kernelPass", "")>> @@
  s2 :> <<Line("text", ""), Line("kernelFail", "")>>

\* The last line of the second report does not decode.
Report(decodes, results) ==
  Line("json", [decodes |-> decodes, error |-> FALSE, results |-> results])

MCRHSAReport ==
  s1 :> <<Report(TRUE, [a1 |-> "APPLIED", a2 |-> "MISSING"])>> @@
  s2 :> <<Report(TRUE, [a1 |-> "APPLIED", a2 |-> "NOT_APPLICABLE"]),
          Report(FALSE, [a1 |-> "MISSING"])>>

\* The parsers on these reports: k3 is beyond the end of the section in both,
\* and the line that does not decode is passed over.
ASSUME ParsedAsExpected ==
  /\ ParseQC(MCQCReport[s1]) = [current |-> "5.14.0-362", distro |-> "RHEL9",
                                kernels |-> {"k1"}, QCPassed |-> TRUE]
  /\ ParseQC(MCQCReport[s2]).kernels = {"k2"}
  /\ ParseCompliance(MCRHSAReport[s1]) = [status |-> "NON_COMPLIANT", missing |-> {"a2"}]
  /\ ParseCompliance(MCRHSAReport[s2]).status = "COMPLIANT"
=============================================================================
