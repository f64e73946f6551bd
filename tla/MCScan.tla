------------------------------- MODULE MCScan -------------------------------
(* Two discovery batches; a TLS, an SSH and an HTTP port; three connectors,
   one whose rows a resume restores, one whose rows it does not recognise and
   one that follows the TLS targets. *)
EXTENDS ScanRun

TwoBatches == {[batch |-> 1, serves |-> "TLS"], [batch |-> 2, serves |-> "SSH"],
               [batch |-> 2, serves |-> "HTTP"]}
Connectors == {"s3_scanning", "aws_scanning", "codesign_scanning"}
SeenProtocols == {"S3", "AWS", "CODE_SIGNING"}
=============================================================================
