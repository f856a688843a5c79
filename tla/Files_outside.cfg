SPECIFICATION Spec
CONSTANTS
  Reqs = {q1, q2}
  q1 = q1  q2 = q2
  MaxAtts = 2
  MaxSids = 2
  MaxFaults = 1
SYMMETRY Interchangeable
INVARIANTS TypeOK AttachmentsOnDisk SidsDeleted
PROPERTIES PromptFilesExist UploadsSpareRuns
