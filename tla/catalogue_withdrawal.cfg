\* One run after the other, two revisions of one template.
SPECIFICATION CatalogueSpec
CONSTANTS
  Syncs = {x1}
  MaxEvents = 3
  Templates = {"ayran"}
  Revisions = {1, 2}
  Whole = Whole
  Texts = {"ayran", "ayran v2"}
  NoText = "no text"
  VersionOf <- MCVersionOf
  TypeOf <- MCTypeOf
  NoType = NoType
  Needs <- MCNeeds
  Reviewed = {"ayran", "ayran v2"}
INVARIANTS
  WithdrawnIsHidden
CHECK_DEADLOCK FALSE
