SPECIFICATION Spec
CONSTANTS
  One = 20
  LastGrade = 3
  Tariffs = {"Plein", "RP"}
  None = None
  Unset = None
  Fallback <- MCFallback
  DefaultIntake = None
  Plafond = 18
  Sizes = {0, 4}
  Rates = {19}
  Adjustments <- MCAdjustments
  RuleForms <- MCRules
  Rooms = {3}
  DetailScopes <- AllScopes
  Drafts <- MCDrafts
  MaxEdits = 1
  Primary = {1}
  Secondary = {2, 3}
  ExamGrade <- MCExam
  AcademyRental <- MCAcademy
  Vat = 3
  Gosi = 2
  LeapYear = FALSE
  TeachingRules <- MCTeaching
  Band <- MCBand
  LineNames <- MCLines
  SectionOf <- MCSection
  CategoryOf <- MCCategory
  OpExAmounts = {5}
  OpExRates = {2}
  LineForms <- MCLineForms
  FormMonths = {9}
  ActiveForms <- MCActive
  KeyOf <- MCKeyOf
  FeeForms <- MCFees
  ItemForms <- MCItems
  SettingForms <- MCSettings
  People <- MCPeople
  CategoryForms <- MCCategories
  TermForms <- MCTerms
  GroupForms <- MCGroups
  ProfileForms <- MCProfiles
  Starts <- MCStarts
  Overrides <- MCOverrides
INVARIANTS
  CleanBudgetIsCurrent
  SplitsAddUp
  NewPupilsAddUp
  RevenueAddsUp
  AccountAddsUp
CHECK_DEADLOCK FALSE
